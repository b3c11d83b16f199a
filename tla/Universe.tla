------------------------------ MODULE Universe ------------------------------
(***************************************************************************)
(* The tradable universe: the tables universe and universe_changes and     *)
(* everything in src/ that writes them. The index sync and the liquidity   *)
(* filter (src/universe/construct_universe.py, run one after the other by  *)
(* scripts/run_universe_sync.py) each read in one transaction and write in *)
(* the next; the GUI, the CSV upload and the backfill scripts write        *)
(* between the two.                                                        *)
(*                                                                         *)
(* universe_changes is kept as the last change_type of each ticker: that   *)
(* is all a replay of the table up to any moment can tell of that moment.  *)
(***************************************************************************)
EXTENDS Naturals

CONSTANTS
  Tickers,
  Sources,    (* The index feeds: S&P 500 and Russell 1000.                *)
  Syncs,      (* Processes of run_universe_sync that may overlap.          *)
  Spy,        (* The ticker backfill_spy_price_history inserts.            *)
  OneFeed     (* Whether a sync may be told to read one feed only.         *)

ASSUME SpyAssumption == Spy \in Tickers
ASSUME OneFeedAssumption == OneFeed \in BOOLEAN

VARIABLES
  members,      (* What each feed lists (outside the system).              *)
  known,        (* universe: the tickers that have a row.                  *)
  active,       (* is_active                                               *)
  source,       (* source; for a ticker without a row, the default.        *)
  lastChange,   (* universe_changes: the last entry of each ticker.        *)
  byHand,       (* History: tickers uploaded or added by the operator.     *)
  listed,       (* History: tickers that came from an index feed.          *)
  pc,           (* Where each sync stands.                                 *)
  feed,         (* fetched_tickers                                         *)
  unread,       (* History: what the feeds that failed would have listed.  *)
  currentAuto,  (* current_auto_tickers, as the sync read them.            *)
  illiquid      (* The tickers below the floor, as the filter read them.   *)

rowVars == <<known, active, source, lastChange>>
syncVars == <<pc, feed, unread, currentAuto, illiquid>>
historyVars == <<byHand, listed>>
vars == <<members, rowVars, historyVars, syncVars>>

Changes == {"none", "added", "removed"}
Steps == {"idle", "fetched", "planned", "synced", "measured"}

(* INSERT ... ON CONFLICT (ticker) of the tickers T.                       *)
Inserted(T) == known \cup T

Logged(T, change) == [t \in Tickers |-> IF t \in T THEN change ELSE lastChange[t]]
-----------------------------------------------------------------------------
Init ==
  /\ members \in [Sources -> SUBSET Tickers]
  /\ known = {}
  /\ active = {}
  /\ source = [t \in Tickers |-> "auto"]
  /\ lastChange = [t \in Tickers |-> "none"]
  /\ byHand = {}
  /\ listed = {}
  /\ pc = [s \in Syncs |-> "idle"]
  /\ feed = [s \in Syncs |-> {}]
  /\ unread = [s \in Syncs |-> {}]
  /\ currentAuto = [s \in Syncs |-> {}]
  /\ illiquid = [s \in Syncs |-> {}]

(* The index provider changes a list.                                      *)
Reconstitute(f, T) ==
  /\ members' = [members EXCEPT ![f] = T]
  /\ UNCHANGED <<rowVars, historyVars, syncVars>>

(* _fetch_selected_sources. A feed that fails yields [] and a warning.     *)
Fetch(s) ==
  /\ pc[s] = "idle"
  /\ \E selected \in SUBSET Sources, down \in SUBSET Sources :
       /\ selected # {} /\ down \subseteq selected
       /\ OneFeed \/ selected = Sources
       /\ feed' = [feed EXCEPT ![s] = UNION {members[f] : f \in selected \ down}]
       /\ unread' = [unread EXCEPT ![s] = UNION {members[f] : f \in down}]
  /\ pc' = [pc EXCEPT ![s] = "fetched"]
  /\ UNCHANGED <<members, rowVars, historyVars, currentAuto, illiquid>>

ActiveAuto == {t \in active : source[t] = "auto"}

(* The first transaction of sync_index_universe.                           *)
Plan(s) ==
  /\ pc[s] = "fetched"
  /\ currentAuto' = [currentAuto EXCEPT ![s] = ActiveAuto]
  /\ pc' = [pc EXCEPT ![s] = "planned"]
  /\ UNCHANGED <<members, rowVars, historyVars, feed, unread, illiquid>>

ToAdd(s) == feed[s] \ currentAuto[s]
ToRemove(s) == {t \in currentAuto[s] \ feed[s] : source[t] = "auto"}

(* Logging only the tickers that have no row yet.                          *)
LoggedNewRows(s) ==
  [t \in Tickers |-> IF t \in currentAuto[s] \ feed[s] THEN "removed"
                     ELSE IF t \in feed[s] \ known THEN "added" ELSE lastChange[t]]

LoggedDiff(s) ==
  [t \in Tickers |-> IF t \in currentAuto[s] \ feed[s] THEN "removed"
                     ELSE IF t \in ToAdd(s) THEN "added" ELSE lastChange[t]]

(* The second transaction: every fetched ticker is upserted as active and  *)
(* auto, the differences are logged, and what the feed lacks is switched   *)
(* off.                                                                    *)
Sync(s) ==
  /\ pc[s] = "planned"
  /\ known' = Inserted(feed[s])
  /\ active' = (active \cup feed[s]) \ ToRemove(s)
  /\ source' = [t \in Tickers |-> IF t \in feed[s] THEN "auto" ELSE source[t]]
  /\ lastChange' = LoggedDiff(s)
  /\ pc' = [pc EXCEPT ![s] = "synced"]
  /\ listed' = listed \cup feed[s]
  /\ UNCHANGED <<members, byHand, feed, unread, currentAuto, illiquid>>

(* apply_liquidity_filters, first transaction: which of the tickers with   *)
(* enough price history trade below the floor.                             *)
Measure(s) ==
  /\ pc[s] = "synced"
  /\ \E low \in SUBSET known : illiquid' = [illiquid EXCEPT ![s] = low]
  /\ pc' = [pc EXCEPT ![s] = "measured"]
  /\ UNCHANGED <<members, rowVars, historyVars, feed, unread, currentAuto>>

End(s) ==
  /\ pc' = [pc EXCEPT ![s] = "idle"]
  /\ feed' = [feed EXCEPT ![s] = {}]
  /\ unread' = [unread EXCEPT ![s] = {}]
  /\ currentAuto' = [currentAuto EXCEPT ![s] = {}]
  /\ illiquid' = [illiquid EXCEPT ![s] = {}]

(* Second transaction: switched off, and logged even if already off.       *)
DropIlliquid(s) ==
  /\ pc[s] = "measured"
  /\ active' = active \ illiquid[s]
  /\ lastChange' = Logged(illiquid[s], "removed")
  /\ End(s)
  /\ UNCHANGED <<members, known, source, historyVars>>

(* Without --apply-liquidity-filter the job ends after the sync; and it    *)
(* may be killed anywhere, which rolls back the open transaction.          *)
Stop(s) ==
  /\ pc[s] # "idle"
  /\ End(s)
  /\ UNCHANGED <<members, rowVars, historyVars>>
-----------------------------------------------------------------------------
(* An insert that leaves source at its default.                            *)
SourceByDefault(T) == source

SourceByHand(T) == [t \in Tickers |-> IF t \in T \ known THEN "manual" ELSE source[t]]

(* upload_manual_tickers and queries.add_manual_ticker: a new row is       *)
(* manual, an existing one keeps its source, and each is logged.           *)
AddByHand(T) ==
  /\ T # {}
  /\ known' = Inserted(T)
  /\ active' = active \cup T
  /\ source' = SourceByHand(T)
  /\ lastChange' = Logged(T, "added")
  /\ byHand' = byHand \cup T
  /\ UNCHANGED <<members, listed, syncVars>>

(* backfill_universe_sector: it inserts what the table lacks, unlogged. It *)
(* refuses to run on an empty fetch.                                       *)
BackfillSector ==
  /\ \E T \in SUBSET Tickers :
       /\ T # {} /\ \E up \in SUBSET Sources : T = UNION {members[f] : f \in up}
       /\ known' = Inserted(T)
       /\ active' = active \cup (T \ known)
       /\ listed' = listed \cup (T \ known)
  /\ UNCHANGED <<members, source, lastChange, byHand, syncVars>>

(* backfill_spy_price_history: an inactive manual row, unlogged.           *)
InsertSpy ==
  /\ Spy \notin known
  /\ known' = Inserted({Spy})
  /\ source' = [source EXCEPT ![Spy] = "manual"]
  /\ UNCHANGED <<members, active, lastChange, historyVars, syncVars>>

SyncStep(s) ==
  \/ Fetch(s)
  \/ Plan(s)
  \/ Sync(s)
  \/ Measure(s)
  \/ DropIlliquid(s)
  \/ Stop(s)

Next ==
  \/ \E s \in Syncs : SyncStep(s)
  \/ \E f \in Sources, T \in SUBSET Tickers : Reconstitute(f, T)
  \/ \E T \in SUBSET Tickers : AddByHand(T)
  \/ BackfillSector
  \/ InsertSpy

Spec == Init /\ [][Next]_vars
-----------------------------------------------------------------------------
(* Every variable keeps its type; only rows are active, and a sync holds   *)
(* tickers of rows it read.                                                *)
TypeOK ==
  /\ members \in [Sources -> SUBSET Tickers]
  /\ known \subseteq Tickers
  /\ active \subseteq known
  /\ source \in [Tickers -> {"auto", "manual"}]
  /\ lastChange \in [Tickers -> Changes]
  /\ byHand \subseteq known
  /\ listed \subseteq known
  /\ pc \in [Syncs -> Steps]
  /\ feed \in [Syncs -> SUBSET Tickers]
  /\ unread \in [Syncs -> SUBSET Tickers]
  /\ currentAuto \in [Syncs -> SUBSET known]
  /\ illiquid \in [Syncs -> SUBSET known]

(* While one sync runs at a time, universe_changes replays to is_active    *)
(* for every ticker that has an entry, although the sync plans its entries *)
(* in one transaction and writes them in another, after the operator may   *)
(* have changed the same rows (DESIGN.md section 8.2, item 3). A ticker    *)
(* without an entry is exempt: the sector backfill inserts active rows and *)
(* logs nothing, so the log does not tell of them (LogIsComplete).         *)
LogReplays ==
  \A t \in known : lastChange[t] # "none" => (t \in active <=> lastChange[t] = "added")

(* What the operator added stays until an index lists it: no sync, however *)
(* many overlap and whatever feeds fail, switches off a ticker that no     *)
(* feed has ever brought (construct_universe.py:79-80, "Never touches      *)
(* manually-added tickers even if they're absent from the index feeds").   *)
ManualStaysUntilListed ==
  [][\A s \in Syncs : pc[s] = "planned" /\ pc'[s] = "synced" =>
       (active \ active') \cap byHand \subseteq listed]_vars

(* DESIGN.md 8.2, item 3: the membership at any date "is reconstructed"    *)
(* from universe_changes, so that every active ticker has an entry.        *)
LogIsComplete == \A t \in active : lastChange[t] # "none"

(* upload_manual_tickers, construct_universe.py:162: "Manually-added       *)
(* tickers are never auto-deactivated by sync_index_universe."             *)
ManualNeverDeactivated ==
  [][\A s \in Syncs : pc[s] = "planned" /\ pc'[s] = "synced" =>
       (active \ active') \cap byHand = {}]_vars

(* index_sources.py:79-81: a feed that fails yields [] "so a Wikipedia     *)
(* layout change doesn't take down the whole universe sync": the sync      *)
(* keeps what that feed would have listed.                                 *)
FeedFailureIsHarmless ==
  [][\A s \in Syncs : pc[s] = "planned" /\ pc'[s] = "synced" =>
       (active \ active') \cap unread[s] = {}]_vars
=============================================================================
