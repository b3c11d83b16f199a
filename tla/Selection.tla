----------------------------- MODULE Selection -----------------------------
(***************************************************************************)
(* From ranking to picks: the correlation and sector filter of             *)
(* scripts/run_correlation_filter_cron.py (Stage 4) and the sizing of      *)
(* scripts/run_risk_sizing_cron.py (Stage 5), one step per iteration of    *)
(* their loops. What the stages read from the database is chosen at the    *)
(* start; how they hand it on to each other is module DailyPicks.          *)
(*                                                                         *)
(* A correlation matters only through the comparison with the threshold:   *)
(* `close` holds the pairs whose |r|, as returns.corr() computes it, is    *)
(* above it, and a name's |r| with itself is 1 (its price moves at all).   *)
(* Pandas computes r from whatever days two tickers share; two shared      *)
(* returns already give |r| = 1.                                           *)
(***************************************************************************)
EXTENDS Naturals, Sequences, FiniteSets, Functions

CONSTANTS
  Tickers,
  Sectors,
  NoSector,              (* universe.sector is NULL.                        *)
  ShortlistSize,         (* STAGE3_SHORTLIST_SIZE                           *)
  MaxNamesPerSector,     (* MAX_NAMES_PER_SECTOR                            *)
  DailyPicksCount        (* DAILY_PICKS_COUNT                               *)

ASSUME SectorsAssumption == NoSector \notin Sectors
ASSUME LimitsAssumption ==
  /\ IsFiniteSet(Tickers)
  /\ ShortlistSize \in Nat \ {0}
  /\ MaxNamesPerSector \in Nat \ {0}
  /\ DailyPicksCount \in Nat \ {0}

VARIABLES
  ranking,       (* ml_rankings of the run, best first.                     *)
  held,          (* The long positions.                                     *)
  sector,        (* universe.sector                                         *)
  longHistory,   (* The tickers with MIN_CORRELATION_HISTORY_DAYS of prices.*)
  close,         (* The pairs whose |r| exceeds the threshold.              *)
  phase,
  candidates,    (* Stage 4: the candidates not yet decided.                *)
  accepted,      (* Stage 4: the accepted ones, by final_rank.              *)
  sectorCounts,  (* Stage 4: sector_counts                                  *)
  excludedFor,   (* Stage 4: correlation_flag and sector_cap_flag.          *)
  sizeable,      (* Stage 5: the tickers whose realized_vol is positive.    *)
  toSize,        (* Stage 5: the accepted ones not yet looked at.           *)
  sized          (* Stage 5: the picks, in order.                           *)

inputs == <<ranking, held, sector, longHistory, close>>
filterVars == <<candidates, accepted, sectorCounts, excludedFor>>
sizingVars == <<sizeable, toSize, sized>>
vars == <<inputs, phase, filterVars, sizingVars>>

Phases == {"filter", "filtered", "size", "picked", "failed"}
Reasons == {"none", "correlation", "sector_cap"}

SectorMembers(s, T) == {t \in T : sector[t] = s}

(* Sequences of distinct tickers.                                          *)
Rankings == UNION {Injection(1 .. n, Tickers) : n \in 0 .. Cardinality(Tickers)}

(* rows[:limit]                                                            *)
Shortlist == IF Len(ranking) > ShortlistSize THEN SubSeq(ranking, 1, ShortlistSize) ELSE ranking

Init ==
  /\ ranking \in Rankings
  /\ held \in SUBSET Tickers
  /\ sector \in [Tickers -> Sectors \cup {NoSector}]
  /\ longHistory \in SUBSET Tickers
  /\ \E apart \in SUBSET {T \in SUBSET Tickers : Cardinality(T) = 2} :
       close = {p \in Tickers \X Tickers : {p[1], p[2]} \notin apart}
  /\ phase = "filter"
  /\ candidates = Shortlist
  /\ accepted = <<>>
  /\ sectorCounts = [s \in Sectors |-> Cardinality(SectorMembers(s, held))]
  /\ excludedFor = [t \in Tickers |-> "none"]
  /\ sizeable = {}
  /\ toSize = <<>>
  /\ sized = <<>>
-----------------------------------------------------------------------------
(* A candidate that is compared with what the run accepted only.           *)
TooCloseToAccepted(t) == t \in longHistory /\ \E u \in Range(accepted) : <<t, u>> \in close

(* has_history asks about the candidate, not about what it is compared to. *)
(* A ticker that is held is compared with itself.                          *)
TooClose(t) ==
  t \in longHistory /\ \E u \in Range(accepted) \cup held : <<t, u>> \in close

(* A cap that is reached only beyond the maximum.                          *)
SectorFullLate(t) ==
  sector[t] # NoSector /\ sectorCounts[sector[t]] > MaxNamesPerSector

(* A cap that is reached one name early.                                   *)
SectorFullEarly(t) ==
  sector[t] # NoSector /\ sectorCounts[sector[t]] + 1 >= MaxNamesPerSector

SectorFull(t) ==
  sector[t] # NoSector /\ sectorCounts[sector[t]] + 1 > MaxNamesPerSector

Counted(t) ==
  IF sector[t] = NoSector THEN sectorCounts
  ELSE [sectorCounts EXCEPT ![sector[t]] = @ + 1]

(* One iteration of the Stage 4 loop: the candidate is accepted ...        *)
Accept ==
  /\ phase = "filter" /\ candidates # <<>>
  /\ LET t == Head(candidates)
     IN /\ ~ TooClose(t) /\ ~ SectorFull(t)
        /\ accepted' = Append(accepted, t)
        /\ sectorCounts' = Counted(t)
  /\ candidates' = Tail(candidates)
  /\ UNCHANGED <<inputs, phase, excludedFor, sizingVars>>

(* ... or excluded, for its correlation before its sector.                 *)
Exclude ==
  /\ phase = "filter" /\ candidates # <<>>
  /\ LET t == Head(candidates)
     IN /\ TooClose(t) \/ SectorFull(t)
        /\ excludedFor' = [excludedFor EXCEPT ![t] =
             IF TooClose(t) THEN "correlation" ELSE "sector_cap"]
  /\ candidates' = Tail(candidates)
  /\ UNCHANGED <<inputs, phase, accepted, sectorCounts, sizingVars>>

(* Every candidate is decided: the shortlist is stored. With no candidates *)
(* at all the stage fails.                                                 *)
EndFilter ==
  /\ phase = "filter" /\ candidates = <<>>
  /\ phase' = IF ranking = <<>> THEN "failed" ELSE "filtered"
  /\ UNCHANGED <<inputs, filterVars, sizingVars>>
-----------------------------------------------------------------------------
(* Stage 5 reads the accepted rows by rank. It fails if there are none.    *)
StartSizing ==
  /\ phase = "filtered"
  /\ phase' = IF accepted = <<>> THEN "failed" ELSE "size"
  /\ toSize' = accepted
  /\ sizeable' \in SUBSET Tickers
  /\ UNCHANGED <<inputs, filterVars, sized>>

(* A loop that stops one pick early.                                       *)
EnoughEarly == Len(sized) + 1 = DailyPicksCount

Enough == Len(sized) = DailyPicksCount

(* One iteration of the Stage 5 loop: a ticker without volatility is       *)
(* skipped.                                                                *)
Size ==
  /\ phase = "size" /\ toSize # <<>> /\ ~ Enough
  /\ sized' = IF Head(toSize) \in sizeable THEN Append(sized, Head(toSize)) ELSE sized
  /\ toSize' = Tail(toSize)
  /\ UNCHANGED <<inputs, phase, filterVars, sizeable>>

EndSizing ==
  /\ phase = "size" /\ (toSize = <<>> \/ Enough)
  /\ phase' = IF sized = <<>> THEN "failed" ELSE "picked"
  /\ UNCHANGED <<inputs, filterVars, sizingVars>>

Done == phase \in {"picked", "failed"} /\ UNCHANGED vars

Next == Accept \/ Exclude \/ EndFilter \/ StartSizing \/ Size \/ EndSizing \/ Done

Spec == Init /\ [][Next]_vars
-----------------------------------------------------------------------------
(* Inputs and locals keep their types; sector_counts has no NULL sector.   *)
TypeOK ==
  /\ ranking \in Seq(Tickers)
  /\ held \subseteq Tickers
  /\ sector \in [Tickers -> Sectors \cup {NoSector}]
  /\ longHistory \subseteq Tickers
  /\ close \subseteq Tickers \X Tickers
  /\ phase \in Phases
  /\ candidates \in Seq(Tickers)
  /\ accepted \in Seq(Tickers)
  /\ sectorCounts \in [Sectors -> Nat]
  /\ excludedFor \in [Tickers -> Reasons]
  /\ sizeable \subseteq Tickers
  /\ toSize \in Seq(Tickers)
  /\ sized \in Seq(Tickers)

(* The book stays spread over sectors: the accepted names of a sector and  *)
(* those already held are together no more than MAX_NAMES_PER_SECTOR,      *)
(* unless the held ones alone were more, and then none is accepted.        *)
SectorsAreCapped ==
  \A s \in Sectors :
    SectorMembers(s, Range(accepted)) # {} =>
      Cardinality(SectorMembers(s, held)) + Cardinality(SectorMembers(s, Range(accepted)))
        <= MaxNamesPerSector

(* An accepted name with enough price history is below the threshold with *)
(* every held name and with every other such name accepted. A name that is *)
(* held is accepted again only in the one case the code lets through: it   *)
(* has too little history for has_history, so that nothing was compared,   *)
(* not even the name with itself.                                          *)
AcceptedAreSpread ==
  /\ \A t \in Range(accepted) \cap longHistory :
       /\ \A u \in held : <<t, u>> \notin close
       /\ \A u \in (Range(accepted) \cap longHistory) \ {t} : <<t, u>> \notin close
  /\ \A t \in Range(accepted) \cap held : t \notin longHistory

(* The filter gives nothing away: every excluded candidate is too close to *)
(* a held name or one accepted above it, or its sector is full with held   *)
(* names and names accepted above it.                                      *)
RankedAbove(t) ==
  {u \in Range(accepted) : \E i, j \in DOMAIN ranking : i < j /\ ranking[i] = u /\ ranking[j] = t}
ExclusionsAreJustified ==
  \A t \in Tickers :
    /\ excludedFor[t] = "correlation" => \E u \in RankedAbove(t) \cup held : <<t, u>> \in close
    /\ excludedFor[t] = "sector_cap" =>
         Cardinality(SectorMembers(sector[t], held))
           + Cardinality(SectorMembers(sector[t], RankedAbove(t))) >= MaxNamesPerSector

(* The picks are the best that can be sized: when Stage 5 has ended, an    *)
(* accepted name with volatility that is not among them comes after all of *)
(* them, and they are DAILY_PICKS_COUNT, neither more nor fewer.           *)
LeftOut(i) == accepted[i] \in sizeable \ Range(sized)
PicksAreTheBest ==
  /\ Len(sized) <= DailyPicksCount
  /\ phase \in {"picked", "failed"} =>
       \A i \in DOMAIN accepted :
         LeftOut(i) =>
           /\ Len(sized) = DailyPicksCount
           /\ \A j \in DOMAIN accepted : accepted[j] \in Range(sized) => j < i
=============================================================================
