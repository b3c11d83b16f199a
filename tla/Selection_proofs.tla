------------------------- MODULE Selection_proofs -------------------------
(***************************************************************************)
(* Proofs about Selection, for any ranking, holdings, sectors and          *)
(* correlations, and any limits.                                           *)
(***************************************************************************)
EXTENDS Selection, SequenceTheorems, FiniteSetTheorems, TLAPS

LEMMA RankingsAreSequences == \A s \in Rankings : s \in Seq(Tickers)
<1>1. Cardinality(Tickers) \in Nat
  BY FS_CardinalityType, LimitsAssumption
<1> SUFFICES ASSUME NEW s \in Rankings PROVE s \in Seq(Tickers)
  OBVIOUS
<1>2. PICK n \in 0 .. Cardinality(Tickers) : s \in Injection(1 .. n, Tickers)
  BY DEF Rankings
<1>3. n \in Nat /\ s \in [1 .. n -> Tickers]
  BY <1>1, <1>2 DEF Injection
<1> QED BY <1>3, SeqDef

(* An accepted name joins those accepted before.                           *)
LEMMA RangeOfAppend ==
  ASSUME NEW s \in Seq(Tickers), NEW t \in Tickers
  PROVE  Range(Append(s, t)) = Range(s) \cup {t}
<1>1. /\ DOMAIN s = 1 .. Len(s) /\ Len(s) \in Nat
      /\ DOMAIN Append(s, t) = 1 .. Len(s) + 1
      /\ \A i \in 1 .. Len(s) : Append(s, t)[i] = s[i]
      /\ Append(s, t)[Len(s) + 1] = t
  OBVIOUS
<1>2. 1 .. Len(s) + 1 = 1 .. Len(s) \cup {Len(s) + 1}
  BY <1>1
<1> HIDE <1>1
<1>3. Range(Append(s, t)) \subseteq Range(s) \cup {t}
  BY <1>1, <1>2 DEF Range
<1>4. Range(s) \cup {t} \subseteq Range(Append(s, t))
  BY <1>1, <1>2 DEF Range
<1> QED BY <1>3, <1>4

LEMMA RangeIsFinite ==
  ASSUME NEW s \in Seq(Tickers), NEW T, T \subseteq Range(s) \cup Tickers
  PROVE  T \subseteq Tickers /\ IsFiniteSet(T)
<1>1. Range(s) \subseteq Tickers
  BY DEF Range
<1> QED BY <1>1, FS_Subset, LimitsAssumption

(* Correlation is symmetric, and perfect between a name and itself.        *)
Symmetric ==
  /\ \A t, u \in Tickers : <<t, u>> \in close => <<u, t>> \in close
  /\ \A t \in Tickers : <<t, t>> \in close

LEMMA InitTypeOK == Init => TypeOK /\ Symmetric
<1> SUFFICES ASSUME Init PROVE TypeOK /\ Symmetric
  OBVIOUS
<1>1. ranking \in Seq(Tickers) /\ candidates \in Seq(Tickers)
  <2>1. ranking \in Seq(Tickers)
    BY RankingsAreSequences DEF Init
  <2>2. Len(ranking) > ShortlistSize => SubSeq(ranking, 1, ShortlistSize) \in Seq(Tickers)
    BY <2>1, LimitsAssumption, SubSeqProperties
  <2> QED BY <2>1, <2>2 DEF Init, Shortlist
<1>2. held \subseteq Tickers /\ sector \in [Tickers -> Sectors \cup {NoSector}] /\ longHistory \subseteq Tickers
  BY DEF Init
<1>3. close \subseteq Tickers \X Tickers /\ Symmetric
  <2>1. PICK apart \in SUBSET {T \in SUBSET Tickers : Cardinality(T) = 2} :
          close = {p \in Tickers \X Tickers : {p[1], p[2]} \notin apart}
    BY DEF Init
  <2>2. \A t, u \in Tickers : {t, u} = {u, t}
    OBVIOUS
  <2>3. close \subseteq Tickers \X Tickers
    BY <2>1
  <2>4. \A t, u \in Tickers : <<t, u>> \in close <=> {t, u} \notin apart
    BY <2>1
  <2>5. \A t \in Tickers : {t, t} \notin apart
    <3>1. \A t \in Tickers : {t, t} = {t} /\ Cardinality({t}) = 1
      BY FS_Singleton
    <3> QED BY <2>1, <3>1
  <2> QED BY <2>2, <2>3, <2>4, <2>5 DEF Symmetric
<1>4. sectorCounts \in [Sectors -> Nat]
  <2>1. \A s \in Sectors : Cardinality(SectorMembers(s, held)) \in Nat
    BY <1>2, FS_Subset, FS_CardinalityType, LimitsAssumption DEF SectorMembers
  <2> QED BY <2>1 DEF Init
<1> QED BY <1>1, <1>2, <1>3, <1>4 DEF Init, TypeOK, Phases, Reasons

LEMMA NextTypeOK == TypeOK /\ [Next]_vars => TypeOK'
<1> SUFFICES ASSUME TypeOK, [Next]_vars PROVE TypeOK'
  OBVIOUS
<1>1. ASSUME candidates # <<>>
      PROVE  Head(candidates) \in Tickers /\ Tail(candidates) \in Seq(Tickers)
  BY <1>1 DEF TypeOK
<1>2. CASE Accept
  <2>1. Counted(Head(candidates)) \in [Sectors -> Nat]
    BY <1>1, <1>2, SectorsAssumption DEF Accept, Counted, TypeOK
  <2>2. accepted' \in Seq(Tickers)
    BY <1>1, <1>2 DEF Accept, TypeOK
  <2> QED BY <1>1, <1>2, <2>1, <2>2 DEF Accept, TypeOK, inputs, sizingVars
<1>3. CASE Exclude
  <2>1. excludedFor' \in [Tickers -> Reasons]
    BY <1>3 DEF Exclude, TypeOK, Reasons
  <2> QED BY <1>1, <1>3, <2>1 DEF Exclude, TypeOK, inputs, sizingVars
<1>4. CASE EndFilter
  BY <1>4 DEF EndFilter, TypeOK, inputs, filterVars, sizingVars, Phases
<1>5. CASE StartSizing
  BY <1>5 DEF StartSizing, TypeOK, inputs, filterVars, Phases
<1>6. CASE Size
  <2>1. Head(toSize) \in Tickers /\ Tail(toSize) \in Seq(Tickers)
    BY <1>6 DEF Size, TypeOK
  <2>2. sized' \in Seq(Tickers)
    BY <1>6, <2>1 DEF Size, TypeOK
  <2> QED BY <1>6, <2>1, <2>2 DEF Size, TypeOK, inputs, filterVars
<1>7. CASE EndSizing
  BY <1>7 DEF EndSizing, TypeOK, inputs, filterVars, sizingVars, Phases
<1>8. CASE UNCHANGED vars
  BY <1>8 DEF vars, TypeOK, inputs, filterVars, sizingVars
<1> QED BY <1>2, <1>3, <1>4, <1>5, <1>6, <1>7, <1>8 DEF Next, Done

(* sector_counts never gets a NULL key, and every list is one of tickers,  *)
(* for any limits and sectors.                                             *)
THEOREM TypeCorrect == Spec => []TypeOK
BY InitTypeOK, NextTypeOK, PTL DEF Spec
-----------------------------------------------------------------------------
(* The inputs stay, and the filter's variables change in Accept only.      *)
LEMMA FilterSteps ==
  ASSUME [Next]_vars
  PROVE  UNCHANGED inputs /\ (UNCHANGED <<accepted, sectorCounts>> \/ Accept)
BY DEF Next, Accept, Exclude, EndFilter, StartSizing, Size, EndSizing, Done, vars, inputs, filterVars,
   sizingVars

(* sector_counts counts at least the held and the accepted names.          *)
CountsSuffice ==
  /\ \A s \in Sectors :
       Cardinality(SectorMembers(s, held)) + Cardinality(SectorMembers(s, Range(accepted)))
         <= sectorCounts[s]
  /\ \A s \in Sectors :
       SectorMembers(s, Range(accepted)) # {} => sectorCounts[s] <= MaxNamesPerSector

LEMMA SectorCardinality ==
  ASSUME TypeOK, NEW s \in Sectors
  PROVE  /\ Cardinality(SectorMembers(s, held)) \in Nat
         /\ Cardinality(SectorMembers(s, Range(accepted))) \in Nat
         /\ IsFiniteSet(SectorMembers(s, Range(accepted)))
<1>1. SectorMembers(s, held) \subseteq Tickers /\ SectorMembers(s, Range(accepted)) \subseteq Tickers
  BY DEF SectorMembers, TypeOK, Range
<1> QED BY <1>1, FS_Subset, FS_CardinalityType, LimitsAssumption

LEMMA AcceptCounts ==
  ASSUME TypeOK, CountsSuffice, Accept PROVE CountsSuffice'
<1> DEFINE t == Head(candidates)
<1>1. /\ t \in Tickers /\ ~ SectorFull(t) /\ accepted' = Append(accepted, t)
      /\ sectorCounts' = Counted(t) /\ held' = held /\ sector' = sector
  BY DEF Accept, TypeOK, inputs
<1>2. PICK u : u = t
  OBVIOUS
<1> HIDE DEF t
<1>3. Range(accepted') = Range(accepted) \cup {u}
  BY <1>1, <1>2, RangeOfAppend DEF TypeOK
<1> SUFFICES ASSUME NEW s \in Sectors
             PROVE  /\ Cardinality(SectorMembers(s, held)) + Cardinality(SectorMembers(s, Range(accepted')))
                         <= sectorCounts'[s]
                    /\ SectorMembers(s, Range(accepted')) # {} => sectorCounts'[s] <= MaxNamesPerSector
  BY <1>1 DEF CountsSuffice, SectorMembers
<1> DEFINE A == SectorMembers(s, Range(accepted))
           B == SectorMembers(s, Range(accepted'))
           h == Cardinality(SectorMembers(s, held))
<1>4. h \in Nat /\ Cardinality(A) \in Nat /\ IsFiniteSet(A)
  BY SectorCardinality
<1>5. h + Cardinality(A) <= sectorCounts[s] /\ sectorCounts[s] \in Nat
      /\ (A # {} => sectorCounts[s] <= MaxNamesPerSector)
  BY DEF CountsSuffice, TypeOK
<1>6. CASE sector[u] = s
  <2>1. B = A \cup {u}
    BY <1>3, <1>6 DEF SectorMembers
  <2>2. Cardinality(B) <= Cardinality(A) + 1 /\ Cardinality(B) \in Nat
    BY <1>4, <2>1, FS_AddElement
  <2>3. sectorCounts'[s] = sectorCounts[s] + 1 /\ sectorCounts[s] + 1 <= MaxNamesPerSector
    BY <1>1, <1>2, <1>5, <1>6, SectorsAssumption, LimitsAssumption DEF Counted, SectorFull, TypeOK
  <2> HIDE DEF A, B, h
  <2>4. h + Cardinality(B) <= sectorCounts'[s]
    BY <1>4, <1>5, <2>2, <2>3
  <2> QED BY <2>3, <2>4 DEF B, h
<1>7. CASE sector[u] # s
  <2>1. B = A
    BY <1>3, <1>7 DEF SectorMembers
  <2>2. sectorCounts'[s] = sectorCounts[s]
    BY <1>1, <1>2, <1>7 DEF Counted, TypeOK
  <2> QED BY <1>5, <2>1, <2>2
<1> QED BY <1>6, <1>7

(* The book never holds more than MAX_NAMES_PER_SECTOR names of a sector   *)
(* because of the filter, for any limits, sectors and holdings.            *)
THEOREM SectorsAreCappedTheorem == Spec => []SectorsAreCapped
<1>1. Init => CountsSuffice
  <2> SUFFICES ASSUME Init PROVE CountsSuffice
    OBVIOUS
  <2>1. Range(accepted) = {}
    BY DEF Init, Range
  <2>2. \A s \in Sectors : SectorMembers(s, Range(accepted)) = {}
    BY <2>1 DEF SectorMembers
  <2>3. \A s \in Sectors : sectorCounts[s] = Cardinality(SectorMembers(s, held))
                           /\ Cardinality(SectorMembers(s, held)) \in Nat
    BY InitTypeOK DEF Init, TypeOK
  <2>4. Cardinality({}) = 0
    BY FS_EmptySet
  <2> QED BY <2>2, <2>3, <2>4 DEF CountsSuffice
<1>2. TypeOK /\ CountsSuffice /\ [Next]_vars => CountsSuffice'
  <2> SUFFICES ASSUME TypeOK, CountsSuffice, [Next]_vars PROVE CountsSuffice'
    OBVIOUS
  <2>1. CASE UNCHANGED <<accepted, sectorCounts>>
    BY <2>1, FilterSteps DEF inputs, CountsSuffice, SectorMembers
  <2> QED BY <2>1, FilterSteps, AcceptCounts
<1>3. TypeOK /\ CountsSuffice => SectorsAreCapped
  <2> SUFFICES ASSUME TypeOK, CountsSuffice, NEW s \in Sectors, SectorMembers(s, Range(accepted)) # {}
               PROVE  Cardinality(SectorMembers(s, held)) + Cardinality(SectorMembers(s, Range(accepted)))
                        <= MaxNamesPerSector
    BY DEF SectorsAreCapped
  <2>1. sectorCounts[s] \in Nat
    BY DEF TypeOK
  <2> QED BY <2>1, SectorCardinality, LimitsAssumption DEF CountsSuffice
<1> QED BY InitTypeOK, NextTypeOK, <1>1, <1>2, <1>3, PTL DEF Spec
-----------------------------------------------------------------------------
(* The invariant: AcceptedAreSpread, and a symmetric correlation, which    *)
(* makes asking the later of two names enough.                             *)
LEMMA NextSpread ==
  TypeOK /\ Symmetric /\ AcceptedAreSpread /\ [Next]_vars => Symmetric' /\ AcceptedAreSpread'
<1> SUFFICES ASSUME TypeOK, Symmetric, AcceptedAreSpread, [Next]_vars
             PROVE  Symmetric' /\ AcceptedAreSpread'
  OBVIOUS
<1>1. close' = close /\ held' = held /\ longHistory' = longHistory /\ Symmetric'
  BY FilterSteps DEF inputs, Symmetric
<1>2. CASE UNCHANGED accepted
  BY <1>1, <1>2 DEF AcceptedAreSpread
<1>3. CASE Accept
  <2>1. PICK n : n = Head(candidates)
    OBVIOUS
  <2>2. n \in Tickers /\ ~ TooClose(n) /\ accepted' = Append(accepted, n)
    BY <1>3, <2>1 DEF Accept, TypeOK
  <2>3. Range(accepted') = Range(accepted) \cup {n} /\ Range(accepted) \subseteq Tickers
    <3>1. Range(accepted') = Range(accepted) \cup {n}
      BY <2>2, RangeOfAppend DEF TypeOK
    <3>2. Range(accepted) \subseteq Tickers
      BY DEF TypeOK, Range
    <3> QED BY <3>1, <3>2
  <2>4. n \in longHistory => \A u \in Range(accepted) \cup held : <<n, u>> \notin close
    BY <2>2 DEF TooClose
  <2>5. n \in longHistory => \A u \in Range(accepted) : <<u, n>> \notin close
    BY <2>2, <2>3, <2>4 DEF Symmetric
  <2>6. n \in held => n \notin longHistory
    BY <2>2, <2>4 DEF Symmetric
  <2> QED BY <1>1, <2>3, <2>4, <2>5, <2>6 DEF AcceptedAreSpread
<1> QED BY <1>1, <1>2, <1>3, FilterSteps

(* However the candidates are ranked, an accepted name with enough history *)
(* is below the threshold with every held name and with every other such   *)
(* name accepted; a held name is accepted again only if its history is too *)
(* short to be compared at all.                                            *)
THEOREM AcceptedAreSpreadTheorem == Spec => []AcceptedAreSpread
<1>1. Init => AcceptedAreSpread
  BY DEF Init, AcceptedAreSpread, Range
<1> QED BY InitTypeOK, NextTypeOK, NextSpread, <1>1, PTL DEF Spec
-----------------------------------------------------------------------------
Distinct(s) == \A i, j \in 1 .. Len(s) : s[i] = s[j] => i = j

(* A ranking lists a ticker once, so it is decided once.                   *)
DecidedOnce ==
  /\ Distinct(candidates) /\ Distinct(accepted)
  /\ \A i \in 1 .. Len(candidates), j \in 1 .. Len(accepted) : candidates[i] # accepted[j]

(* The sizing loop has looked at a prefix of the accepted names, and the   *)
(* picks are those of them that have volatility. It ends when the names    *)
(* are used up or the picks are enough.                                    *)
Looked == Len(accepted) - Len(toSize)
Ended == phase \in {"picked", "failed"} /\ accepted # <<>>
SizingInv ==
  /\ Len(sized) <= DailyPicksCount
  /\ ranking = <<>> => candidates = <<>> /\ accepted = <<>>
  /\ phase \in {"filter", "filtered"} => sized = <<>>
  /\ Ended => toSize = <<>> \/ Enough
  /\ phase = "size" \/ Ended =>
       /\ Len(toSize) <= Len(accepted)
       /\ \A i \in 1 .. Len(toSize) : toSize[i] = accepted[Looked + i]
       /\ \A i \in 1 .. Looked : accepted[i] \in sizeable => accepted[i] \in Range(sized)
       /\ \A t \in Range(sized) : \E i \in 1 .. Looked : accepted[i] = t

LEMMA InitDecidedOnce == Init => DecidedOnce
<1> SUFFICES ASSUME Init PROVE DecidedOnce
  OBVIOUS
<1>1. ranking \in Seq(Tickers) /\ Distinct(ranking)
  <2>1. PICK n \in 0 .. Cardinality(Tickers) : ranking \in Injection(1 .. n, Tickers)
    BY DEF Init, Rankings
  <2>2. ranking \in Seq(Tickers) /\ DOMAIN ranking = 1 .. n
    BY <2>1, RankingsAreSequences DEF Init, Injection
  <2>3. 1 .. Len(ranking) = DOMAIN ranking
    BY <2>2
  <2>4. \A i, j \in DOMAIN ranking : ranking[i] = ranking[j] => i = j
    BY <2>1 DEF Injection, IsInjective
  <2> QED BY <2>2, <2>3, <2>4 DEF Distinct
<1>2. Distinct(Shortlist)
  <2>1. CASE Len(ranking) > ShortlistSize
    <3>1. Shortlist = SubSeq(ranking, 1, ShortlistSize) /\ ShortlistSize \in Nat \ {0}
      BY <2>1, LimitsAssumption DEF Shortlist
    <3>2. /\ Len(Shortlist) = ShortlistSize
          /\ \A i \in 1 .. ShortlistSize : Shortlist[i] = ranking[i] /\ i \in 1 .. Len(ranking)
      BY <1>1, <2>1, <3>1
    <3> QED BY <1>1, <3>2 DEF Distinct
  <2>2. CASE ~ (Len(ranking) > ShortlistSize)
    BY <1>1, <2>2 DEF Shortlist
  <2> QED BY <2>1, <2>2
<1>3. candidates = Shortlist /\ accepted = <<>>
  BY DEF Init
<1> QED BY <1>2, <1>3 DEF DecidedOnce, Distinct

LEMMA NextDecidedOnce == TypeOK /\ DecidedOnce /\ [Next]_vars => DecidedOnce'
<1> SUFFICES ASSUME TypeOK, DecidedOnce, [Next]_vars PROVE DecidedOnce'
  OBVIOUS
<1>1. CASE UNCHANGED <<candidates, accepted>>
  BY <1>1 DEF DecidedOnce, Distinct
<1>2. ASSUME candidates # <<>>, candidates' = Tail(candidates)
      PROVE  /\ Len(candidates) \in Nat \ {0} /\ Len(candidates') = Len(candidates) - 1
             /\ \A i \in 1 .. Len(candidates') :
                  candidates'[i] = candidates[i + 1] /\ i + 1 \in 1 .. Len(candidates)
             /\ Head(candidates) = candidates[1] /\ 1 \in 1 .. Len(candidates)
  BY <1>2 DEF TypeOK
<1>3. ASSUME candidates # <<>>, candidates' = Tail(candidates)
      PROVE  Distinct(candidates') /\ \A i \in 1 .. Len(candidates') : candidates'[i] # Head(candidates)
  <2>1. ASSUME NEW i \in 1 .. Len(candidates'), NEW j \in 1 .. Len(candidates'),
               candidates'[i] = candidates'[j]
        PROVE  i = j
    <3>1. i + 1 = j + 1
      BY <1>2, <1>3, <2>1 DEF DecidedOnce, Distinct
    <3> QED BY <3>1
  <2>2. ASSUME NEW i \in 1 .. Len(candidates') PROVE candidates'[i] # Head(candidates)
    <3>1. i + 1 # 1
      BY <2>2
    <3> QED BY <1>2, <1>3, <2>2, <3>1 DEF DecidedOnce, Distinct
  <2> QED BY <2>1, <2>2 DEF Distinct
<1>4. CASE Exclude
  BY <1>2, <1>3, <1>4 DEF Exclude, DecidedOnce, Distinct
<1>5. CASE Accept
  <2>1. PICK t : t = Head(candidates)
    OBVIOUS
  <2>2. candidates # <<>> /\ candidates' = Tail(candidates) /\ accepted' = Append(accepted, t)
    BY <1>5, <2>1 DEF Accept
  <2>3. /\ Len(accepted) \in Nat /\ Len(accepted') = Len(accepted) + 1
        /\ \A i \in 1 .. Len(accepted) : accepted'[i] = accepted[i] /\ accepted[i] # t
        /\ accepted'[Len(accepted) + 1] = t
    BY <1>2, <2>1, <2>2 DEF TypeOK, DecidedOnce
  <2>4. \A i \in 1 .. Len(accepted') : i \in 1 .. Len(accepted) \/ i = Len(accepted) + 1
    BY <2>3
  <2>5. Distinct(accepted')
    BY <2>3, <2>4 DEF DecidedOnce, Distinct
  <2>6. ASSUME NEW i \in 1 .. Len(candidates'), NEW j \in 1 .. Len(accepted')
        PROVE  candidates'[i] # accepted'[j]
    BY <1>2, <1>3, <2>1, <2>2, <2>3, <2>4 DEF DecidedOnce
  <2> QED BY <1>3, <2>2, <2>5, <2>6 DEF DecidedOnce
<1>6. UNCHANGED <<candidates, accepted>> \/ Accept \/ Exclude
  BY DEF Next, EndFilter, StartSizing, Size, EndSizing, Done, vars, filterVars
<1> QED BY <1>1, <1>4, <1>5, <1>6

LEMMA SizeStep ==
  ASSUME TypeOK, SizingInv, Size PROVE SizingInv'
<1>1. PICK t : t = Head(toSize)
  OBVIOUS
<1>2. /\ phase = "size" /\ phase' = "size" /\ ~ Enough
      /\ UNCHANGED <<accepted, sizeable>> /\ toSize # <<>>
      /\ toSize' = Tail(toSize) /\ sized' = IF t \in sizeable THEN Append(sized, t) ELSE sized
  BY <1>1 DEF Size, filterVars
<1>3. /\ Len(toSize) \in Nat \ {0} /\ Len(accepted) \in Nat
      /\ Len(toSize') = Len(toSize) - 1
      /\ t = toSize[1] /\ t \in Tickers
      /\ \A i \in 1 .. Len(toSize') : toSize'[i] = toSize[i + 1] /\ i + 1 \in 1 .. Len(toSize)
  BY <1>1, <1>2 DEF TypeOK
<1>4. Looked' = Looked + 1 /\ Looked \in Nat /\ Len(toSize) <= Len(accepted)
  BY <1>2, <1>3 DEF Looked, SizingInv
<1>5. accepted[Looked + 1] = t
  BY <1>2, <1>3 DEF SizingInv
<1>6. Range(sized') = IF t \in sizeable THEN Range(sized) \cup {t} ELSE Range(sized)
  BY <1>2, <1>3, RangeOfAppend DEF TypeOK
<1>7. Len(sized') <= DailyPicksCount
  BY <1>2, <1>3, LimitsAssumption DEF Enough, SizingInv, TypeOK
<1>8. ASSUME NEW i \in 1 .. Len(toSize') PROVE toSize'[i] = accepted'[Looked' + i]
  <2>1. toSize[i + 1] = accepted[Looked + (i + 1)]
    BY <1>2, <1>3 DEF SizingInv
  <2>2. Looked + (i + 1) = (Looked + 1) + i
    BY <1>4
  <2> QED BY <1>2, <1>3, <1>4, <2>1, <2>2
<1>9. ASSUME NEW i \in 1 .. Looked', accepted'[i] \in sizeable' PROVE accepted'[i] \in Range(sized')
  <2>1. i \in 1 .. Looked \/ i = Looked + 1
    BY <1>4
  <2> QED BY <1>2, <1>5, <1>6, <1>9, <2>1 DEF SizingInv
<1>10. ASSUME NEW u \in Range(sized') PROVE \E i \in 1 .. Looked' : accepted'[i] = u
  <2>1. u \in Range(sized) \/ u = t
    BY <1>6
  <2>2. 1 .. Looked \subseteq 1 .. Looked' /\ Looked + 1 \in 1 .. Looked'
    BY <1>4
  <2> QED BY <1>2, <1>5, <2>1, <2>2 DEF SizingInv
<1>11. Len(toSize') <= Len(accepted')
  BY <1>2, <1>3, <1>4
<1>12. (ranking = <<>> => candidates = <<>> /\ accepted = <<>>)'
  BY DEF Size, SizingInv, inputs, filterVars
<1> QED BY <1>2, <1>7, <1>8, <1>9, <1>10, <1>11, <1>12 DEF SizingInv, Ended

LEMMA NextSizingInv == TypeOK /\ SizingInv /\ [Next]_vars => SizingInv'
<1> SUFFICES ASSUME TypeOK, SizingInv, [Next]_vars PROVE SizingInv'
  OBVIOUS
<1>1. ASSUME phase' \in {"filter", "filtered"}, phase = "filter", sized' = sized,
             (ranking = <<>> => candidates = <<>> /\ accepted = <<>>)'
      PROVE  SizingInv'
  BY <1>1 DEF SizingInv, Ended
<1>2. CASE Accept \/ Exclude
  <2>1. ranking' = ranking /\ ranking # <<>>
    BY <1>2 DEF Accept, Exclude, SizingInv, inputs
  <2> QED BY <1>1, <1>2, <2>1 DEF Accept, Exclude, sizingVars
<1>3. CASE EndFilter
  <2>1. (ranking = <<>> => candidates = <<>> /\ accepted = <<>>)'
    BY <1>3 DEF EndFilter, SizingInv, inputs, filterVars
  <2>2. CASE ranking = <<>>
    <3>1. phase' = "failed" /\ accepted' = <<>> /\ sized' = sized
      BY <1>3, <2>2 DEF EndFilter, SizingInv, filterVars, sizingVars
    <3> QED BY <2>1, <3>1 DEF SizingInv, Ended
  <2>3. CASE ranking # <<>>
    BY <1>1, <1>3, <2>1, <2>3 DEF EndFilter, sizingVars
  <2> QED BY <2>2, <2>3
<1>4. CASE StartSizing
  <2>1. (ranking = <<>> => candidates = <<>> /\ accepted = <<>>)'
    BY <1>4 DEF StartSizing, SizingInv, inputs, filterVars
  <2>2. accepted' = accepted /\ sized' = <<>> /\ sized = <<>>
    BY <1>4 DEF StartSizing, filterVars, SizingInv
  <2>3. CASE accepted = <<>>
    <3>1. phase' = "failed"
      BY <1>4, <2>3 DEF StartSizing
    <3> QED BY <2>1, <2>2, <2>3, <3>1 DEF SizingInv, Ended
  <2>4. CASE accepted # <<>>
    <3>1. phase' = "size" /\ toSize' = accepted
      BY <1>4, <2>4 DEF StartSizing
    <3>2. Looked' = 0 /\ Len(accepted) \in Nat /\ Range(sized') = {} /\ Len(sized') = 0
      BY <2>2, <3>1 DEF Looked, TypeOK, Range
    <3>3. \A i \in 1 .. Len(toSize') : toSize'[i] = accepted'[Looked' + i]
      BY <2>2, <3>1, <3>2
    <3> QED BY <2>1, <2>2, <3>1, <3>2, <3>3, LimitsAssumption DEF SizingInv, Ended
  <2> QED BY <2>3, <2>4
<1>5. CASE EndSizing
  <2>1. /\ UNCHANGED <<ranking, candidates, accepted, sizeable, toSize, sized>>
        /\ phase = "size" /\ phase' \in {"failed", "picked"} /\ (toSize = <<>> \/ Enough)
    BY <1>5 DEF EndSizing, inputs, filterVars, sizingVars
  <2>2. Looked' = Looked /\ Enough' = Enough
    BY <2>1 DEF Looked, Enough
  <2> QED BY <2>1, <2>2 DEF SizingInv, Ended
<1>6. CASE UNCHANGED vars
  <2>1. UNCHANGED <<ranking, candidates, accepted, sizeable, toSize, sized, phase>>
    BY <1>6 DEF inputs, filterVars, sizingVars, vars
  <2>2. Looked' = Looked /\ Enough' = Enough /\ Ended' = Ended
    BY <2>1 DEF Looked, Enough, Ended
  <2> QED BY <2>1, <2>2 DEF SizingInv
<1> QED BY <1>2, <1>3, <1>4, <1>5, <1>6, SizeStep DEF Next, Done

(* Stage 5 never makes more than DAILY_PICKS_COUNT picks, nor fewer while  *)
(* a name that can be sized is left, and never passes over a better name   *)
(* that can be sized, for any ranking and limits.                          *)
THEOREM PicksAreTheBestTheorem == Spec => []PicksAreTheBest
<1>1. Init => SizingInv
  <2> SUFFICES ASSUME Init PROVE SizingInv
    OBVIOUS
  <2>1. ranking = <<>> => candidates = <<>>
    BY LimitsAssumption DEF Init, Shortlist
  <2> QED BY <2>1, LimitsAssumption DEF Init, SizingInv, Ended
<1>2. TypeOK /\ DecidedOnce /\ SizingInv => PicksAreTheBest
  <2> SUFFICES ASSUME TypeOK, DecidedOnce, SizingInv, phase \in {"picked", "failed"},
                      NEW i \in DOMAIN accepted, LeftOut(i)
               PROVE  /\ Len(sized) = DailyPicksCount
                      /\ \A j \in DOMAIN accepted : accepted[j] \in Range(sized) => j < i
    BY DEF PicksAreTheBest, SizingInv
  <2>1. DOMAIN accepted = 1 .. Len(accepted) /\ Len(accepted) \in Nat /\ Len(toSize) \in Nat
    BY DEF TypeOK
  <2>2. Ended
    BY <2>1 DEF Ended
  <2>3. ~ (i \in 1 .. Looked)
    BY <2>2 DEF SizingInv, LeftOut
  <2>4. Enough
    <3>1. toSize = <<>> => Looked = Len(accepted)
      BY <2>1 DEF Looked
    <3> QED BY <2>1, <2>2, <2>3, <3>1 DEF SizingInv
  <2>5. ASSUME NEW j \in DOMAIN accepted, accepted[j] \in Range(sized) PROVE j < i
    <3>1. PICK m \in 1 .. Looked : accepted[m] = accepted[j]
      BY <2>2, <2>5 DEF SizingInv
    <3>2. Looked \in Int /\ Looked <= Len(accepted)
      BY <2>1 DEF Looked
    <3>3. m = j
      BY <2>1, <2>5, <3>1, <3>2 DEF DecidedOnce, Distinct
    <3> QED BY <2>1, <2>3, <2>5, <3>1, <3>2, <3>3
  <2> QED BY <2>4, <2>5 DEF Enough
<1> QED
  BY InitTypeOK, NextTypeOK, InitDecidedOnce, NextDecidedOnce, NextSizingInv, <1>1, <1>2, PTL DEF Spec
-----------------------------------------------------------------------------
(* The filter has decided the best names of the ranking and accepted some  *)
(* of them, so whatever it has accepted is above whatever it excludes; and *)
(* sector_counts counts the held and the accepted names and no others.     *)
Decided == Len(Shortlist) - Len(candidates)
RankOrder ==
  /\ Len(candidates) <= Len(Shortlist)
  /\ \A i \in 1 .. Len(candidates) : candidates[i] = ranking[Decided + i]
  /\ \A u \in Range(accepted) : \E m \in 1 .. Decided : ranking[m] = u
CountsOnly ==
  \A s \in Sectors :
    sectorCounts[s] <= Cardinality(SectorMembers(s, held))
                       + Cardinality(SectorMembers(s, Range(accepted)))
FilterInv == RankOrder /\ CountsOnly

LEMMA ShortlistIsAPrefix ==
  ASSUME ranking \in Seq(Tickers)
  PROVE  /\ Len(Shortlist) \in Nat /\ Len(ranking) \in Nat /\ Len(Shortlist) <= Len(ranking)
         /\ \A i \in 1 .. Len(Shortlist) : Shortlist[i] = ranking[i]
<1>1. CASE Len(ranking) > ShortlistSize
  <2>1. Shortlist = SubSeq(ranking, 1, ShortlistSize) /\ ShortlistSize \in Nat \ {0}
    BY <1>1, LimitsAssumption DEF Shortlist
  <2>2. /\ Len(Shortlist) = ShortlistSize
        /\ \A i \in 1 .. ShortlistSize : Shortlist[i] = ranking[i]
    BY <1>1, <2>1
  <2> QED BY <1>1, <2>1, <2>2
<1>2. CASE ~ (Len(ranking) > ShortlistSize)
  BY <1>2, LimitsAssumption DEF Shortlist
<1> QED BY <1>1, <1>2

LEMMA InitFilterInv == Init => FilterInv
<1> SUFFICES ASSUME Init PROVE FilterInv
  OBVIOUS
<1>1. candidates = Shortlist /\ Range(accepted) = {} /\ ranking \in Seq(Tickers)
  BY RankingsAreSequences DEF Init, Range
<1>2. Decided = 0 /\ Len(Shortlist) \in Nat
  BY <1>1, ShortlistIsAPrefix DEF Decided
<1>3. \A i \in 1 .. Len(candidates) : candidates[i] = ranking[Decided + i]
  <2>1. \A i \in 1 .. Len(candidates) : candidates[i] = ranking[i] /\ 0 + i = i
    BY <1>1, ShortlistIsAPrefix
  <2> QED BY <1>2, <2>1
<1>4. RankOrder
  BY <1>1, <1>2, <1>3 DEF RankOrder
<1>5. CountsOnly
  <2>1. \A s \in Sectors : /\ SectorMembers(s, Range(accepted)) = {}
                           /\ sectorCounts[s] = Cardinality(SectorMembers(s, held))
                           /\ Cardinality(SectorMembers(s, held)) \in Nat
    BY <1>1, InitTypeOK DEF Init, TypeOK, SectorMembers
  <2>2. Cardinality({}) = 0
    BY FS_EmptySet
  <2> QED BY <2>1, <2>2 DEF CountsOnly
<1> QED BY <1>4, <1>5 DEF FilterInv

(* The next candidate is the best one not decided yet.                     *)
LEMMA NextCandidate ==
  ASSUME TypeOK, RankOrder, candidates # <<>>
  PROVE  /\ Head(candidates) \in Tickers /\ Head(candidates) = ranking[Decided + 1]
         /\ Decided \in Nat /\ Decided + 1 \in DOMAIN ranking /\ 1 .. Decided \subseteq DOMAIN ranking
         /\ Head(candidates) = candidates[1] /\ 1 \in 1 .. Len(candidates)
<1>1. Len(candidates) \in Nat \ {0} /\ Head(candidates) = candidates[1]
      /\ Head(candidates) \in Tickers
  BY DEF TypeOK
<1>2. Len(Shortlist) \in Nat /\ Len(ranking) \in Nat /\ Len(Shortlist) <= Len(ranking)
  BY ShortlistIsAPrefix DEF TypeOK
<1>3. Decided \in Nat /\ Decided + 1 <= Len(ranking)
  BY <1>1, <1>2 DEF Decided, RankOrder
<1>4. DOMAIN ranking = 1 .. Len(ranking)
  BY DEF TypeOK
<1>5. 1 \in 1 .. Len(candidates)
  BY <1>1
<1>6. candidates[1] = ranking[Decided + 1]
  BY <1>5 DEF RankOrder
<1> QED BY <1>1, <1>2, <1>3, <1>4, <1>5, <1>6

(* A candidate is decided, and accepted or not.                            *)
LEMMA DecideNext ==
  ASSUME TypeOK, TypeOK', RankOrder, candidates # <<>>, candidates' = Tail(candidates),
         ranking' = ranking,
         Range(accepted') \subseteq Range(accepted) \cup {Head(candidates)}
  PROVE  RankOrder'
<1> PICK n : n = Len(candidates)
  OBVIOUS
<1>1. /\ n \in Nat \ {0} /\ Len(candidates') = n - 1
      /\ \A i \in 1 .. Len(candidates') : candidates'[i] = candidates[i + 1] /\ i + 1 \in 1 .. n
  BY DEF TypeOK
<1>2. Shortlist' = Shortlist /\ Len(Shortlist) \in Nat
  BY ShortlistIsAPrefix DEF Shortlist, TypeOK
<1>3. Decided' = Decided + 1 /\ Decided \in Nat /\ n <= Len(Shortlist)
  BY <1>1, <1>2 DEF Decided, RankOrder
<1>4. ASSUME NEW i \in 1 .. Len(candidates') PROVE candidates'[i] = ranking'[Decided' + i]
  <2>1. candidates'[i] = ranking[Decided + (i + 1)]
    BY <1>1 DEF RankOrder
  <2>2. Decided + (i + 1) = (Decided + 1) + i
    BY <1>3
  <2> QED BY <1>3, <2>1, <2>2
<1>5. ASSUME NEW u \in Range(accepted') PROVE \E m \in 1 .. Decided' : ranking'[m] = u
  <2>1. CASE u \in Range(accepted)
    <3>1. PICK m \in 1 .. Decided : ranking[m] = u
      BY <2>1 DEF RankOrder
    <3>2. m \in 1 .. Decided'
      BY <1>3
    <3> QED BY <3>1, <3>2
  <2>2. CASE u = Head(candidates)
    <3>1. u = ranking[Decided + 1]
      BY <2>2, NextCandidate
    <3>2. Decided + 1 \in 1 .. Decided'
      BY <1>3
    <3> QED BY <1>3, <3>1, <3>2
  <2> QED BY <2>1, <2>2
<1>6. Len(candidates') <= Len(Shortlist')
  BY <1>1, <1>2, <1>3
<1> QED BY <1>4, <1>5, <1>6 DEF RankOrder

LEMMA AcceptCountsOnly ==
  ASSUME TypeOK, DecidedOnce, FilterInv, Accept PROVE CountsOnly'
<1> PICK t : t = Head(candidates)
  OBVIOUS
<1>1. /\ candidates # <<>> /\ t \in Tickers /\ accepted' = Append(accepted, t)
      /\ sectorCounts' = Counted(t) /\ held' = held /\ sector' = sector
  BY DEF Accept, TypeOK, inputs
<1>2. Range(accepted') = Range(accepted) \cup {t}
  BY <1>1, RangeOfAppend DEF TypeOK
<1>3. t \notin Range(accepted)
  <2>1. t = candidates[1] /\ 1 \in 1 .. Len(candidates)
    BY <1>1, NextCandidate DEF FilterInv
  <2>2. \A j \in 1 .. Len(accepted) : accepted[j] # t
    BY <2>1 DEF DecidedOnce
  <2>3. DOMAIN accepted = 1 .. Len(accepted)
    BY DEF TypeOK
  <2> QED BY <2>2, <2>3 DEF Range
<1> SUFFICES ASSUME NEW s \in Sectors
             PROVE  sectorCounts'[s] <= Cardinality(SectorMembers(s, held))
                                        + Cardinality(SectorMembers(s, Range(accepted')))
  BY <1>1 DEF CountsOnly, SectorMembers
<1> PICK A : A = SectorMembers(s, Range(accepted))
  OBVIOUS
<1> PICK B : B = SectorMembers(s, Range(accepted'))
  OBVIOUS
<1> PICK h : h = Cardinality(SectorMembers(s, held))
  OBVIOUS
<1>4. h \in Nat /\ Cardinality(A) \in Nat /\ IsFiniteSet(A)
  BY SectorCardinality
<1>5. sectorCounts[s] <= h + Cardinality(A) /\ sectorCounts[s] \in Nat
  BY DEF FilterInv, CountsOnly, TypeOK
<1>6. B = SectorMembers(s, Range(accepted) \cup {t})
  BY <1>1, <1>2 DEF SectorMembers
<1>7. CASE sector[t] = s
  <2>1. B = A \cup {t} /\ t \notin A
    BY <1>3, <1>6, <1>7 DEF SectorMembers
  <2>2. Cardinality(B) = Cardinality(A) + 1
    BY <1>4, <2>1, FS_AddElement
  <2>3. sectorCounts'[s] = sectorCounts[s] + 1
    BY <1>1, <1>7, SectorsAssumption DEF Counted, TypeOK
  <2>4. sectorCounts'[s] <= h + Cardinality(B)
    BY <1>4, <1>5, <2>2, <2>3
  <2> QED BY <2>4
<1>8. CASE sector[t] # s
  <2>1. B = A
    BY <1>6, <1>8 DEF SectorMembers
  <2>2. sectorCounts'[s] = sectorCounts[s]
    BY <1>1, <1>8 DEF Counted, TypeOK
  <2> QED BY <1>5, <2>1, <2>2
<1> QED BY <1>7, <1>8

LEMMA NextFilterInv == TypeOK /\ DecidedOnce /\ FilterInv /\ [Next]_vars => FilterInv'
<1> SUFFICES ASSUME TypeOK, DecidedOnce, FilterInv, [Next]_vars PROVE FilterInv'
  OBVIOUS
<1>1. TypeOK' /\ UNCHANGED inputs
  BY NextTypeOK, FilterSteps
<1>2. ASSUME UNCHANGED filterVars PROVE FilterInv'
  BY <1>1, <1>2
  DEF filterVars, inputs, FilterInv, RankOrder, CountsOnly, Decided, Shortlist, SectorMembers
<1>3. CASE Exclude
  <2>1. candidates # <<>> /\ candidates' = Tail(candidates) /\ UNCHANGED <<accepted, sectorCounts>>
    BY <1>3 DEF Exclude
  <2>2. RankOrder'
    BY <1>1, <2>1, DecideNext DEF FilterInv, inputs
  <2>3. CountsOnly'
    BY <1>1, <2>1 DEF FilterInv, CountsOnly, SectorMembers, inputs
  <2> QED BY <2>2, <2>3 DEF FilterInv
<1>4. CASE Accept
  <2>1. candidates # <<>> /\ candidates' = Tail(candidates)
        /\ accepted' = Append(accepted, Head(candidates))
    BY <1>4 DEF Accept
  <2>2. Range(accepted') = Range(accepted) \cup {Head(candidates)}
    BY <2>1, RangeOfAppend DEF TypeOK
  <2>3. RankOrder'
    BY <1>1, <2>1, <2>2, DecideNext DEF FilterInv, inputs
  <2> QED BY <1>4, <2>3, AcceptCountsOnly DEF FilterInv
<1> QED BY <1>2, <1>3, <1>4 DEF Next, EndFilter, StartSizing, Size, EndSizing, Done, vars

(* What was accepted so far is ranked above the next candidate.            *)
LEMMA AcceptedAreAbove ==
  ASSUME TypeOK, RankOrder, candidates # <<>>
  PROVE  Range(accepted) \subseteq RankedAbove(Head(candidates))
<1> SUFFICES ASSUME NEW u \in Range(accepted) PROVE u \in RankedAbove(Head(candidates))
  OBVIOUS
<1>1. PICK m \in 1 .. Decided : ranking[m] = u
  BY DEF RankOrder
<1>2. m \in DOMAIN ranking /\ m < Decided + 1
  BY NextCandidate
<1> QED BY <1>1, <1>2, NextCandidate DEF RankedAbove

(* Later acceptances take no reason away.                                  *)
LEMMA ReasonsStay ==
  ASSUME TypeOK, TypeOK', UNCHANGED inputs, Range(accepted) \subseteq Range(accepted'),
         NEW t \in Tickers
  PROVE  /\ RankedAbove(t) \subseteq RankedAbove(t)'
         /\ \A s : Cardinality(SectorMembers(s, RankedAbove(t)))
                     <= Cardinality(SectorMembers(s, RankedAbove(t)'))
         /\ \A s : /\ Cardinality(SectorMembers(s, RankedAbove(t))) \in Nat
                   /\ Cardinality(SectorMembers(s, RankedAbove(t)')) \in Nat
                   /\ Cardinality(SectorMembers(s, held)) \in Nat
<1>1. RankedAbove(t) \subseteq RankedAbove(t)' /\ RankedAbove(t)' \subseteq Tickers
  <2>1. RankedAbove(t)' \subseteq Range(accepted')
    BY DEF RankedAbove
  <2>2. Range(accepted') \subseteq Tickers
    BY DEF TypeOK, Range
  <2> QED BY <2>1, <2>2 DEF RankedAbove, inputs
<1>2. ASSUME NEW s
      PROVE  /\ Cardinality(SectorMembers(s, RankedAbove(t)))
                  <= Cardinality(SectorMembers(s, RankedAbove(t)'))
             /\ Cardinality(SectorMembers(s, RankedAbove(t))) \in Nat
             /\ Cardinality(SectorMembers(s, RankedAbove(t)')) \in Nat
             /\ Cardinality(SectorMembers(s, held)) \in Nat
  <2> PICK A : A = SectorMembers(s, RankedAbove(t))
    OBVIOUS
  <2> PICK B : B = SectorMembers(s, RankedAbove(t)')
    OBVIOUS
  <2>1. A \in SUBSET B /\ B \in SUBSET Tickers /\ SectorMembers(s, held) \in SUBSET Tickers
    BY <1>1 DEF SectorMembers, TypeOK
  <2>2. IsFiniteSet(B) /\ IsFiniteSet(SectorMembers(s, held))
    BY <2>1, FS_Subset, LimitsAssumption
  <2>3. IsFiniteSet(A) /\ Cardinality(A) <= Cardinality(B)
    BY <2>1, <2>2, FS_Subset
  <2> QED BY <2>2, <2>3, FS_CardinalityType
<1> QED BY <1>1, <1>2

LEMMA OldReasons ==
  ASSUME TypeOK, TypeOK', UNCHANGED inputs, Range(accepted) \subseteq Range(accepted'),
         NEW t \in Tickers, excludedFor'[t] = excludedFor[t], ExclusionsAreJustified
  PROVE  /\ excludedFor'[t] = "correlation" =>
              \E u \in RankedAbove(t)' \cup held' : <<t, u>> \in close'
         /\ excludedFor'[t] = "sector_cap" =>
              Cardinality(SectorMembers(sector'[t], held)) +
                Cardinality(SectorMembers(sector'[t], RankedAbove(t)')) >= MaxNamesPerSector
<1>1. excludedFor[t] = "correlation" => \E u \in RankedAbove(t) \cup held : <<t, u>> \in close
  BY DEF ExclusionsAreJustified
<1>2. excludedFor[t] = "sector_cap" =>
        Cardinality(SectorMembers(sector[t], held))
          + Cardinality(SectorMembers(sector[t], RankedAbove(t))) >= MaxNamesPerSector
  BY DEF ExclusionsAreJustified
<1> PICK h, a, b : /\ h = Cardinality(SectorMembers(sector[t], held))
                   /\ a = Cardinality(SectorMembers(sector[t], RankedAbove(t)))
                   /\ b = Cardinality(SectorMembers(sector[t], RankedAbove(t)'))
  OBVIOUS
<1>3. a <= b /\ a \in Nat /\ b \in Nat /\ h \in Nat
  BY ReasonsStay
<1>4. h + a >= MaxNamesPerSector => h + b >= MaxNamesPerSector
  BY <1>3, LimitsAssumption
<1> QED BY <1>1, <1>2, <1>4, ReasonsStay DEF inputs

LEMMA NewReason ==
  ASSUME TypeOK, TypeOK', FilterInv, Exclude, NEW t, t = Head(candidates)
  PROVE  /\ t \in Tickers
         /\ excludedFor' = [excludedFor EXCEPT
                              ![t] = IF TooClose(t) THEN "correlation" ELSE "sector_cap"]
         /\ TooClose(t) => \E u \in RankedAbove(t)' \cup held' : <<t, u>> \in close'
         /\ ~ TooClose(t) =>
              Cardinality(SectorMembers(sector'[t], held)) +
                Cardinality(SectorMembers(sector'[t], RankedAbove(t)')) >= MaxNamesPerSector
<1>1. candidates # <<>> /\ t \in Tickers /\ (TooClose(t) \/ SectorFull(t))
      /\ UNCHANGED inputs /\ accepted' = accepted
      /\ excludedFor' = [excludedFor EXCEPT
                           ![t] = IF TooClose(t) THEN "correlation" ELSE "sector_cap"]
  BY DEF Exclude, TypeOK
<1>2. RankedAbove(t)' = RankedAbove(t) /\ RankedAbove(t) = Range(accepted)
  <2>1. RankedAbove(t)' = RankedAbove(t)
    BY <1>1 DEF RankedAbove, inputs
  <2>2. RankedAbove(t) \subseteq Range(accepted)
    BY DEF RankedAbove
  <2>3. Range(accepted) \subseteq RankedAbove(t)
    BY <1>1, AcceptedAreAbove DEF FilterInv
  <2> QED BY <2>1, <2>2, <2>3
<1>3. CASE TooClose(t)
  BY <1>1, <1>2, <1>3 DEF TooClose, inputs
<1>4. CASE ~ TooClose(t)
  <2> PICK s : s = sector[t]
    OBVIOUS
  <2>1. s \in Sectors /\ sectorCounts[s] + 1 > MaxNamesPerSector
    BY <1>1, <1>4 DEF SectorFull, TypeOK
  <2> PICK h, a : /\ h = Cardinality(SectorMembers(s, held))
                  /\ a = Cardinality(SectorMembers(s, Range(accepted)))
    OBVIOUS
  <2>2. sectorCounts[s] <= h + a /\ sectorCounts[s] \in Nat
    BY <2>1 DEF FilterInv, CountsOnly, TypeOK
  <2>3. h \in Nat /\ a \in Nat
    BY <2>1, SectorCardinality
  <2>4. h + a >= MaxNamesPerSector
    BY <2>1, <2>2, <2>3, LimitsAssumption
  <2>5. sector'[t] = s
    BY <1>1 DEF inputs
  <2> QED BY <1>1, <1>2, <1>4, <2>4, <2>5
<1> QED BY <1>1, <1>3, <1>4

LEMMA NextJustified ==
  TypeOK /\ FilterInv /\ ExclusionsAreJustified /\ [Next]_vars => ExclusionsAreJustified'
<1> SUFFICES ASSUME TypeOK, FilterInv, ExclusionsAreJustified, [Next]_vars
             PROVE  ExclusionsAreJustified'
  OBVIOUS
<1> SUFFICES ASSUME NEW t \in Tickers
             PROVE  /\ excludedFor'[t] = "correlation" =>
                         \E u \in RankedAbove(t)' \cup held' : <<t, u>> \in close'
                    /\ excludedFor'[t] = "sector_cap" =>
                         Cardinality(SectorMembers(sector'[t], held)) +
                           Cardinality(SectorMembers(sector'[t], RankedAbove(t)'))
                           >= MaxNamesPerSector
  <2>1. sector' = sector /\ held' = held
    BY FilterSteps DEF inputs
  <2>2. \A s, T : SectorMembers(s, T) = {x \in T : sector'[x] = s}
    BY <2>1 DEF SectorMembers
  <2>3. ExclusionsAreJustified' <=>
          \A u \in Tickers :
            /\ excludedFor'[u] = "correlation" =>
                 \E v \in RankedAbove(u)' \cup held' : <<u, v>> \in close'
            /\ excludedFor'[u] = "sector_cap" =>
                 Cardinality({x \in held' : sector'[x] = sector'[u]}) +
                   Cardinality({x \in RankedAbove(u)' : sector'[x] = sector'[u]})
                   >= MaxNamesPerSector
    BY DEF ExclusionsAreJustified, SectorMembers
  <2> QED BY <2>1, <2>2, <2>3
<1>1. TypeOK' /\ UNCHANGED inputs
  BY NextTypeOK, FilterSteps
<1>2. CASE Exclude
  <2> PICK c : c = Head(candidates)
    OBVIOUS
  <2>1. c \in Tickers /\ excludedFor' = [excludedFor EXCEPT
                                           ![c] = IF TooClose(c) THEN "correlation" ELSE "sector_cap"]
    BY <1>1, <1>2, NewReason
  <2>2. CASE t = c
    <3>1. excludedFor'[t] = IF TooClose(t) THEN "correlation" ELSE "sector_cap"
      BY <2>1, <2>2 DEF TypeOK
    <3> QED BY <1>1, <1>2, <2>2, <3>1, NewReason
  <2>3. CASE t # c
    <3>1. excludedFor'[t] = excludedFor[t] /\ accepted' = accepted
      BY <1>2, <2>1, <2>3 DEF Exclude, TypeOK
    <3> QED BY <1>1, <3>1, OldReasons
  <2> QED BY <2>2, <2>3
<1>3. CASE Accept
  <2>1. accepted' = Append(accepted, Head(candidates)) /\ Head(candidates) \in Tickers
        /\ excludedFor' = excludedFor
    BY <1>3 DEF Accept, TypeOK
  <2>2. Range(accepted) \subseteq Range(accepted')
    BY <2>1, RangeOfAppend DEF TypeOK
  <2> QED BY <1>1, <2>1, <2>2, OldReasons
<1>4. CASE UNCHANGED filterVars
  BY <1>1, <1>4, OldReasons DEF filterVars
<1> QED BY <1>2, <1>3, <1>4 DEF Next, EndFilter, StartSizing, Size, EndSizing, Done, vars

(* No candidate is given away: what it was excluded for is true of the     *)
(* held names and of those accepted above it, at the time and ever after.  *)
THEOREM ExclusionsAreJustifiedTheorem == Spec => []ExclusionsAreJustified
<1>1. Init => ExclusionsAreJustified
  BY DEF Init, ExclusionsAreJustified
<1> QED BY InitTypeOK, NextTypeOK, InitDecidedOnce, NextDecidedOnce, InitFilterInv, NextFilterInv,
    NextJustified, <1>1, PTL DEF Spec
=============================================================================
