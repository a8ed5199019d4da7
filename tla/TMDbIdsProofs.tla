----------------------------- MODULE TMDbIdsProofs -----------------------------
(***************************************************************************)
(* Proofs about TMDbIds, for any titles, ids, generations and faults.      *)
(*                                                                         *)
(* MatchesAreTrue is inductive once it is known that what the pass is      *)
(* about to save is TMDb's answer for the title it asked about.  Only      *)
(* Record writes meta.tmdb, for the pass and for the other jobs alike.     *)
(***************************************************************************)
EXTENDS TMDbIds, TLAPS

IdsInductive ==
    /\ match \in [Tconsts -> Ids \cup {None, Unasked}]
    /\ pass = "save" => answer.id = TMDbOf[answer.film]
    /\ answer = [film |-> answer.film, id |-> answer.id]
    /\ MatchesAreTrue

\* rememberTMDB keeps the matches true, whoever calls it with TMDb's answer.
LEMMA RecordKeepsTrue ==
    ASSUME TMDbIdsAssumption, NEW f, Record(f, TMDbOf[f]), MatchesAreTrue,
           match \in [Tconsts -> Ids \cup {None, Unasked}]
    PROVE  MatchesAreTrue' /\ match' \in [Tconsts -> Ids \cup {None, Unasked}]
<1> DEFINE id == TMDbOf[f]
<1>1. None # Unasked /\ None \notin Ids /\ Unasked \notin Ids
  BY DEF TMDbIdsAssumption, None, Unasked
<1>2. CASE f \notin Tconsts \/ Asked(f)
  <2>1. match' = match
    BY <1>2 DEF Record
  <2> QED
    BY <2>1 DEF MatchesAreTrue, Asked
<1>3. CASE f \in Tconsts /\ ~Asked(f)
  <2>1. match[f] = Unasked /\ id \in Ids \cup {None}
    BY <1>3 DEF Asked, TMDbIdsAssumption, None
  <2>2. CASE id # None /\ \E x \in Tconsts : match[x] = id
    <3>1. match' = [match EXCEPT ![f] = None]
      BY <1>3, <2>2 DEF Record
    <3>2. PICK x \in Tconsts : match[x] = id
      BY <2>2
    <3>3. x # f
      BY <3>2, <2>1, <1>1
    <3>4. \A y \in Tconsts : (Asked(y))' => y = f \/ Asked(y)
      BY <3>1 DEF Asked
    <3>5. ASSUME NEW y \in Tconsts, (Asked(y))'
          PROVE  \/ match'[y] = TMDbOf[y] /\ \A z \in Tconsts \ {y} : match'[z] # None => match'[z] # match'[y]
                 \/ match'[y] = None /\ \E z \in Tconsts \ {y} : match'[z] = TMDbOf[y]
      <4>1. CASE y = f
        BY <4>1, <3>1, <3>2, <3>3, <1>3
      <4>2. CASE y # f
        <5>1. Asked(y) /\ match'[y] = match[y]
          BY <4>2, <3>1, <3>4, <3>5
        <5>2. CASE match[y] = TMDbOf[y] /\ \A z \in Tconsts \ {y} : match[z] # None => match[z] # match[y]
          BY <5>1, <5>2, <3>1
        <5>3. CASE match[y] = None /\ \E z \in Tconsts \ {y} : match[z] = TMDbOf[y]
          <6>1. PICK z \in Tconsts \ {y} : match[z] = TMDbOf[y]
            BY <5>3
          <6>2. TMDbOf[y] # Unasked
            BY <1>1 DEF TMDbIdsAssumption, None, Unasked
          <6>3. z # f
            BY <6>1, <6>2, <2>1
          <6> QED
            BY <5>1, <5>3, <6>1, <6>3, <3>1
        <5> QED
          BY <5>1, <5>2, <5>3 DEF MatchesAreTrue
      <4> QED
        BY <4>1, <4>2
    <3> QED
      BY <3>1, <3>5 DEF MatchesAreTrue
  <2>3. CASE id = None \/ \A x \in Tconsts : match[x] # id
    <3>1. match' = [match EXCEPT ![f] = id]
      BY <1>3, <2>3 DEF Record
    <3>2. \A y \in Tconsts : (Asked(y))' => y = f \/ Asked(y)
      BY <3>1 DEF Asked
    <3>3. ASSUME NEW y \in Tconsts, (Asked(y))'
          PROVE  \/ match'[y] = TMDbOf[y] /\ \A z \in Tconsts \ {y} : match'[z] # None => match'[z] # match'[y]
                 \/ match'[y] = None /\ \E z \in Tconsts \ {y} : match'[z] = TMDbOf[y]
      <4>1. CASE y = f
        BY <4>1, <3>1, <2>3, <1>3
      <4>2. CASE y # f
        <5>1. Asked(y) /\ match'[y] = match[y]
          BY <4>2, <3>1, <3>2, <3>3
        <5>2. CASE match[y] = TMDbOf[y] /\ \A z \in Tconsts \ {y} : match[z] # None => match[z] # match[y]
          BY <5>1, <5>2, <3>1, <2>3, <1>3
        <5>3. CASE match[y] = None /\ \E z \in Tconsts \ {y} : match[z] = TMDbOf[y]
          <6>1. PICK z \in Tconsts \ {y} : match[z] = TMDbOf[y]
            BY <5>3
          <6>2. TMDbOf[y] # Unasked
            BY <1>1 DEF TMDbIdsAssumption, None, Unasked
          <6>3. z # f
            BY <6>1, <6>2, <2>1
          <6> QED
            BY <5>1, <5>3, <6>1, <6>3, <3>1
        <5> QED
          BY <5>1, <5>2, <5>3 DEF MatchesAreTrue
      <4> QED
        BY <4>1, <4>2
    <3> QED
      BY <3>1, <3>3, <2>1 DEF MatchesAreTrue
  <2> QED
    BY <2>2, <2>3
<1> QED
  BY <1>2, <1>3

\* No step breaks the invariant.
LEMMA IdsStep ==
    ASSUME TMDbIdsAssumption, IdsInductive, [IdsNext]_idsVars
    PROVE  IdsInductive'
<1> USE DEF IdsInductive
<1>1. ASSUME UNCHANGED match, UNCHANGED answer, pass' # "save" PROVE IdsInductive'
  BY <1>1 DEF MatchesAreTrue, Asked
<1>2. ASSUME UNCHANGED match, answer' = NoAnswer, pass' # "save" PROVE IdsInductive'
  BY <1>2 DEF MatchesAreTrue, Asked, NoAnswer
<1>3. ASSUME UNCHANGED <<match, answer, pass>> PROVE IdsInductive'
  BY <1>3 DEF MatchesAreTrue, Asked
<1>4. CASE Begin
  BY <1>4, <1>1 DEF Begin
<1>5. CASE ClearMatched
  BY <1>5, <1>1 DEF ClearMatched
<1>6. CASE Refill
  BY <1>6, <1>1 DEF Refill
<1>7. CASE NextPage
  BY <1>7, <1>1 DEF NextPage
<1>8. CASE Take
  <2>1. CASE Asked(BestKnown(item))
    BY <1>8, <2>1, <1>3 DEF Take
  <2>2. CASE ~Asked(BestKnown(item))
    <3>1. /\ UNCHANGED match /\ pass' = "ask"
          /\ answer' = [film |-> BestKnown(item), id |-> None]
      BY <1>8, <2>2 DEF Take
    <3> QED
      BY <3>1 DEF MatchesAreTrue, Asked
  <2> QED
    BY <2>1, <2>2
<1>9. CASE EndOfPage
  BY <1>9, <1>1 DEF EndOfPage
<1>10. CASE Ask
  <2>1. CASE pass' = "save" /\ answer' = [answer EXCEPT !.id = TMDbOf[answer.film]]
    <3>1. answer'.film = answer.film /\ answer'.id = TMDbOf[answer.film]
      BY <2>1
    <3>2. answer' = [film |-> answer'.film, id |-> answer'.id]
      BY <2>1
    <3> QED
      BY <1>10, <2>1, <3>1, <3>2 DEF Ask, MatchesAreTrue, Asked
  <2>2. CASE pass' = "item" /\ answer' = NoAnswer
    BY <1>10, <2>2, <1>2 DEF Ask
  <2> QED
    BY <1>10, <2>1, <2>2 DEF Ask
<1>11. CASE Save
  <2>1. CASE Record(answer.film, answer.id) /\ pass' = "unqueue" /\ UNCHANGED answer
    <3>1. Record(answer.film, TMDbOf[answer.film])
      BY <1>11, <2>1 DEF Save
    <3> QED
      BY <2>1, <3>1, RecordKeepsTrue
  <2>2. CASE UNCHANGED match /\ pass' = "item" /\ answer' = NoAnswer
    BY <2>2, <1>2
  <2> QED
    BY <1>11, <2>1, <2>2 DEF Save
<1>12. CASE Unqueue
  BY <1>12, <1>2 DEF Unqueue
<1>13. CASE Abandon
  BY <1>13, <1>2 DEF Abandon
<1>14. CASE NewCatalog
  BY <1>14, <1>3 DEF NewCatalog
<1>15. ASSUME NEW f \in Tconsts, RecordElsewhere(f) PROVE IdsInductive'
  <2>1. Record(f, TMDbOf[f]) /\ UNCHANGED <<pass, answer>>
    BY <1>15 DEF RecordElsewhere
  <2> QED
    BY <2>1, RecordKeepsTrue
<1>16. ASSUME NEW f \in Tconsts, UnqueueElsewhere(f) PROVE IdsInductive'
  BY <1>16, <1>3 DEF UnqueueElsewhere
<1>17. CASE UNCHANGED idsVars
  BY <1>17, <1>3 DEF idsVars
<1> QED
  BY <1>4, <1>5, <1>6, <1>7, <1>8, <1>9, <1>10, <1>11, <1>12, <1>13, <1>14, <1>15, <1>16, <1>17
  DEF IdsNext, IdsWork

\* tmdbids.go, rememberTMDB: what is recorded of a title is TMDb's id for it
\* and nobody else's, or that there is none to have.
THEOREM MatchesStayTrue ==
    ASSUME TMDbIdsAssumption
    PROVE  IdsSpec => []MatchesAreTrue
<1>1. IdsInit => IdsInductive
  BY DEF IdsInit, IdsInductive, MatchesAreTrue, Asked, NoAnswer
<1>2. IdsInductive /\ [IdsNext]_idsVars => IdsInductive'
  BY IdsStep
<1>3. IdsInductive => MatchesAreTrue
  BY DEF IdsInductive
<1> QED
  BY <1>1, <1>2, <1>3, PTL DEF IdsSpec
=============================================================================
