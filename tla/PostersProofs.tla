--------------------------- MODULE PostersProofs ----------------------------
(***************************************************************************)
(* Proofs about Posters for any films, any generations of the catalog, any *)
(* sizes of a round and of a page, and any number of failures, readers'    *)
(* acts and dead addresses.                                                *)
(*                                                                         *)
(* Few steps write a row: RowWriters names them, and each invariant is     *)
(* then shown of those.                                                    *)
(***************************************************************************)
EXTENDS Posters, TLAPS

\* A row that is there is a row, whatever it holds.
LEMMA RowsAreRows == ASSUME TypeOK, NEW f \in Films, Has(f) PROVE rows[f] \in Row
BY DEF TypeOK, Has

\* What a service said becomes an address, or none.
LEMMA AddressType == \A a : Address(a) \in Services \cup {"none"}
BY DEF Address

\* A page holds only films of the queue it is taken from.
LEMMA WantedArePages ==
    /\ \A p \in Pages(PostersWanted, OMDbBatch, BetterKnown) : p \subseteq PostersWanted
    /\ \A p \in Pages(TMDbQueue, TMDbBatch, Sooner) : p \subseteq TMDbQueue
BY DEF Pages

\* The votes a publish brings are numbers.
LEMMA VotesAreNumbers == \A g \in Gens, f \in Films : Votes[g][f] \in Nat
BY PostersAssumption

\* An upsert of the backfill leaves a row, with OMDb's address or none.
LEMMA UpsertedType == ASSUME TypeOK, NEW f \in Films PROVE Upserted(f) \in Row
<1>1. Votes[gen][f] \in Nat /\ 0 \in Nat
  BY VotesAreNumbers DEF TypeOK
<1>2. Address(answers[f]) \in Services \cup {"none"}
  BY AddressType
<1>3. CASE Has(f)
  <2>1. rows[f] \in Row
    BY <1>3, RowsAreRows
  <2> QED
    BY <2>1, <1>1, <1>2, <1>3 DEF Upserted, Row
<1>4. CASE ~Has(f)
  BY <1>1, <1>2, <1>4 DEF Upserted, Row
<1> QED
  BY <1>3, <1>4

\* saveTMDbPoster leaves a row where there was one, and none where there was
\* none.
LEMMA SavedType ==
    ASSUME TypeOK, NEW f \in Films, NEW a
    PROVE  Saved(f, a) \in Row \cup {NoRow} /\ (Saved(f, a) # NoRow <=> Has(f))
<1>1. CASE Has(f)
  <2>1. rows[f] \in Row
    BY <1>1, RowsAreRows
  <2>2. Saved(f, a) \in Row
    BY <1>1, <2>1 DEF Saved, Row, Services
  <2> QED
    BY <1>1, <2>2, NoRowAssumption
<1>2. CASE ~Has(f)
  BY <1>2 DEF Saved
<1> QED
  BY <1>1, <1>2

\* At the start there are no rows and nobody is at work.
LEMMA InitTypeOK == Init => TypeOK
BY PostersAssumption DEF Init, TypeOK, Gens, Unasked, Answers, Services

\* The steps that write a row; all others leave the table alone.
LEMMA RowWriters ==
    ASSUME [Next]_vars
    PROVE  \/ UNCHANGED rows
           \/ WritePosters \/ MarkWanted \/ RefreshQueueVotes \/ ForgetUnknownPosters
           \/ \E f \in Films : \/ SaveTMDb(f) \/ KeepTMDbPoster(f)
                               \/ MarkPosterDead(f) \/ SaveColour(f)
BY DEF Next, Backfill, Fallback, Colours, Writes, Upkeep, Reads, vars,
    StartBackfill, ClaimRound, BackfillFails, PauseBackfill, QuotaSpent, Lookup,
    LookupTimesOut, StartFallback, TakePage, AskTMDb, FallbackStops, SaveFails,
    TakeUncoloured, ProbePoster, WantPoster, AskStandIn, Publish, UpkeepFails,
    JobsRestart, ReadersLost, AddressDies

\* Whatever writes a row leaves a row, or none.
LEMMA RowsStep ==
    ASSUME TypeOK, [Next]_vars PROVE rows' \in [Films -> Row \cup {NoRow}]
<1> USE DEF TypeOK
<1>1. CASE UNCHANGED rows
  BY <1>1
<1>2. CASE WritePosters
  BY <1>2, UpsertedType DEF WritePosters
<1>3. CASE MarkWanted
  <2>1. \A f \in Films : Has(f) => [rows[f] EXCEPT !.wanted = TRUE] \in Row
    BY RowsAreRows DEF Row
  <2> QED
    BY <1>3, <2>1 DEF MarkWanted
<1>4. CASE RefreshQueueVotes
  <2>1. \A f \in Films : Has(f) => [rows[f] EXCEPT !.votes = Votes[gen][f]] \in Row
    BY RowsAreRows, VotesAreNumbers DEF Row
  <2> QED
    BY <1>4, <2>1 DEF RefreshQueueVotes
<1>5. CASE ForgetUnknownPosters
  BY <1>5 DEF ForgetUnknownPosters
<1>6. ASSUME NEW f \in Films, SaveTMDb(f) PROVE rows' \in [Films -> Row \cup {NoRow}]
  BY <1>6, SavedType DEF SaveTMDb
<1>7. ASSUME NEW f \in Films, KeepTMDbPoster(f) PROVE rows' \in [Films -> Row \cup {NoRow}]
  BY <1>7, SavedType DEF KeepTMDbPoster
<1>8. ASSUME NEW f \in Films, MarkPosterDead(f) PROVE rows' \in [Films -> Row \cup {NoRow}]
  <2>1. Has(f) => [rows[f] EXCEPT !.status = "dead", !.wanted = TRUE] \in Row
    BY RowsAreRows DEF Row
  <2> QED
    BY <1>8, <2>1 DEF MarkPosterDead
<1>9. ASSUME NEW f \in Films, SaveColour(f) PROVE rows' \in [Films -> Row \cup {NoRow}]
  <2>1. Has(f) => [rows[f] EXCEPT !.colour = colouring[f]] \in Row
    BY RowsAreRows DEF Row
  <2> QED
    BY <1>9, <2>1 DEF SaveColour
<1> QED
  BY <1>1, <1>2, <1>3, <1>4, <1>5, <1>6, <1>7, <1>8, <1>9, RowWriters

\* No step breaks the type invariant: the table by RowsStep, what is left
\* action by action.
LEMMA TypeStep == TypeOK /\ [Next]_vars => TypeOK'
<1> SUFFICES ASSUME TypeOK, [Next]_vars PROVE TypeOK'
  OBVIOUS
<1>rows. rows' \in [Films -> Row \cup {NoRow}]
  BY RowsStep
<1> USE PostersAssumption, <1>rows DEF TypeOK, backfill, fallback, readers, bounds, Unasked, Answers, Services
<1>1. CASE StartBackfill
  BY <1>1 DEF StartBackfill
<1>2. CASE ClaimRound
  BY <1>2, WantedArePages DEF ClaimRound, PostersWanted
<1>3. CASE BackfillFails
  BY <1>3 DEF BackfillFails, Fails
<1>4. CASE PauseBackfill
  BY <1>4 DEF PauseBackfill
<1>5. CASE QuotaSpent
  BY <1>5 DEF QuotaSpent, Fails
<1>6. CASE WritePosters
  BY <1>6 DEF WritePosters, Answered
<1>7. CASE StartFallback
  BY <1>7 DEF StartFallback
<1>8. CASE TakePage
  BY <1>8, WantedArePages DEF TakePage, TMDbQueue
<1>9. CASE FallbackStops
  BY <1>9 DEF FallbackStops, Fails
<1>10. CASE MarkWanted
  BY <1>10 DEF MarkWanted
<1>11. CASE RefreshQueueVotes
  BY <1>11 DEF RefreshQueueVotes
<1>12. CASE ForgetUnknownPosters
  BY <1>12 DEF ForgetUnknownPosters
<1>13. CASE Publish
  BY <1>13 DEF Publish, Gens
<1>14. CASE UpkeepFails
  BY <1>14 DEF UpkeepFails, Fails
<1>15. CASE JobsRestart
  BY <1>15 DEF JobsRestart, Fails
<1>16. CASE ReadersLost
  BY <1>16 DEF ReadersLost, Fails
<1>17. ASSUME NEW f \in Films, LookupTimesOut(f) PROVE TypeOK'
  BY <1>17 DEF LookupTimesOut, Fails
<1>18. ASSUME NEW f \in Films, SaveTMDb(f) PROVE TypeOK'
  BY <1>18 DEF SaveTMDb, TouchedBy
<1>19. ASSUME NEW f \in Films, SaveFails(f) PROVE TypeOK'
  BY <1>19 DEF SaveFails, Fails
<1>20. ASSUME NEW f \in Films, TakeUncoloured(f) PROVE TypeOK'
  <2>1. rows[f] \in Row /\ rows[f].url \in Services \cup {"none"}
    BY <1>20, RowsAreRows DEF TakeUncoloured, Row
  <2> QED
    BY <1>20, <2>1 DEF TakeUncoloured
<1>21. ASSUME NEW f \in Films, SaveColour(f) PROVE TypeOK'
  BY <1>21 DEF SaveColour
<1>22. ASSUME NEW f \in Films, KeepTMDbPoster(f) PROVE TypeOK'
  BY <1>22 DEF KeepTMDbPoster, TouchedBy
<1>23. ASSUME NEW f \in Films, MarkPosterDead(f) PROVE TypeOK'
  BY <1>23 DEF MarkPosterDead
<1>24. ASSUME NEW f \in Films, ProbePoster(f) PROVE TypeOK'
  BY <1>24 DEF ProbePoster, Read
<1>25. ASSUME NEW f \in Films, WantPoster(f) PROVE TypeOK'
  BY <1>25 DEF WantPoster, Read
<1>26. ASSUME NEW f \in Films, NEW a \in {"omdb", "nothing", "failed"}, Lookup(f, a) PROVE TypeOK'
  BY <1>26 DEF Lookup, Fails
<1>27. ASSUME NEW f \in Films, NEW a \in {"tmdb", "nothing", "failed"}, AskTMDb(f, a) PROVE TypeOK'
  BY <1>27 DEF AskTMDb, Fails
<1>28. ASSUME NEW f \in Films, NEW a \in {"tmdb", "nothing"}, AskStandIn(f, a) PROVE TypeOK'
  BY <1>28 DEF AskStandIn, Read
<1>29. ASSUME NEW f \in Films, NEW s \in Services, AddressDies(f, s) PROVE TypeOK'
  BY <1>29 DEF AddressDies
<1>30. CASE UNCHANGED vars
  BY <1>30 DEF vars
<1> QED
  BY <1>1, <1>2, <1>3, <1>4, <1>5, <1>6, <1>7, <1>8, <1>9, <1>10, <1>11,
     <1>12, <1>13, <1>14, <1>15, <1>16, <1>17, <1>18, <1>19, <1>20, <1>21,
     <1>22, <1>23, <1>24, <1>25, <1>26, <1>27, <1>28, <1>29, <1>30 DEF Next,
     Backfill, Fallback, Colours, Writes, Upkeep, Reads

\* Every variable of the poster rows keeps its type in every state.
THEOREM TypeCorrect == Spec => []TypeOK
BY InitTypeOK, TypeStep, PTL DEF Spec

-----------------------------------------------------------------------------
(* A title is looked up once.                                              *)

\* What makes NeverAgain inductive: a film whose answer is written has a row
\* that is not `missing`, which is what keeps it out of PostersWanted, and no
\* answer about it is still on its way to the table.
AnswerStands ==
    /\ \A f \in settled : Has(f) /\ rows[f].status # "missing"
    /\ (asking \cup Answered) \cap settled = {}

\* At the start nothing is answered.
LEMMA InitAnswerStands == Init => AnswerStands
BY DEF Init, AnswerStands, Answered

\* Whatever saveTMDbPoster does to a row, it does not make it `missing`.
LEMMA SavedIsNotMissing ==
    ASSUME TypeOK, NEW f \in Films, NEW a, Has(f), rows[f].status # "missing"
    PROVE  Saved(f, a) # NoRow /\ Saved(f, a).status # "missing"
<1>1. rows[f] \in Row
  BY RowsAreRows
<1> QED
  BY <1>1, SavedType DEF Saved, Row

\* An upsert of an answer that is not a failure leaves the row `ok`.
LEMMA UpsertedIsOk ==
    ASSUME TypeOK, NEW f \in Films, answers[f] # "failed"
    PROVE  Upserted(f) # NoRow /\ Upserted(f).status = "ok"
<1>1. Upserted(f) \in Row
  BY UpsertedType
<1>2. CASE Has(f)
  <2>1. rows[f] \in Row
    BY <1>2, RowsAreRows
  <2> QED
    BY <1>1, <1>2, <2>1, NoRowAssumption DEF Upserted, Row
<1>3. CASE ~Has(f)
  BY <1>1, <1>3, NoRowAssumption DEF Upserted
<1> QED
  BY <1>2, <1>3

\* The first part: the steps that write a row, or settle one.
LEMMA RowsStayAnswered ==
    ASSUME TypeOK, AnswerStands, [Next]_vars
    PROVE  \A f \in settled' : Has(f)' /\ rows'[f].status # "missing"
<1> DEFINE Goal == \A f \in settled' : Has(f)' /\ rows'[f].status # "missing"
<1> USE DEF AnswerStands, Has, TypeOK
<1>0. settled' \subseteq Films
  BY TypeStep
<1>1. CASE UNCHANGED <<rows, settled>>
  BY <1>1
<1>2. CASE WritePosters
  <2> SUFFICES ASSUME NEW f \in settled' PROVE rows'[f] # NoRow /\ rows'[f].status # "missing"
    OBVIOUS
  <2>1. CASE f \in Answered
    <3>1. answers[f] # "failed"
      BY <1>2, <2>1 DEF WritePosters
    <3> QED
      BY <1>0, <1>2, <2>1, <3>1, UpsertedIsOk DEF WritePosters
  <2>2. CASE f \notin Answered
    BY <1>0, <1>2, <2>2 DEF WritePosters
  <2> QED
    BY <2>1, <2>2
<1>3. CASE MarkWanted
  <2>1. \A f \in settled : rows[f] \in Row
    BY RowsAreRows
  <2>2. \A f \in settled : [rows[f] EXCEPT !.wanted = TRUE] \in Row
                          /\ [rows[f] EXCEPT !.wanted = TRUE].status = rows[f].status
    BY <2>1 DEF Row
  <2> QED
    BY <1>3, <2>2, NoRowAssumption DEF MarkWanted
<1>4. CASE RefreshQueueVotes
  <2>1. \A f \in settled : rows[f] \in Row
    BY RowsAreRows
  <2>2. \A f \in settled : [rows[f] EXCEPT !.votes = Votes[gen][f]] \in Row
                          /\ [rows[f] EXCEPT !.votes = Votes[gen][f]].status = rows[f].status
    BY <2>1, VotesAreNumbers DEF Row
  <2> QED
    BY <1>4, <2>2, NoRowAssumption DEF RefreshQueueVotes
<1>5. CASE ForgetUnknownPosters
  BY <1>5 DEF ForgetUnknownPosters
<1>6. ASSUME NEW g \in Films, SaveTMDb(g) PROVE Goal
  BY <1>6, SavedIsNotMissing DEF SaveTMDb
<1>7. ASSUME NEW g \in Films, KeepTMDbPoster(g) PROVE Goal
  BY <1>7, SavedIsNotMissing DEF KeepTMDbPoster
<1>8. ASSUME NEW g \in Films, MarkPosterDead(g) PROVE Goal
  <2>1. Has(g) => LET dead == [rows[g] EXCEPT !.status = "dead", !.wanted = TRUE]
                  IN  dead \in Row /\ dead.status = "dead"
    BY RowsAreRows DEF Row
  <2> QED
    BY <1>8, <2>1, NoRowAssumption DEF MarkPosterDead
<1>9. ASSUME NEW g \in Films, SaveColour(g) PROVE Goal
  <2>1. Has(g) => LET coloured == [rows[g] EXCEPT !.colour = colouring[g]]
                  IN  coloured \in Row /\ coloured.status = rows[g].status
    BY RowsAreRows DEF Row
  <2> QED
    BY <1>9, <2>1, NoRowAssumption DEF SaveColour
<1>10. UNCHANGED settled \/ WritePosters \/ ForgetUnknownPosters
  BY DEF Next, Backfill, Fallback, Colours, Writes, Upkeep, Reads, vars,
      StartBackfill, ClaimRound, BackfillFails, PauseBackfill, QuotaSpent, Lookup,
      LookupTimesOut, StartFallback, TakePage, AskTMDb, SaveTMDb, FallbackStops,
      SaveFails, TakeUncoloured, SaveColour, ProbePoster, WantPoster, AskStandIn,
      KeepTMDbPoster, MarkPosterDead, MarkWanted, RefreshQueueVotes, Publish,
      UpkeepFails, JobsRestart, ReadersLost, AddressDies
<1> QED
  BY <1>1, <1>2, <1>3, <1>4, <1>5, <1>6, <1>7, <1>8, <1>9, <1>10, RowWriters

\* The second part: a round is claimed among films that are not settled, and a
\* film is settled only when its round is written.
LEMMA OutStaysUnsettled ==
    ASSUME TypeOK, AnswerStands, [Next]_vars
    PROVE  (asking' \cup Answered') \cap settled' = {}
<1> USE DEF AnswerStands, Answered, TypeOK, Unasked
<1>1. CASE UNCHANGED <<asking, answers>> /\ settled' \subseteq settled
  BY <1>1
<1>2. CASE ClaimRound
  <2>1. PostersWanted \cap settled = {}
    BY DEF PostersWanted
  <2> QED
    BY <1>2, <2>1, WantedArePages DEF ClaimRound
<1>3. ASSUME NEW f \in Films, NEW a \in {"omdb", "nothing", "failed"}, Lookup(f, a)
      PROVE  (asking' \cup Answered') \cap settled' = {}
  BY <1>3 DEF Lookup
<1>4. ASSUME NEW f \in Films, LookupTimesOut(f)
      PROVE  (asking' \cup Answered') \cap settled' = {}
  BY <1>4 DEF LookupTimesOut
<1>5. CASE QuotaSpent
  BY <1>5 DEF QuotaSpent
<1>6. CASE WritePosters
  BY <1>6 DEF WritePosters
<1>7. CASE BackfillFails
  BY <1>7 DEF BackfillFails
<1>8. CASE JobsRestart
  BY <1>8 DEF JobsRestart
<1>9. \/ UNCHANGED <<asking, answers>> /\ settled' \subseteq settled
      \/ ClaimRound \/ QuotaSpent \/ WritePosters \/ BackfillFails \/ JobsRestart
      \/ \E f \in Films : LookupTimesOut(f)
      \/ \E f \in Films, a \in {"omdb", "nothing", "failed"} : Lookup(f, a)
  BY DEF Next, Backfill, Fallback, Colours, Writes, Upkeep, Reads, vars, backfill,
      StartBackfill, PauseBackfill, StartFallback, TakePage, AskTMDb, SaveTMDb,
      FallbackStops, SaveFails, TakeUncoloured, SaveColour, ProbePoster, WantPoster,
      AskStandIn, KeepTMDbPoster, MarkPosterDead, MarkWanted, RefreshQueueVotes,
      ForgetUnknownPosters, Publish, UpkeepFails, ReadersLost, AddressDies
<1> QED
  BY <1>1, <1>2, <1>3, <1>4, <1>5, <1>6, <1>7, <1>8, <1>9

-----------------------------------------------------------------------------
(* A failure is for tomorrow.                                              *)

\* What makes OncePerPass inductive: a film whose failure the pass has written
\* has its row still, and the row still says that it was written in this pass,
\* which is what keeps it out of PostersWanted until the pass is over.
FailedIsTouched ==
    /\ \A f \in failed : Has(f) /\ f \in touched
    /\ asking \cap failed = {}

\* A row is withdrawn only where the failure is forgotten with it.
LEMMA FailedKeepTheirRow ==
    ASSUME TypeOK, FailedIsTouched, [Next]_vars, NEW f \in failed, f \in failed'
    PROVE  Has(f)'
<1> USE DEF FailedIsTouched, Has, TypeOK
<1>1. f \in Films /\ rows[f] # NoRow /\ rows[f] \in Row
  BY RowsAreRows
<1>2. CASE UNCHANGED rows
  BY <1>1, <1>2
<1>3. CASE WritePosters
  BY <1>1, <1>3, UpsertedType, NoRowAssumption DEF WritePosters
<1>4. CASE MarkWanted
  <2>1. [rows[f] EXCEPT !.wanted = TRUE] \in Row
    BY <1>1 DEF Row
  <2> QED
    BY <1>1, <1>4, <2>1, NoRowAssumption DEF MarkWanted
<1>5. CASE RefreshQueueVotes
  <2>1. [rows[f] EXCEPT !.votes = Votes[gen][f]] \in Row
    BY <1>1, VotesAreNumbers DEF Row
  <2> QED
    BY <1>1, <1>5, <2>1, NoRowAssumption DEF RefreshQueueVotes
<1>6. CASE ForgetUnknownPosters
  BY <1>1, <1>6 DEF ForgetUnknownPosters
<1>7. ASSUME NEW g \in Films, SaveTMDb(g) PROVE Has(f)'
  BY <1>1, <1>7, SavedType DEF SaveTMDb
<1>8. ASSUME NEW g \in Films, KeepTMDbPoster(g) PROVE Has(f)'
  BY <1>1, <1>8, SavedType DEF KeepTMDbPoster
<1>9. ASSUME NEW g \in Films, MarkPosterDead(g) PROVE Has(f)'
  <2>1. [rows[f] EXCEPT !.status = "dead", !.wanted = TRUE] \in Row
    BY <1>1 DEF Row
  <2> QED
    BY <1>1, <1>9, <2>1, NoRowAssumption DEF MarkPosterDead
<1>10. ASSUME NEW g \in Films, SaveColour(g) PROVE Has(f)'
  <2>1. [rows[f] EXCEPT !.colour = colouring[f]] \in Row
    BY <1>1 DEF Row
  <2> QED
    BY <1>1, <1>10, <2>1, NoRowAssumption DEF SaveColour
<1> QED
  BY <1>2, <1>3, <1>4, <1>5, <1>6, <1>7, <1>8, <1>9, <1>10, RowWriters

\* Only a new pass forgets what this one has written, its failures with it.
LEMMA PassRemembers ==
    ASSUME TypeOK, [Next]_vars
    PROVE  \/ WritePosters \/ failed' = {}
           \/ failed' \subseteq failed /\ touched \subseteq touched'
BY DEF Next, Backfill, Fallback, Colours, Writes, Upkeep, Reads, vars, backfill,
    StartBackfill, ClaimRound, BackfillFails, PauseBackfill, QuotaSpent, Lookup,
    LookupTimesOut, StartFallback, TakePage, AskTMDb, SaveTMDb, FallbackStops,
    SaveFails, TakeUncoloured, SaveColour, ProbePoster, WantPoster, AskStandIn,
    KeepTMDbPoster, MarkPosterDead, MarkWanted, RefreshQueueVotes,
    ForgetUnknownPosters, Publish, UpkeepFails, JobsRestart, ReadersLost,
    AddressDies, TouchedBy

\* A failure that is written is of a film with a row, written in this pass.
LEMMA FailedStaysTouched ==
    ASSUME TypeOK, FailedIsTouched, [Next]_vars
    PROVE  \A f \in failed' : Has(f)' /\ f \in touched'
<1>1. ASSUME NEW f \in failed', f \in failed PROVE Has(f)' /\ f \in touched'
  <2>1. Has(f)'
    BY <1>1, FailedKeepTheirRow
  <2>2. CASE WritePosters
    BY <1>1, <2>1, <2>2 DEF FailedIsTouched, WritePosters
  <2>3. CASE ~WritePosters
    BY <1>1, <2>1, <2>3, PassRemembers DEF FailedIsTouched
  <2> QED
    BY <2>2, <2>3
<1>2. ASSUME NEW f \in failed', f \notin failed PROVE Has(f)' /\ f \in touched'
  <2>1. WritePosters
    BY <1>2, PassRemembers
  <2>2. f \in Answered /\ f \in Films
    BY <1>2, <2>1 DEF WritePosters, Answered
  <2>3. rows'[f] = Upserted(f)
    BY <2>1, <2>2 DEF WritePosters
  <2>4. Upserted(f) # NoRow
    BY <2>2, UpsertedType, NoRowAssumption
  <2> QED
    BY <2>1, <2>2, <2>3, <2>4 DEF WritePosters, Has
<1> QED
  BY <1>1, <1>2

\* A round is claimed among films whose failure is not written, and failures
\* are written when nothing is out.
LEMMA FailedStaysUnasked ==
    ASSUME TypeOK, FailedIsTouched, [Next]_vars PROVE asking' \cap failed' = {}
<1> USE DEF FailedIsTouched
<1>1. CASE asking' \subseteq asking /\ failed' \subseteq failed
  BY <1>1
<1>2. CASE ClaimRound
  <2>1. PostersWanted \cap failed = {}
    BY DEF PostersWanted
  <2> QED
    BY <1>2, <2>1, WantedArePages DEF ClaimRound
<1>3. CASE WritePosters
  BY <1>3 DEF WritePosters
<1>4. CASE failed' = {}
  BY <1>4
<1>5. ClaimRound \/ asking' \subseteq asking
  BY DEF Next, Backfill, Fallback, Colours, Writes, Upkeep, Reads, vars, backfill,
      StartBackfill, WritePosters, BackfillFails, PauseBackfill, QuotaSpent,
      Lookup, LookupTimesOut, StartFallback, TakePage, AskTMDb, SaveTMDb,
      FallbackStops, SaveFails, TakeUncoloured, SaveColour, ProbePoster,
      WantPoster, AskStandIn, KeepTMDbPoster, MarkPosterDead, MarkWanted,
      RefreshQueueVotes, ForgetUnknownPosters, Publish, UpkeepFails, JobsRestart,
      ReadersLost, AddressDies
<1> QED
  BY <1>1, <1>2, <1>3, <1>4, <1>5, PassRemembers

\* "A title is looked up once, ever, unless the lookup itself failed", and
\* then "this run must not pick it straight back up" (posters.go): no film
\* whose answer is written, ever, or whose failure is written in this pass, is
\* among those being asked.
THEOREM LookedUpOnce == Spec => []AskedOnce
<1>1. TypeOK /\ AnswerStands /\ [Next]_vars => AnswerStands'
  BY RowsStayAnswered, OutStaysUnsettled DEF AnswerStands, Has, Answered
<1>2. Init => FailedIsTouched
  BY DEF Init, FailedIsTouched
<1>3. TypeOK /\ FailedIsTouched /\ [Next]_vars => FailedIsTouched'
  BY FailedStaysTouched, FailedStaysUnasked DEF FailedIsTouched, Has
<1>4. AnswerStands /\ FailedIsTouched => AskedOnce
  BY DEF AnswerStands, FailedIsTouched, AskedOnce, NeverAgain, OncePerPass
<1> QED
  BY InitAnswerStands, TypeCorrect, <1>1, <1>2, <1>3, <1>4, PTL DEF Spec

-----------------------------------------------------------------------------
(* The queue of the fallback.                                              *)

\* What makes DeadIsQueued inductive: the mark of the probe is what holds the
\* film in the queue, however many votes it has, and only TMDb's answer takes
\* it away.
DeadIsWanted ==
    \A f \in Films :
        Has(f) /\ rows[f].status = "dead" /\ ~rows[f].asked => rows[f].wanted

\* How saveTMDbPoster leaves a row: asked, with the votes it had.
LEMMA SavedIsAsked ==
    ASSUME TypeOK, NEW f \in Films, NEW a, Has(f)
    PROVE  Saved(f, a).asked /\ Saved(f, a).votes = rows[f].votes
<1>1. rows[f] \in Row
  BY RowsAreRows
<1> QED
  BY <1>1 DEF Saved, Row

\* How an upsert of the backfill leaves a row: not dead, with the votes of the
\* live generation, asked of TMDb if it was before.
LEMMA UpsertedIsCurrent ==
    ASSUME TypeOK, NEW f \in Films
    PROVE  /\ Upserted(f).status # "dead"
           /\ f \in Plain[gen] \cup Adult[gen] => Upserted(f).votes = Votes[gen][f]
<1>1. CASE Has(f)
  <2>1. rows[f] \in Row
    BY <1>1, RowsAreRows
  <2> QED
    BY <1>1, <2>1 DEF Upserted, Row
<1>2. CASE ~Has(f)
  BY <1>2 DEF Upserted
<1> QED
  BY <1>1, <1>2

\* Every writer of a row keeps a dead one wanted until TMDb has answered.
LEMMA DeadStaysWanted == ASSUME TypeOK, DeadIsWanted, [Next]_vars PROVE DeadIsWanted'
<1> USE DEF DeadIsWanted, Has, TypeOK
<1>1. CASE UNCHANGED rows
  BY <1>1
<1>2. CASE WritePosters
  BY <1>2, UpsertedIsCurrent DEF WritePosters
<1>3. CASE MarkWanted
  <2>1. \A f \in Films : Has(f) => [rows[f] EXCEPT !.wanted = TRUE].wanted
    BY RowsAreRows DEF Row
  <2> QED
    BY <1>3, <2>1 DEF MarkWanted
<1>4. CASE RefreshQueueVotes
  <2>1. \A f \in Films : Has(f) =>
          LET moved == [rows[f] EXCEPT !.votes = Votes[gen][f]]
          IN  /\ moved.status = rows[f].status
              /\ moved.asked = rows[f].asked /\ moved.wanted = rows[f].wanted
    BY RowsAreRows DEF Row
  <2> QED
    BY <1>4, <2>1 DEF RefreshQueueVotes
<1>5. CASE ForgetUnknownPosters
  BY <1>5 DEF ForgetUnknownPosters
<1>6. ASSUME NEW g \in Films, SaveTMDb(g) PROVE DeadIsWanted'
  BY <1>6, SavedIsAsked, SavedType DEF SaveTMDb
<1>7. ASSUME NEW g \in Films, KeepTMDbPoster(g) PROVE DeadIsWanted'
  BY <1>7, SavedIsAsked, SavedType DEF KeepTMDbPoster
<1>8. ASSUME NEW g \in Films, MarkPosterDead(g) PROVE DeadIsWanted'
  <2>1. Has(g) => [rows[g] EXCEPT !.status = "dead", !.wanted = TRUE].wanted
    BY RowsAreRows DEF Row
  <2> QED
    BY <1>8, <2>1 DEF MarkPosterDead
<1>9. ASSUME NEW g \in Films, SaveColour(g) PROVE DeadIsWanted'
  <2>1. Has(g) => LET coloured == [rows[g] EXCEPT !.colour = colouring[g]]
                  IN  /\ coloured.status = rows[g].status
                      /\ coloured.asked = rows[g].asked /\ coloured.wanted = rows[g].wanted
    BY RowsAreRows DEF Row
  <2> QED
    BY <1>9, <2>1 DEF SaveColour
<1> QED
  BY <1>1, <1>2, <1>3, <1>4, <1>5, <1>6, <1>7, <1>8, <1>9, RowWriters

\* What a probe found gone stays in the fallback's queue (wants.go,
\* tmdbposters.go) until TMDb has been asked.
THEOREM DeadStaysQueued == Spec => []DeadIsQueued
<1>1. Init => DeadIsWanted
  BY DEF Init, DeadIsWanted, Has
<1>2. TypeOK /\ DeadIsWanted /\ [Next]_vars => DeadIsWanted'
  BY DeadStaysWanted
<1>3. DeadIsWanted => DeadIsQueued
  BY DEF DeadIsWanted, DeadIsQueued, InQueue
<1> QED
  BY TypeCorrect, <1>1, <1>2, <1>3, PTL DEF Spec

\* From the refresh to the next publish every writer of a row leaves it with
\* the votes of the live generation, or asked.
LEMMA VotesStayCurrent ==
    ASSUME TypeOK, QueueVotesCurrent, [Next]_vars PROVE QueueVotesCurrent'
<1> USE DEF QueueVotesCurrent, Has, TypeOK
<1>0. Plain[gen] \cup Adult[gen] \subseteq Films
  BY PostersAssumption
<1> USE <1>0
<1>1. CASE UNCHANGED <<rows, gen>> /\ (upkeep' \in {"forget", "done"} => upkeep \in {"forget", "done"})
  BY <1>1
<1>2. CASE WritePosters
  <2>1. UNCHANGED <<gen, upkeep>>
    BY <1>2 DEF WritePosters
  <2> QED
    BY <1>2, <2>1, UpsertedIsCurrent DEF WritePosters
<1>3. CASE MarkWanted
  <2>1. \A f \in Films : Has(f) =>
          LET marked == [rows[f] EXCEPT !.wanted = TRUE]
          IN  marked.asked = rows[f].asked /\ marked.votes = rows[f].votes
    BY RowsAreRows DEF Row
  <2>2. UNCHANGED <<gen, upkeep>>
    BY <1>3 DEF MarkWanted
  <2> QED
    BY <1>3, <2>1, <2>2 DEF MarkWanted
<1>4. CASE RefreshQueueVotes
  <2>1. \A f \in Films : Has(f) => [rows[f] EXCEPT !.votes = Votes[gen][f]].votes = Votes[gen][f]
    BY RowsAreRows DEF Row
  <2>2. gen' = gen
    BY <1>4 DEF RefreshQueueVotes
  <2> QED
    BY <1>4, <2>1, <2>2 DEF RefreshQueueVotes
<1>5. CASE ForgetUnknownPosters
  BY <1>5 DEF ForgetUnknownPosters
<1>6. ASSUME NEW g \in Films, SaveTMDb(g) PROVE QueueVotesCurrent'
  BY <1>6, SavedIsAsked, SavedType DEF SaveTMDb
<1>7. ASSUME NEW g \in Films, KeepTMDbPoster(g) PROVE QueueVotesCurrent'
  BY <1>7, SavedIsAsked, SavedType DEF KeepTMDbPoster
<1>8. ASSUME NEW g \in Films, MarkPosterDead(g) PROVE QueueVotesCurrent'
  <2>1. Has(g) => LET dead == [rows[g] EXCEPT !.status = "dead", !.wanted = TRUE]
                  IN  dead.asked = rows[g].asked /\ dead.votes = rows[g].votes
    BY RowsAreRows DEF Row
  <2> QED
    BY <1>8, <2>1 DEF MarkPosterDead
<1>9. ASSUME NEW g \in Films, SaveColour(g) PROVE QueueVotesCurrent'
  <2>1. Has(g) => LET coloured == [rows[g] EXCEPT !.colour = colouring[g]]
                  IN  coloured.asked = rows[g].asked /\ coloured.votes = rows[g].votes
    BY RowsAreRows DEF Row
  <2>2. UNCHANGED <<gen, upkeep>>
    BY <1>9 DEF SaveColour
  <2> QED
    BY <1>9, <2>1, <2>2 DEF SaveColour
<1>10. CASE Publish
  BY <1>10 DEF Publish
<1>11. \/ UNCHANGED gen /\ (upkeep' \in {"forget", "done"} => upkeep \in {"forget", "done"})
       \/ Publish \/ RefreshQueueVotes
  BY DEF Next, Backfill, Fallback, Colours, Writes, Upkeep, Reads, vars,
      StartBackfill, ClaimRound, BackfillFails, PauseBackfill, QuotaSpent, Lookup,
      LookupTimesOut, WritePosters, StartFallback, TakePage, AskTMDb, SaveTMDb,
      FallbackStops, SaveFails, TakeUncoloured, SaveColour, ProbePoster, WantPoster,
      AskStandIn, KeepTMDbPoster, MarkPosterDead, MarkWanted, ForgetUnknownPosters,
      UpkeepFails, JobsRestart, ReadersLost, AddressDies
<1> QED
  BY <1>1, <1>2, <1>3, <1>4, <1>5, <1>6, <1>7, <1>8, <1>9, <1>10, <1>11, RowWriters

\* The votes TMDb's queue is ordered by are those of the live generation, the
\* rows of lookups that were out during the publish included (store.go).
THEOREM VotesFollowTheCatalog == Spec => []QueueVotesCurrent
<1>1. Init => QueueVotesCurrent
  <2>1. \A g \in Gens : Plain[g] \cup Adult[g] \subseteq Films
    BY PostersAssumption
  <2>2. 1 \in Gens
    BY PostersAssumption DEF Gens
  <2> QED
    BY <2>1, <2>2 DEF Init, QueueVotesCurrent, Has
<1>2. TypeOK /\ QueueVotesCurrent /\ [Next]_vars => QueueVotesCurrent'
  BY VotesStayCurrent
<1> QED
  BY TypeCorrect, <1>1, <1>2, PTL DEF Spec
=============================================================================
