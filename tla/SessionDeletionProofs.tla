----------------------- MODULE SessionDeletionProofs -----------------------
(***************************************************************************)
(* SessionDeletion for any documents, any sources they name, any number of *)
(* hooks, undos, crashes and failing calls: metadata resolves, a retention *)
(* removal can be taken back, a forgotten session has nothing in the       *)
(* bucket, what hooks queued is kept, and an undo is final.                *)
(***************************************************************************)
EXTENDS SessionDeletion, TLAPS

Pendings == [version : Documents, token : Tokens, items : SUBSET Hooks, grant : Tokens]
Intents ==
  [phase : Phases, reason : Reasons, version : Documents, token : Tokens, grant : Tokens]
Works ==
  [reason : Reasons, request : Requests, raw : Documents, fresh : BOOLEAN,
   yields : BOOLEAN, then : {"idle", "scan", "sweep", "prepare"}]

\* TypeOK in the parts its proof needs: the local records, the intent, what is
\* stored, and the process; and what SessionDeletion.validate relates.
RecordsTyped ==
  /\ registered \in BOOLEAN
  /\ request \in Requests
  /\ published \in [version : Documents, items : SUBSET Hooks, expired : BOOLEAN]
  /\ pending \in Pendings

StoredTyped ==
  /\ stages \in [sources : SUBSET Sources, metadata : BOOLEAN]
  /\ metadata \in Documents
  /\ sources \subseteq Sources

ProcessTyped == pc \in Labels /\ saved \subseteq Hooks /\ undone \in BOOLEAN

IntentValid ==
  /\ intent.phase \in {"restoring", "restored"} =>
       intent.reason = "retention" /\ intent.grant \notin {None, intent.token}
  /\ intent.phase = "cancelled" => intent.reason = "retention"
  /\ intent.phase \in {"prepared", "deleting", "absent", "cleaned", "restoring"}
       /\ intent.version # None => stages.metadata = TRUE

Types ==
  /\ RecordsTyped /\ StoredTyped /\ ProcessTyped /\ IntentValid
  /\ intent \in Intents /\ work \in Works /\ left \in [Kinds -> Nat]

\* Where the process publishes, has a registered session before it, or removes.
Publishing == {"publish", "ack", "settle", "drop"}
Collecting == {"granted", "scan", "clear", "unlink"} \union Publishing
Removing ==
  {"read", "prepare", "stage", "check", "delete", "readback", "namespace", "object", "forget"}

\* The phase the intent has at each place of the process.
Places ==
  /\ pc = "granted" => intent.phase = "restoring"
  /\ pc = "scan" => intent.phase = "none"
  /\ pc \in {"publish", "ack", "settle"} => intent.phase \in {"none", "restoring", "restored"}
  /\ pc = "drop" => intent.phase \in {"none", "restored"}
  /\ pc \in {"clear", "unlink"} => intent.phase \in {"restored", "cancelled"}
  /\ pc \in {"stage", "check"} => intent.phase = "prepared"
  /\ pc \in {"delete", "readback"} => intent.phase = "deleting"
  /\ pc = "namespace" => intent.phase \in {"absent", "cleaned"}
  /\ pc = "object" => intent.phase = "absent"
  /\ pc = "forget" => intent.phase = "cleaned"
  /\ pc \in Collecting \union Removing => registered
  /\ pc \in {"forgetting", "finish"} => ~registered
  /\ intent.phase \in {"finalizing", "removed"} => ~registered
  /\ intent.phase = "none" => intent.reason = "retention"

\* A journal with a grant belongs to an intent that granted a restoration, or
\* to an undo that revoked it.
GrantOwned ==
  /\ pc \in Publishing => pending # NoPending
  /\ pc \in {"granted", "clear", "unlink"} => pending = NoPending
  /\ pending.grant # None =>
       \/ intent.phase \in {"restoring", "restored"}
       \/ /\ intent.reason = "undo"
          /\ intent.phase \notin {"none", "preparing", "prepared", "deleting"}
  /\ pc = "drop" /\ intent.phase = "restored" => pending.grant # None
  /\ pc \in {"publish", "ack", "settle"} /\ intent.phase \in {"restoring", "restored"} =>
       pending.grant # None

\* Whatever was queued is in the request or published, and a token tells what
\* was queued when the request with that token was saved.
Queued ==
  /\ registered => saved \subseteq request.items \union published.items
  /\ request.token \in saved \union {None}
  /\ work.request.token \in saved \union {None}
  /\ pending.token \in saved \union {None}
  /\ work.request.token = request.token => work.request.items = request.items
  /\ request.token = None => request.items = {}
  /\ work.request.token = None => work.request.items = {}
  /\ pending.token = request.token => request.items \subseteq pending.items
  /\ pc \in {"settle", "drop"} => pending.items \subseteq published.items

\* Only an undo does not yield to newer work.
UndoRecorded == undone = TRUE \/ work.yields = TRUE

\* A namespace that was cleaned, and a forgotten session's, is empty.
Emptied ==
  /\ intent.phase = "cleaned" => metadata = None /\ sources = {}
  /\ ForgottenIsGone

\* What a retention removal has frozen, kept and deleted by its phase.
KeptByPhase ==
  LET last == published.version
  IN  /\ RefsOf(last) \subseteq sources \union stages.sources
      /\ intent.phase \notin {"absent", "cleaned", "restoring"} => RefsOf(last) \subseteq sources
      /\ intent.phase = "none" =>
           metadata = last \/ (pending # NoPending /\ metadata = pending.version)
      /\ intent.phase # "none" =>
           /\ intent.version = last
           /\ pending # NoPending => pending.grant # None /\ pending.version = last
      /\ intent.phase \in {"preparing", "prepared", "restored", "cancelled"} => metadata = last
      /\ intent.phase \in {"deleting", "restoring"} => metadata \in {None, last}
      /\ intent.phase \in {"absent", "cleaned"} => metadata = None
      /\ intent.phase \in {"deleting", "absent", "cleaned", "restoring"} => AllStaged

\* What the process remembers of the bucket is still so, since nobody else
\* writes it; and what a retention removal has kept.
Frozen ==
  /\ pc \in {"ack", "settle", "drop"} => metadata = pending.version
  /\ pc \in {"settle", "drop"} => metadata = published.version
  /\ pc = "prepare" \/ (pc \in {"clear", "unlink"} /\ work.then = "prepare") =>
       work.raw = metadata
  /\ pc \in {"read", "prepare"} /\ work.reason = "retention" /\ ~Active => pending = NoPending
  /\ pending # NoPending => pending.version # None
  /\ registered => published.version # None
  /\ registered /\ intent.reason = "retention" => KeptByPhase

\* The inductive invariant.
IInv ==
  /\ Types /\ Places /\ GrantOwned /\ Queued /\ UndoRecorded
  /\ MetadataResolves /\ Emptied /\ Frozen

-----------------------------------------------------------------------------
(* Which action changes what                                               *)

\* The local records change in nine actions.
LEMMA RecordsFrame ==
  [Next]_vars =>
    \/ UNCHANGED records
    \/ SaveRestoration \/ Scan \/ Acknowledge \/ Settle \/ DropPending \/ Forget
    \/ ForgetRecords \/ HookSaves \/ Age
BY DEF Next, Collect, Remove, Around, vars, records, removal, bucket, process,
  Goto, Return, ToSweep, StartPass, NothingToCollect, NoRemoval, RemovalOver,
  Withdraw, SeeAbsent, ResumeRestoration, GrantRestoration, PutSource, PutMetadata,
  ClearStages, UnlinkIntent, Sweep, Decide, ReadSession, PrepareNew, TakeOver,
  FinishPreparation, ClearSettled, Proceed, StageSource, StagedAll, StartDeleting,
  DeleteMetadata, ReadBack, ListNamespace, DeleteSource, NamespaceClean, Finish,
  Crash, RemoteFails, ClockHolds, StartUndo

\* The registration goes in one.
LEMMA RegisteredFrame ==
  [Next]_vars =>
    \/ UNCHANGED registered
    \/ Forget
BY DEF Next, Collect, Remove, Around, vars, records, removal, bucket, process,
  Goto, Return, ToSweep, StartPass, NothingToCollect, NoRemoval, RemovalOver,
  Withdraw, SeeAbsent, ResumeRestoration, GrantRestoration, SaveRestoration, Scan,
  PutSource, PutMetadata, Acknowledge, Settle, DropPending, ClearStages,
  UnlinkIntent, Sweep, Decide, ReadSession, PrepareNew, TakeOver, FinishPreparation,
  ClearSettled, Proceed, StageSource, StagedAll, StartDeleting, DeleteMetadata,
  ReadBack, ListNamespace, DeleteSource, NamespaceClean, ForgetRecords, Finish,
  HookSaves, Age, Crash, RemoteFails, ClockHolds, StartUndo

\* The intent changes in twelve.
LEMMA IntentFrame ==
  [Next]_vars =>
    \/ UNCHANGED intent
    \/ Withdraw \/ SeeAbsent \/ GrantRestoration \/ Settle \/ UnlinkIntent
    \/ PrepareNew \/ TakeOver \/ FinishPreparation \/ StartDeleting \/ ReadBack
    \/ NamespaceClean \/ Finish
BY DEF Next, Collect, Remove, Around, vars, records, removal, bucket, process,
  Goto, Return, ToSweep, StartPass, NothingToCollect, NoRemoval, RemovalOver,
  ResumeRestoration, SaveRestoration, Scan, PutSource, PutMetadata, Acknowledge,
  DropPending, ClearStages, Sweep, Decide, ReadSession, ClearSettled, Proceed,
  StageSource, StagedAll, DeleteMetadata, ListNamespace, DeleteSource, Forget,
  ForgetRecords, HookSaves, Age, Crash, RemoteFails, ClockHolds, StartUndo

\* The staged copies change in four.
LEMMA StagesFrame ==
  [Next]_vars =>
    \/ UNCHANGED stages
    \/ ClearStages \/ FinishPreparation \/ StageSource \/ Finish
BY DEF Next, Collect, Remove, Around, vars, records, removal, bucket, process,
  Goto, Return, ToSweep, StartPass, NothingToCollect, NoRemoval, RemovalOver,
  Withdraw, SeeAbsent, ResumeRestoration, GrantRestoration, SaveRestoration, Scan,
  PutSource, PutMetadata, Acknowledge, Settle, DropPending, UnlinkIntent, Sweep,
  Decide, ReadSession, PrepareNew, TakeOver, ClearSettled, Proceed, StagedAll,
  StartDeleting, DeleteMetadata, ReadBack, ListNamespace, DeleteSource,
  NamespaceClean, Forget, ForgetRecords, HookSaves, Age, Crash, RemoteFails,
  ClockHolds, StartUndo

\* The bucket changes in four.
LEMMA BucketFrame ==
  [Next]_vars =>
    \/ UNCHANGED bucket
    \/ PutSource \/ PutMetadata \/ DeleteMetadata \/ DeleteSource
BY DEF Next, Collect, Remove, Around, vars, records, removal, bucket, process,
  Goto, Return, ToSweep, StartPass, NothingToCollect, NoRemoval, RemovalOver,
  Withdraw, SeeAbsent, ResumeRestoration, GrantRestoration, SaveRestoration, Scan,
  Acknowledge, Settle, DropPending, ClearStages, UnlinkIntent, Sweep, Decide,
  ReadSession, PrepareNew, TakeOver, FinishPreparation, ClearSettled, Proceed,
  StageSource, StagedAll, StartDeleting, ReadBack, ListNamespace, NamespaceClean,
  Forget, ForgetRecords, Finish, HookSaves, Age, Crash, RemoteFails, ClockHolds,
  StartUndo

\* Hooks save, and nobody else does.
LEMMA SavedFrame ==
  [Next]_vars =>
    \/ UNCHANGED saved
    \/ HookSaves
BY DEF Next, Collect, Remove, Around, vars, records, removal, bucket, process,
  Goto, Return, ToSweep, StartPass, NothingToCollect, NoRemoval, RemovalOver,
  Withdraw, SeeAbsent, ResumeRestoration, GrantRestoration, SaveRestoration, Scan,
  PutSource, PutMetadata, Acknowledge, Settle, DropPending, ClearStages,
  UnlinkIntent, Sweep, Decide, ReadSession, PrepareNew, TakeOver, FinishPreparation,
  ClearSettled, Proceed, StageSource, StagedAll, StartDeleting, DeleteMetadata,
  ReadBack, ListNamespace, DeleteSource, NamespaceClean, Forget, ForgetRecords,
  Finish, Age, Crash, RemoteFails, ClockHolds, StartUndo

\* Undos are begun, and nobody takes them back.
LEMMA UndoneFrame ==
  [Next]_vars =>
    \/ UNCHANGED undone
    \/ StartUndo
BY DEF Next, Collect, Remove, Around, vars, records, removal, bucket, process,
  Goto, Return, ToSweep, StartPass, NothingToCollect, NoRemoval, RemovalOver,
  Withdraw, SeeAbsent, ResumeRestoration, GrantRestoration, SaveRestoration, Scan,
  PutSource, PutMetadata, Acknowledge, Settle, DropPending, ClearStages,
  UnlinkIntent, Sweep, Decide, ReadSession, PrepareNew, TakeOver, FinishPreparation,
  ClearSettled, Proceed, StageSource, StagedAll, StartDeleting, DeleteMetadata,
  ReadBack, ListNamespace, DeleteSource, NamespaceClean, Forget, ForgetRecords,
  Finish, HookSaves, Age, Crash, RemoteFails, ClockHolds

\* Outside events use up their budgets.
LEMMA LeftFrame ==
  [Next]_vars =>
    \/ UNCHANGED left
    \/ Age \/ RemoteFails \/ ClockHolds \/ Crash \/ StartUndo \/ PutSource
    \/ PutMetadata \/ DeleteMetadata \/ DeleteSource
BY DEF Next, Collect, Remove, Around, vars, records, removal, bucket, process,
  Goto, Return, ToSweep, StartPass, NothingToCollect, NoRemoval, RemovalOver,
  Withdraw, SeeAbsent, ResumeRestoration, GrantRestoration, SaveRestoration, Scan,
  Acknowledge, Settle, DropPending, ClearStages, UnlinkIntent, Sweep, Decide,
  ReadSession, PrepareNew, TakeOver, FinishPreparation, ClearSettled, Proceed,
  StageSource, StagedAll, StartDeleting, ReadBack, ListNamespace, NamespaceClean,
  Forget, ForgetRecords, Finish, HookSaves

\* The process keeps its memory, drops it, or sets it in nine actions.
LEMMA WorkFrame ==
  [Next]_vars =>
    \/ UNCHANGED work \/ work' = NoWork
    \/ StartPass \/ RemovalOver \/ Withdraw \/ DropPending \/ ClearSettled \/ Sweep
    \/ Decide \/ StartUndo \/ ReadSession
BY DEF Next, Collect, Remove, Around, vars, records, removal, bucket, process,
  Goto, Return, ToSweep, NothingToCollect, NoRemoval, SeeAbsent, ResumeRestoration,
  GrantRestoration, SaveRestoration, Scan, PutSource, PutMetadata, Acknowledge,
  Settle, ClearStages, UnlinkIntent, PrepareNew, TakeOver, FinishPreparation,
  Proceed, StageSource, StagedAll, StartDeleting, DeleteMetadata, ReadBack,
  ListNamespace, DeleteSource, NamespaceClean, Forget, ForgetRecords, Finish,
  HookSaves, Age, Crash, RemoteFails, ClockHolds

\* The process is past the local record by Acknowledge and Settle only.
LEMMA PublishedFrame ==
  work \in Works /\ [Next]_vars =>
    \/ pc' = pc \/ pc' \notin {"settle", "drop"}
    \/ Acknowledge \/ Settle
BY DEF Next, Collect, Remove, Around, vars, records, removal, bucket, process, Works,
  Goto, Return, ToSweep, StartPass, NothingToCollect, NoRemoval, RemovalOver,
  Withdraw, SeeAbsent, ResumeRestoration, GrantRestoration, SaveRestoration, Scan,
  PutSource, PutMetadata, DropPending, ClearStages, UnlinkIntent, Sweep, Decide,
  ReadSession, PrepareNew, TakeOver, FinishPreparation, ClearSettled, Proceed,
  StageSource, StagedAll, StartDeleting, DeleteMetadata, ReadBack, ListNamespace,
  DeleteSource, NamespaceClean, Forget, ForgetRecords, Finish, HookSaves, Age,
  Crash, RemoteFails, ClockHolds, StartUndo

-----------------------------------------------------------------------------
(* Types                                                                   *)

\* A document names sources, and no token and no document is None.
LEMMA ConstantsTyped ==
  /\ None \notin Hooks /\ None \notin Versions /\ 1 \in Versions
  /\ \A v \in Documents : RefsOf(v) \subseteq Sources
BY NumbersAssumption DEF Documents, RefsOf

\* A process that holds nothing in memory, and no file.
LEMMA EmptyTyped ==
  /\ NoRequest \in Requests /\ NoRequest.token = None /\ NoRequest.items = {}
  /\ NoWork \in Works /\ NoWork.request = NoRequest /\ NoWork.yields = TRUE
  /\ NoWork.then # "prepare"
  /\ NoPending \in Pendings /\ NoPending.grant = None /\ NoPending.token = None
<1>1. NoRequest \in Requests /\ NoRequest.token = None /\ NoRequest.items = {}
  BY DEF NoRequest, Requests, Tokens, None
<1>2. NoWork \in Works /\ NoWork.request = NoRequest /\ NoWork.yields = TRUE /\ NoWork.then # "prepare"
  BY <1>1 DEF NoWork, Works, Reasons, Documents, None
<1>3. NoPending \in Pendings /\ NoPending.grant = None /\ NoPending.token = None
  BY DEF NoPending, Pendings, Documents, Tokens, None
<1> QED BY <1>1, <1>2, <1>3

\* What the local records hold.
LEMMA RecordsTypedStep == ASSUME Types, [Next]_vars PROVE RecordsTyped'
<1> USE ConstantsTyped, EmptyTyped DEF Types, RecordsTyped, records
<1>0. CASE UNCHANGED records BY <1>0
<1>1. CASE SaveRestoration
  <2>1. pending' = [version |-> intent.version, token |-> None, items |-> {}, grant |-> intent.grant]
    BY <1>1 DEF SaveRestoration
  <2>2. pending' \in Pendings
    BY <2>1 DEF Pendings, Intents, Tokens
  <2> QED BY <1>1, <2>2 DEF SaveRestoration
<1>2. CASE Scan
  <2>1. work.request.token \in Tokens /\ work.request.items \in SUBSET Hooks
    BY DEF Works, Requests
  <2>2. ASSUME NEW v \in Versions
        PROVE  [version |-> v, token |-> work.request.token,
                items |-> work.request.items, grant |-> None] \in Pendings
    BY <2>1 DEF Pendings, Documents, Tokens
  <2>3. pending' \in Pendings
    BY <1>2, <2>2 DEF Scan
  <2>4. request' \in Requests
    BY <1>2 DEF Scan
  <2> QED BY <1>2, <2>3, <2>4 DEF Scan
<1>3. CASE Acknowledge BY <1>3 DEF Acknowledge, Pendings, Restoring
<1>4. CASE Settle BY <1>4 DEF Settle
<1>5. CASE DropPending BY <1>5 DEF DropPending
<1>6. CASE Forget BY <1>6 DEF Forget
<1>7. CASE ForgetRecords BY <1>7 DEF ForgetRecords, NoPublished, Documents
<1>8. CASE HookSaves BY <1>8 DEF HookSaves, Requests, Tokens, ProcessTyped, Works
<1>9. CASE Age BY <1>9 DEF Age
<1> QED BY <1>0, <1>1, <1>2, <1>3, <1>4, <1>5, <1>6, <1>7, <1>8, <1>9, RecordsFrame

\* What the intent holds.
LEMMA IntentTypedStep == ASSUME Types, [Next]_vars PROVE intent' \in Intents
<1> USE EmptyTyped DEF Types, Intents, Phases, Advance, removal
<1>0. CASE UNCHANGED intent BY <1>0
<1>1. CASE Withdraw BY <1>1 DEF Withdraw
<1>2. CASE SeeAbsent BY <1>2 DEF SeeAbsent
<1>3. CASE GrantRestoration
  <2>1. work.request.token \in Tokens
    BY DEF Works, Requests
  <2> QED BY <1>3, <2>1 DEF GrantRestoration
<1>4. CASE Settle BY <1>4 DEF Settle
<1>5. CASE UnlinkIntent BY <1>5 DEF UnlinkIntent, NoIntent, Reasons, Documents, Tokens
<1>6. CASE PrepareNew
  <2>1. work.reason \in Reasons /\ work.raw \in Documents /\ work.request.token \in Tokens
    BY DEF Works, Requests
  <2> QED BY <1>6, <2>1 DEF PrepareNew, Tokens
<1>7. CASE TakeOver BY <1>7 DEF TakeOver, Reasons, Tokens
<1>8. CASE FinishPreparation BY <1>8 DEF FinishPreparation
<1>9. CASE StartDeleting BY <1>9 DEF StartDeleting
<1>10. CASE ReadBack BY <1>10 DEF ReadBack
<1>11. CASE NamespaceClean BY <1>11 DEF NamespaceClean
<1>12. CASE Finish BY <1>12 DEF Finish
<1> QED BY <1>0, <1>1, <1>2, <1>3, <1>4, <1>5, <1>6, <1>7, <1>8, <1>9, <1>10, <1>11,
       <1>12, IntentFrame

\* What the bucket and the intent's directory hold.
LEMMA StoredTypedStep == ASSUME Types, [Next]_vars PROVE StoredTyped'
<1> USE ConstantsTyped DEF Types, StoredTyped, bucket, removal
<1>1. stages' \in [sources : SUBSET Sources, metadata : BOOLEAN]
  <2>0. CASE UNCHANGED stages BY <2>0
  <2>1. CASE ClearStages BY <2>1 DEF ClearStages, NoStages
  <2>2. CASE FinishPreparation BY <2>2 DEF FinishPreparation
  <2>3. CASE StageSource BY <2>3 DEF StageSource, Intents
  <2>4. CASE Finish
    <3>1. stages' = stages \/ stages' = NoStages
      BY <2>4 DEF Finish
    <3>2. NoStages \in [sources : SUBSET Sources, metadata : BOOLEAN]
      BY DEF NoStages
    <3> QED BY <3>1, <3>2
  <2> QED BY <2>0, <2>1, <2>2, <2>3, <2>4, StagesFrame
<1>2. metadata' \in Documents /\ sources' \subseteq Sources
  <2>0. CASE UNCHANGED bucket BY <2>0
  <2>1. CASE PutSource
    <3>1. RefsOf(pending.version) \subseteq Sources
      BY DEF RecordsTyped, Pendings
    <3> QED BY <2>1, <3>1 DEF PutSource
  <2>2. CASE PutMetadata BY <2>2 DEF PutMetadata, RecordsTyped, Pendings
  <2>3. CASE DeleteMetadata BY <2>3 DEF DeleteMetadata, Documents
  <2>4. CASE DeleteSource BY <2>4 DEF DeleteSource
  <2> QED BY <2>0, <2>1, <2>2, <2>3, <2>4, BucketFrame
<1> QED BY <1>1, <1>2

\* What the process remembers.
LEMMA WorkTypedStep == ASSUME Types, [Next]_vars PROVE work' \in Works
<1> USE EmptyTyped DEF Types, Works
<1>0. CASE UNCHANGED work \/ work' = NoWork BY <1>0
<1>1. CASE StartPass BY <1>1 DEF StartPass, RecordsTyped
<1>2. CASE RemovalOver BY <1>2 DEF RemovalOver, ToSweep, Goto
<1>3. CASE Withdraw BY <1>3 DEF Withdraw, ToSweep
<1>4. CASE DropPending BY <1>4 DEF DropPending, ToSweep
<1>5. CASE ClearSettled BY <1>5 DEF ClearSettled, Return
<1>6. CASE Sweep BY <1>6 DEF Sweep, RecordsTyped
<1>7. CASE Decide BY <1>7 DEF Decide, Goto, Return, Intents
<1>8. CASE StartUndo BY <1>8 DEF StartUndo, Reasons
<1>9. CASE ReadSession BY <1>9 DEF ReadSession, RecordsTyped, StoredTyped
<1> QED BY <1>0, <1>1, <1>2, <1>3, <1>4, <1>5, <1>6, <1>7, <1>8, <1>9, WorkFrame

\* Where the process is, and what hooks and undos left behind.
LEMMA ProcessTypedStep == ASSUME Types, [Next]_vars PROVE ProcessTyped'
<1> USE DEF Types, ProcessTyped
<1>1. saved' \subseteq Hooks
  BY SavedFrame DEF HookSaves
<1>2. undone' \in BOOLEAN
  BY UndoneFrame DEF StartUndo
<1>3. pc' \in Labels
  <2> USE DEF Labels, process, Works, Goto, Return, ToSweep
  <2>0. CASE UNCHANGED vars BY <2>0 DEF vars
  <2>1. CASE StartPass BY <2>1 DEF StartPass
  <2>2. CASE NothingToCollect BY <2>2 DEF NothingToCollect
  <2>3. CASE NoRemoval BY <2>3 DEF NoRemoval
  <2>4. CASE RemovalOver BY <2>4 DEF RemovalOver
  <2>5. CASE Withdraw BY <2>5 DEF Withdraw
  <2>6. CASE SeeAbsent BY <2>6 DEF SeeAbsent
  <2>7. CASE ResumeRestoration BY <2>7 DEF ResumeRestoration
  <2>8. CASE GrantRestoration BY <2>8 DEF GrantRestoration
  <2>9. CASE SaveRestoration BY <2>9 DEF SaveRestoration
  <2>10. CASE Scan BY <2>10 DEF Scan
  <2>11. CASE PutSource BY <2>11 DEF PutSource
  <2>12. CASE PutMetadata BY <2>12 DEF PutMetadata
  <2>13. CASE Acknowledge BY <2>13 DEF Acknowledge
  <2>14. CASE Settle BY <2>14 DEF Settle
  <2>15. CASE DropPending BY <2>15 DEF DropPending
  <2>16. CASE ClearStages BY <2>16 DEF ClearStages
  <2>17. CASE UnlinkIntent BY <2>17 DEF UnlinkIntent
  <2>18. CASE Sweep BY <2>18 DEF Sweep
  <2>19. CASE Decide BY <2>19 DEF Decide
  <2>20. CASE ReadSession BY <2>20 DEF ReadSession
  <2>21. CASE PrepareNew BY <2>21 DEF PrepareNew
  <2>22. CASE TakeOver BY <2>22 DEF TakeOver
  <2>23. CASE FinishPreparation BY <2>23 DEF FinishPreparation
  <2>24. CASE ClearSettled BY <2>24 DEF ClearSettled
  <2>25. CASE Proceed BY <2>25 DEF Proceed
  <2>26. CASE StageSource BY <2>26 DEF StageSource
  <2>27. CASE StagedAll BY <2>27 DEF StagedAll
  <2>28. CASE StartDeleting BY <2>28 DEF StartDeleting
  <2>29. CASE DeleteMetadata BY <2>29 DEF DeleteMetadata
  <2>30. CASE ReadBack BY <2>30 DEF ReadBack
  <2>31. CASE ListNamespace BY <2>31 DEF ListNamespace
  <2>32. CASE DeleteSource BY <2>32 DEF DeleteSource
  <2>33. CASE NamespaceClean BY <2>33 DEF NamespaceClean
  <2>34. CASE Forget BY <2>34 DEF Forget
  <2>35. CASE ForgetRecords BY <2>35 DEF ForgetRecords
  <2>36. CASE Finish BY <2>36 DEF Finish
  <2>37. CASE HookSaves BY <2>37 DEF HookSaves
  <2>38. CASE Age BY <2>38 DEF Age
  <2>39. CASE Crash BY <2>39 DEF Crash
  <2>40. CASE RemoteFails BY <2>40 DEF RemoteFails
  <2>41. CASE ClockHolds BY <2>41 DEF ClockHolds
  <2>42. CASE StartUndo BY <2>42 DEF StartUndo
  <2> QED BY <2>0, <2>1, <2>2, <2>3, <2>4, <2>5, <2>6, <2>7, <2>8, <2>9, <2>10,
         <2>11, <2>12, <2>13, <2>14, <2>15, <2>16, <2>17, <2>18, <2>19, <2>20,
         <2>21, <2>22, <2>23, <2>24, <2>25, <2>26, <2>27, <2>28, <2>29, <2>30,
         <2>31, <2>32, <2>33, <2>34, <2>35, <2>36, <2>37, <2>38, <2>39, <2>40,
         <2>41, <2>42
        DEF Next, Collect, Remove, Around
<1> QED BY <1>1, <1>2, <1>3

\* Budgets.
LEMMA LeftTypedStep == ASSUME Types, [Next]_vars PROVE left' \in [Kinds -> Nat]
<1> USE DEF Types, Kinds, Spend
<1>0. CASE UNCHANGED left BY <1>0
<1>1. CASE Age BY <1>1 DEF Age
<1>2. CASE RemoteFails BY <1>2 DEF RemoteFails
<1>3. CASE ClockHolds BY <1>3 DEF ClockHolds
<1>4. CASE Crash BY <1>4 DEF Crash
<1>5. CASE StartUndo BY <1>5 DEF StartUndo
<1>6. CASE PutSource BY <1>6 DEF PutSource
<1>7. CASE PutMetadata BY <1>7 DEF PutMetadata
<1>8. CASE DeleteMetadata BY <1>8 DEF DeleteMetadata
<1>9. CASE DeleteSource BY <1>9 DEF DeleteSource
<1> QED BY <1>0, <1>1, <1>2, <1>3, <1>4, <1>5, <1>6, <1>7, <1>8, <1>9, LeftFrame

\* What an intent can be in its phase.
LEMMA IntentValidStep == ASSUME Types, Places, GrantOwned, [Next]_vars PROVE IntentValid'
<1> USE DEF Types, IntentValid, Intents, StoredTyped, Advance, removal
<1>0. CASE UNCHANGED <<intent, stages>> BY <1>0
<1>1. CASE Withdraw BY <1>1 DEF Withdraw
<1>2. CASE SeeAbsent BY <1>2 DEF SeeAbsent
<1>3. CASE GrantRestoration BY <1>3 DEF GrantRestoration, Grants
<1>4. CASE Settle BY <1>4 DEF Settle, GrantOwned, Places, Restoring
<1>5. CASE UnlinkIntent BY <1>5 DEF UnlinkIntent, NoIntent
<1>6. CASE PrepareNew BY <1>6 DEF PrepareNew
<1>7. CASE TakeOver BY <1>7 DEF TakeOver, Active
<1>8. CASE FinishPreparation BY <1>8 DEF FinishPreparation
<1>9. CASE StartDeleting BY <1>9 DEF StartDeleting, Places
<1>10. CASE ReadBack BY <1>10 DEF ReadBack, Places
<1>11. CASE NamespaceClean BY <1>11 DEF NamespaceClean, Places
<1>12. CASE Finish BY <1>12 DEF Finish, NoStages
<1>13. CASE ClearStages BY <1>13 DEF ClearStages, NoStages, Places
<1>14. CASE StageSource BY <1>14 DEF StageSource
<1> QED BY <1>0, <1>1, <1>2, <1>3, <1>4, <1>5, <1>6, <1>7, <1>8, <1>9, <1>10, <1>11,
       <1>12, <1>13, <1>14, IntentFrame, StagesFrame

\* Every step keeps every type.
LEMMA TypesStep == ASSUME Types, Places, GrantOwned, [Next]_vars PROVE Types'
BY RecordsTypedStep, IntentTypedStep, StoredTypedStep, WorkTypedStep, ProcessTypedStep,
   LeftTypedStep, IntentValidStep DEF Types

-----------------------------------------------------------------------------
(* The places of the process                                               *)

\* The process is where the intent's phase lets it be.
LEMMA PlacesStep == ASSUME Types, Places, GrantOwned, [Next]_vars PROVE Places'
<1> USE DEF Types, IntentValid, Intents, Works, RecordsTyped, Places, Publishing,
        Collecting, Removing, records, removal, process, Goto, Return, ToSweep, Advance
<1>0. CASE UNCHANGED vars BY <1>0 DEF vars
<1>1. CASE StartPass BY <1>1 DEF StartPass
<1>2. CASE NothingToCollect BY <1>2 DEF NothingToCollect
<1>3. CASE NoRemoval BY <1>3 DEF NoRemoval
<1>4. CASE RemovalOver BY <1>4 DEF RemovalOver
<1>5. CASE Withdraw BY <1>5 DEF Withdraw
<1>6. CASE SeeAbsent BY <1>6 DEF SeeAbsent
<1>7. CASE ResumeRestoration BY <1>7 DEF ResumeRestoration
<1>8. CASE GrantRestoration BY <1>8 DEF GrantRestoration
<1>9. CASE SaveRestoration BY <1>9 DEF SaveRestoration
<1>10. CASE Scan BY <1>10 DEF Scan
<1>11. CASE PutSource BY <1>11 DEF PutSource
<1>12. CASE PutMetadata BY <1>12 DEF PutMetadata
<1>13. CASE Acknowledge BY <1>13 DEF Acknowledge
<1>14. CASE Settle BY <1>14 DEF Settle, Restoring, GrantOwned
<1>15. CASE DropPending BY <1>15 DEF DropPending, Restoring, GrantOwned
<1>16. CASE ClearStages BY <1>16 DEF ClearStages
<1>17. CASE UnlinkIntent BY <1>17 DEF UnlinkIntent, NoIntent
<1>18. CASE Sweep BY <1>18 DEF Sweep
<1>19. CASE Decide BY <1>19 DEF Decide, Expires
<1>20. CASE ReadSession BY <1>20 DEF ReadSession
<1>21. CASE PrepareNew BY <1>21 DEF PrepareNew
<1>22. CASE TakeOver BY <1>22 DEF TakeOver, Active
<1>23. CASE FinishPreparation BY <1>23 DEF FinishPreparation
<1>24. CASE ClearSettled BY <1>24 DEF ClearSettled
<1>25. CASE Proceed BY <1>25 DEF Proceed
<1>26. CASE StageSource BY <1>26 DEF StageSource
<1>27. CASE StagedAll BY <1>27 DEF StagedAll
<1>28. CASE StartDeleting BY <1>28 DEF StartDeleting
<1>29. CASE DeleteMetadata BY <1>29 DEF DeleteMetadata
<1>30. CASE ReadBack BY <1>30 DEF ReadBack
<1>31. CASE ListNamespace BY <1>31 DEF ListNamespace
<1>32. CASE DeleteSource BY <1>32 DEF DeleteSource
<1>33. CASE NamespaceClean BY <1>33 DEF NamespaceClean
<1>34. CASE Forget BY <1>34 DEF Forget
<1>35. CASE ForgetRecords BY <1>35 DEF ForgetRecords
<1>36. CASE Finish BY <1>36 DEF Finish, Active
<1>37. CASE HookSaves BY <1>37 DEF HookSaves
<1>38. CASE Age BY <1>38 DEF Age
<1>39. CASE Crash BY <1>39 DEF Crash
<1>40. CASE RemoteFails BY <1>40 DEF RemoteFails
<1>41. CASE ClockHolds BY <1>41 DEF ClockHolds
<1>42. CASE StartUndo BY <1>42 DEF StartUndo
<1> QED BY <1>0, <1>1, <1>2, <1>3, <1>4, <1>5, <1>6, <1>7, <1>8, <1>9, <1>10, <1>11,
       <1>12, <1>13, <1>14, <1>15, <1>16, <1>17, <1>18, <1>19, <1>20, <1>21, <1>22,
       <1>23, <1>24, <1>25, <1>26, <1>27, <1>28, <1>29, <1>30, <1>31, <1>32, <1>33,
       <1>34, <1>35, <1>36, <1>37, <1>38, <1>39, <1>40, <1>41, <1>42
      DEF Next, Collect, Remove, Around

\* A journal and the grant in it go with the intent.
LEMMA GrantOwnedStep == ASSUME Types, Places, GrantOwned, Frozen, [Next]_vars PROVE GrantOwned'
<1> USE EmptyTyped DEF Types, IntentValid, Intents, Works, RecordsTyped, Places, GrantOwned,
        Publishing, records, removal, process, Goto, Return, ToSweep, Advance
<1>0. CASE UNCHANGED vars BY <1>0 DEF vars
<1>1. CASE StartPass BY <1>1 DEF StartPass
<1>2. CASE NothingToCollect BY <1>2 DEF NothingToCollect
<1>3. CASE NoRemoval BY <1>3 DEF NoRemoval
<1>4. CASE RemovalOver BY <1>4 DEF RemovalOver
<1>5. CASE Withdraw BY <1>5 DEF Withdraw, Frozen, KeptByPhase
<1>6. CASE SeeAbsent BY <1>6 DEF SeeAbsent
<1>7. CASE ResumeRestoration BY <1>7 DEF ResumeRestoration
<1>8. CASE GrantRestoration BY <1>8 DEF GrantRestoration
<1>9. CASE SaveRestoration BY <1>9 DEF SaveRestoration, Collecting
<1>10. CASE Scan BY <1>10 DEF Scan, NoPending, None
<1>11. CASE PutSource BY <1>11 DEF PutSource
<1>12. CASE PutMetadata BY <1>12 DEF PutMetadata
<1>13. CASE Acknowledge BY <1>13 DEF Acknowledge
<1>14. CASE Settle BY <1>14 DEF Settle, Restoring
<1>15. CASE DropPending BY <1>15 DEF DropPending, Restoring
<1>16. CASE ClearStages BY <1>16 DEF ClearStages
<1>17. CASE UnlinkIntent BY <1>17 DEF UnlinkIntent, NoIntent
<1>18. CASE Sweep BY <1>18 DEF Sweep
<1>19. CASE Decide BY <1>19 DEF Decide
<1>20. CASE ReadSession BY <1>20 DEF ReadSession
<1>21. CASE PrepareNew BY <1>21 DEF PrepareNew
<1>22. CASE TakeOver BY <1>22 DEF TakeOver, Active
<1>23. CASE FinishPreparation BY <1>23 DEF FinishPreparation
<1>24. CASE ClearSettled BY <1>24 DEF ClearSettled
<1>25. CASE Proceed BY <1>25 DEF Proceed
<1>26. CASE StageSource BY <1>26 DEF StageSource
<1>27. CASE StagedAll BY <1>27 DEF StagedAll
<1>28. CASE StartDeleting BY <1>28 DEF StartDeleting
<1>29. CASE DeleteMetadata BY <1>29 DEF DeleteMetadata
<1>30. CASE ReadBack BY <1>30 DEF ReadBack
<1>31. CASE ListNamespace BY <1>31 DEF ListNamespace
<1>32. CASE DeleteSource BY <1>32 DEF DeleteSource
<1>33. CASE NamespaceClean BY <1>33 DEF NamespaceClean
<1>34. CASE Forget BY <1>34 DEF Forget
<1>35. CASE ForgetRecords BY <1>35 DEF ForgetRecords
<1>36. CASE Finish BY <1>36 DEF Finish
<1>37. CASE HookSaves BY <1>37 DEF HookSaves
<1>38. CASE Age BY <1>38 DEF Age
<1>39. CASE Crash BY <1>39 DEF Crash
<1>40. CASE RemoteFails BY <1>40 DEF RemoteFails
<1>41. CASE ClockHolds BY <1>41 DEF ClockHolds
<1>42. CASE StartUndo BY <1>42 DEF StartUndo
<1> QED BY <1>0, <1>1, <1>2, <1>3, <1>4, <1>5, <1>6, <1>7, <1>8, <1>9, <1>10, <1>11,
       <1>12, <1>13, <1>14, <1>15, <1>16, <1>17, <1>18, <1>19, <1>20, <1>21, <1>22,
       <1>23, <1>24, <1>25, <1>26, <1>27, <1>28, <1>29, <1>30, <1>31, <1>32, <1>33,
       <1>34, <1>35, <1>36, <1>37, <1>38, <1>39, <1>40, <1>41, <1>42
      DEF Next, Collect, Remove, Around

-----------------------------------------------------------------------------
(* The evidence of hooks                                                   *)

\* What was queued stays queued or published, and tokens tell requests apart.
LEMMA QueuedStep == ASSUME Types, Places, GrantOwned, Queued, [Next]_vars PROVE Queued'
<1> USE EmptyTyped DEF Types, RecordsTyped, ProcessTyped, Queued, records
<1>1. work'.request \in {work.request, NoRequest, request}
  <2>0. CASE UNCHANGED work \/ work' = NoWork BY <2>0
  <2> USE DEF Works, Goto, Return, ToSweep
  <2>1. CASE StartPass BY <2>1 DEF StartPass
  <2>2. CASE RemovalOver BY <2>2 DEF RemovalOver
  <2>3. CASE Withdraw BY <2>3 DEF Withdraw
  <2>4. CASE DropPending BY <2>4 DEF DropPending
  <2>5. CASE ClearSettled BY <2>5 DEF ClearSettled
  <2>6. CASE Sweep BY <2>6 DEF Sweep
  <2>7. CASE Decide BY <2>7 DEF Decide
  <2>8. CASE StartUndo BY <2>8 DEF StartUndo
  <2>9. CASE ReadSession BY <2>9 DEF ReadSession
  <2> QED BY <2>0, <2>1, <2>2, <2>3, <2>4, <2>5, <2>6, <2>7, <2>8, <2>9, WorkFrame
<1>2. CASE HookSaves
  <2>1. PICK h \in Hooks \ saved :
          /\ saved' = saved \union {h}
          /\ request'.token = h /\ request'.items = request.items \union {h}
    BY <1>2 DEF HookSaves
  <2>2. h \notin {request.token, work.request.token, pending.token}
    BY <2>1, ConstantsTyped
  <2>3. UNCHANGED <<registered, published, pending, pc, work>>
    BY <1>2 DEF HookSaves, process
  <2> QED BY <2>1, <2>2, <2>3, ConstantsTyped
<1>3. CASE UNCHANGED records /\ ~HookSaves /\ ~Acknowledge /\ ~Settle
  <2>1. UNCHANGED saved /\ (pc' = pc \/ pc' \notin {"settle", "drop"})
    BY <1>3, SavedFrame, PublishedFrame
  <2> QED BY <1>1, <1>3, <2>1
<1>4. CASE SaveRestoration BY <1>4 DEF SaveRestoration, ToSweep
<1>5. CASE Scan
  <2>1. UNCHANGED <<registered, published, saved>> /\ pc' \notin {"settle", "drop"}
    BY <1>5 DEF Scan, Goto, ToSweep
  <2>2. request' = request \/ (request' = NoRequest /\ request.items \subseteq published.items)
    BY <1>5 DEF Scan
  <2>3. pending' = pending
        \/ (pending'.token = work.request.token /\ pending'.items = work.request.items)
    BY <1>5 DEF Scan
  <2> QED BY <1>1, <2>1, <2>2, <2>3
<1>6. CASE Acknowledge
  <2>1. published'.items = published.items \union pending.items
    BY <1>6 DEF Acknowledge
  <2> QED BY <1>6, <2>1 DEF Acknowledge, Goto
<1>7. CASE Settle
  <2>1. request' = request \/ (request' = NoRequest /\ request.items \subseteq published.items)
    BY <1>7 DEF Settle
  <2> QED BY <1>7, <2>1 DEF Settle, Goto
<1>8. CASE DropPending BY <1>1, <1>8 DEF DropPending, ToSweep
<1>9. CASE Forget BY <1>1, <1>9 DEF Forget, Return, Goto
<1>10. CASE ForgetRecords
  <2>1. /\ ~registered' /\ request' = NoRequest /\ pending' = NoPending
        /\ pc' = "finish" /\ UNCHANGED saved
    BY <1>10 DEF ForgetRecords, Goto, Places
  <2> QED BY <1>1, <2>1
<1>11. CASE Age
  <2>1. published'.items = published.items
    BY <1>11 DEF Age
  <2> QED BY <1>11, <2>1 DEF Age, process
<1> QED BY <1>2, <1>3, <1>4, <1>5, <1>6, <1>7, <1>8, <1>9, <1>10, <1>11, RecordsFrame

\* Only an undo makes the process not yield.
LEMMA UndoRecordedStep == ASSUME Types, UndoRecorded, [Next]_vars PROVE UndoRecorded'
<1> USE EmptyTyped DEF Types, UndoRecorded
<1>1. CASE StartUndo BY <1>1 DEF StartUndo
<1>2. CASE ~StartUndo
  <2>1. UNCHANGED undone
    BY <1>2, UndoneFrame
  <2>2. work'.yields \in {work.yields, TRUE}
    <3>0. CASE UNCHANGED work \/ work' = NoWork BY <3>0
    <3> USE DEF Works, NoWork, Goto, Return, ToSweep
    <3>1. CASE StartPass BY <3>1 DEF StartPass
    <3>2. CASE RemovalOver BY <3>2 DEF RemovalOver
    <3>3. CASE Withdraw BY <3>3 DEF Withdraw
    <3>4. CASE DropPending BY <3>4 DEF DropPending
    <3>5. CASE ClearSettled BY <3>5 DEF ClearSettled
    <3>6. CASE Sweep BY <3>6 DEF Sweep
    <3>7. CASE Decide BY <3>7 DEF Decide
    <3>8. CASE ReadSession BY <3>8 DEF ReadSession
    <3> QED BY <1>2, <3>0, <3>1, <3>2, <3>3, <3>4, <3>5, <3>6, <3>7, <3>8, WorkFrame
  <2> QED BY <2>1, <2>2
<1> QED BY <1>1, <1>2

-----------------------------------------------------------------------------
(* The bucket                                                              *)

\* Sources come before the metadata that names them, and go after it.
LEMMA MetadataResolvesStep ==
  ASSUME Types, Places, MetadataResolves, [Next]_vars PROVE MetadataResolves'
<1> USE DEF MetadataResolves, RefsOf, bucket
<1>0. CASE UNCHANGED bucket BY <1>0
<1>1. CASE PutSource BY <1>1 DEF PutSource
<1>2. CASE PutMetadata BY <1>2 DEF PutMetadata
<1>3. CASE DeleteMetadata BY <1>3 DEF DeleteMetadata
<1>4. CASE DeleteSource BY <1>4 DEF DeleteSource, InPosition, Places
<1> QED BY <1>0, <1>1, <1>2, <1>3, <1>4, BucketFrame

\* What was emptied stays empty: a restoration begins before the namespace of an
\* undo is cleaned, or after it took the phase back.
LEMMA EmptiedStep == ASSUME Types, Places, Emptied, [Next]_vars PROVE Emptied'
<1> USE DEF Types, Intents, Emptied, ForgottenIsGone, bucket, Advance, removal
<1>0. CASE UNCHANGED <<registered, intent, bucket>> BY <1>0
<1>1. CASE PutSource BY <1>1 DEF PutSource, Places, Collecting, Publishing, records
<1>2. CASE PutMetadata BY <1>2 DEF PutMetadata, Places, Collecting, Publishing, records
<1>3. CASE DeleteMetadata BY <1>3 DEF DeleteMetadata, records
<1>4. CASE DeleteSource BY <1>4 DEF DeleteSource, records
<1>5. CASE Withdraw BY <1>5 DEF Withdraw, records
<1>6. CASE SeeAbsent BY <1>6 DEF SeeAbsent, records
<1>7. CASE GrantRestoration BY <1>7 DEF GrantRestoration, records
<1>8. CASE Settle BY <1>8 DEF Settle, records
<1>9. CASE UnlinkIntent BY <1>9 DEF UnlinkIntent, NoIntent, records
<1>10. CASE PrepareNew BY <1>10 DEF PrepareNew, records
<1>11. CASE TakeOver BY <1>11 DEF TakeOver, records
<1>12. CASE FinishPreparation BY <1>12 DEF FinishPreparation, records
<1>13. CASE StartDeleting BY <1>13 DEF StartDeleting, records
<1>14. CASE ReadBack BY <1>14 DEF ReadBack, records
<1>15. CASE NamespaceClean BY <1>15 DEF NamespaceClean, InPosition, Places, records
<1>16. CASE Finish BY <1>16 DEF Finish, records
<1>17. CASE Forget BY <1>17 DEF Forget, Places
<1> QED BY <1>0, <1>1, <1>2, <1>3, <1>4, <1>5, <1>6, <1>7, <1>8, <1>9, <1>10, <1>11,
       <1>12, <1>13, <1>14, <1>15, <1>16, <1>17, BucketFrame, IntentFrame,
       RegisteredFrame

\* What a removal froze stays as it was until the removal is over.
LEMMA FrozenStep ==
  ASSUME Types, Places, GrantOwned, MetadataResolves, Frozen, [Next]_vars PROVE Frozen'
<1> USE ConstantsTyped, EmptyTyped
    DEF Types, IntentValid, Intents, Works, RecordsTyped, Pendings, StoredTyped, Places,
        GrantOwned, Publishing, Frozen, KeptByPhase, Active, RefsOf, AllStaged, None,
        records, removal, bucket, process, Goto, Return, ToSweep, Advance
<1>0. CASE UNCHANGED vars BY <1>0 DEF vars
<1>1. CASE StartPass BY <1>1 DEF StartPass
<1>2. CASE NothingToCollect BY <1>2 DEF NothingToCollect
<1>3. CASE NoRemoval BY <1>3 DEF NoRemoval
<1>4. CASE RemovalOver BY <1>4 DEF RemovalOver
<1>5. CASE Withdraw BY <1>5 DEF Withdraw
<1>6. CASE SeeAbsent BY <1>6 DEF SeeAbsent
<1>7. CASE ResumeRestoration BY <1>7 DEF ResumeRestoration
<1>8. CASE GrantRestoration
  <2>1. intent' = intent
        \/ intent' = [intent EXCEPT !.phase = "restoring", !.grant = work.request.token]
    BY <1>8 DEF GrantRestoration
  <2>2. /\ intent'.phase \in {intent.phase, "restoring"} /\ intent'.reason = intent.reason
        /\ intent'.version = intent.version
    BY <2>1
  <2>3. /\ UNCHANGED <<records, stages, bucket, saved>> /\ pc' \in {"granted", "sweep"}
        /\ intent.phase \in {"absent", "cleaned", "restoring"} /\ pending = NoPending
    BY <1>8 DEF GrantRestoration
  <2>4. intent'.phase \in {"absent", "cleaned", "restoring"}
    BY <2>2, <2>3
  <2> QED BY <2>2, <2>3, <2>4
<1>9. CASE SaveRestoration BY <1>9 DEF SaveRestoration, Collecting
<1>10. CASE Scan BY <1>10 DEF Scan
<1>11. CASE PutSource BY <1>11 DEF PutSource, InPlace
<1>12. CASE PutMetadata BY <1>12 DEF PutMetadata, InPlace, Restoring
<1>13. CASE Acknowledge BY <1>13 DEF Acknowledge, MetadataResolves, Restoring
<1>14. CASE Settle BY <1>14 DEF Settle, Restoring, MetadataResolves
<1>15. CASE DropPending BY <1>15 DEF DropPending, Restoring
<1>16. CASE ClearStages BY <1>16 DEF ClearStages
<1>17. CASE UnlinkIntent BY <1>17 DEF UnlinkIntent, NoIntent
<1>18. CASE Sweep BY <1>18 DEF Sweep
<1>19. CASE Decide BY <1>19 DEF Decide, Expires
<1>20. CASE ReadSession BY <1>20 DEF ReadSession
<1>21. CASE PrepareNew BY <1>21 DEF PrepareNew
<1>22. CASE TakeOver BY <1>22 DEF TakeOver
<1>23. CASE FinishPreparation BY <1>23 DEF FinishPreparation
<1>24. CASE ClearSettled BY <1>24 DEF ClearSettled
<1>25. CASE Proceed BY <1>25 DEF Proceed
<1>26. CASE StageSource BY <1>26 DEF StageSource
<1>27. CASE StagedAll BY <1>27 DEF StagedAll
<1>28. CASE StartDeleting BY <1>28 DEF StartDeleting, InPosition
<1>29. CASE DeleteMetadata BY <1>29 DEF DeleteMetadata, InPosition
<1>30. CASE ReadBack BY <1>30 DEF ReadBack
<1>31. CASE ListNamespace BY <1>31 DEF ListNamespace
<1>32. CASE DeleteSource BY <1>32 DEF DeleteSource, InPosition
<1>33. CASE NamespaceClean BY <1>33 DEF NamespaceClean, InPosition
<1>34. CASE Forget BY <1>34 DEF Forget
<1>35. CASE ForgetRecords BY <1>35 DEF ForgetRecords
<1>36. CASE Finish BY <1>36 DEF Finish
<1>37. CASE HookSaves BY <1>37 DEF HookSaves
<1>38. CASE Age BY <1>38 DEF Age
<1>39. CASE Crash BY <1>39 DEF Crash
<1>40. CASE RemoteFails BY <1>40 DEF RemoteFails
<1>41. CASE ClockHolds BY <1>41 DEF ClockHolds
<1>42. CASE StartUndo BY <1>42 DEF StartUndo
<1> QED BY <1>0, <1>1, <1>2, <1>3, <1>4, <1>5, <1>6, <1>7, <1>8, <1>9, <1>10, <1>11,
       <1>12, <1>13, <1>14, <1>15, <1>16, <1>17, <1>18, <1>19, <1>20, <1>21, <1>22,
       <1>23, <1>24, <1>25, <1>26, <1>27, <1>28, <1>29, <1>30, <1>31, <1>32, <1>33,
       <1>34, <1>35, <1>36, <1>37, <1>38, <1>39, <1>40, <1>41, <1>42
      DEF Next, Collect, Remove, Around

-----------------------------------------------------------------------------
(* The invariant, and what follows from it                                  *)

\* A session that was published once.
LEMMA InitIInv == Init => IInv
<1> SUFFICES ASSUME Init PROVE IInv
  OBVIOUS
<1> USE NumbersAssumption, ConstantsTyped, EmptyTyped DEF Init
<1>1. RecordsTyped
  BY DEF RecordsTyped, Documents
<1>2. intent \in Intents /\ IntentValid
  BY DEF NoIntent, Intents, IntentValid, Phases, Reasons, Documents, Tokens
<1>3. StoredTyped
  BY DEF StoredTyped, NoStages, Documents, RefsOf
<1>4. ProcessTyped /\ work \in Works /\ left \in [Kinds -> Nat]
  BY DEF ProcessTyped, Labels
<1>5. Places /\ GrantOwned
  BY DEF Places, GrantOwned, Publishing, Collecting, Removing, NoIntent
<1>6. Queued /\ UndoRecorded
  BY DEF Queued, UndoRecorded
<1>7. MetadataResolves /\ Emptied
  BY DEF MetadataResolves, RefsOf, None, Emptied, ForgottenIsGone, NoIntent
<1>8. Frozen
  BY DEF Frozen, KeptByPhase, NoIntent, RefsOf, None
<1> QED BY <1>1, <1>2, <1>3, <1>4, <1>5, <1>6, <1>7, <1>8 DEF IInv, Types

\* Every step keeps all of it.
LEMMA IInvStep == IInv /\ [Next]_vars => IInv'
BY TypesStep, PlacesStep, GrantOwnedStep, QueuedStep, UndoRecordedStep,
   MetadataResolvesStep, EmptiedStep, FrozenStep DEF IInv

\* The inductive invariant holds in every reachable state.
THEOREM Invariance == Spec => []IInv
<1>1. Init => IInv
  BY InitIInv
<1>2. IInv /\ [Next]_vars => IInv'
  BY IInvStep
<1> QED BY <1>1, <1>2, PTL DEF Spec

\* Every reachable state of a removal and its way back is well typed: only a
\* retention removal is granted a restoration, and the metadata is kept with an
\* intent from prepared on until the removal is settled.
THEOREM TypeCorrect == Spec => []TypeOK
<1>1. IInv => TypeOK
  BY DEF IInv, Types, RecordsTyped, StoredTyped, ProcessTyped, IntentValid, Intents, Works,
         Pendings, TypeOK
<1> QED BY <1>1, Invariance, PTL

\* The metadata a reader finds names sources that are there, for every order in
\* which sources and metadata are deleted and put back.
THEOREM MetadataAlwaysResolves == Spec => []MetadataResolves
<1>1. IInv => MetadataResolves
  BY DEF IInv
<1> QED BY <1>1, Invariance, PTL

\* A session that was forgotten has nothing in the bucket.
THEOREM ForgottenAlwaysGone == Spec => []ForgottenIsGone
<1>1. IInv => ForgottenIsGone
  BY DEF IInv, Emptied
<1> QED BY <1>1, Invariance, PTL

\* A retention removal can be taken back wherever it stopped.
THEOREM AlwaysRecoverable == Spec => []Recoverable
<1>1. IInv => Recoverable
  <2> SUFFICES ASSUME IInv, registered, published.version # None, intent.reason = "retention"
               PROVE  /\ RefsOf(published.version) \subseteq sources \union stages.sources
                      /\ metadata = None =>
                           Active /\ intent.version = published.version /\ stages.metadata
    BY DEF Recoverable
  <2>1. KeptByPhase
    BY DEF IInv, Frozen
  <2>2. ASSUME metadata = None
        PROVE  Active /\ intent.version = published.version /\ stages.metadata
    <3>1. intent.phase \in Phases /\ intent.phase \notin {"finalizing", "removed"}
      BY DEF IInv, Types, Intents, Places
    <3>2. intent.phase # "none"
      BY <2>1, <2>2 DEF KeptByPhase, IInv, Frozen
    <3>3. intent.phase \in {"deleting", "absent", "cleaned", "restoring"}
      BY <2>1, <2>2, <3>1, <3>2 DEF KeptByPhase, Phases
    <3>4. intent.version = published.version
      BY <2>1, <3>2 DEF KeptByPhase
    <3>5. stages.metadata = TRUE
      BY <3>3, <3>4 DEF IInv, Types, IntentValid
    <3> QED BY <3>3, <3>4, <3>5 DEF Active
  <2> QED BY <2>1, <2>2 DEF KeptByPhase
<1> QED BY <1>1, Invariance, PTL

\* What hooks queued stays queued or published until an undo takes the session
\* or all of it was published.
THEOREM EvidenceAlwaysKept == Spec => HookEvidenceKept
<1> DEFINE Keeps ==
      registered =>
        IF registered' THEN saved' \subseteq request'.items \union published'.items
        ELSE undone \/ saved \subseteq published.items
<1>1. IInv /\ IInv' /\ [Next]_vars => Keeps
  <2> SUFFICES ASSUME IInv, IInv', [Next]_vars, registered PROVE Keeps
    OBVIOUS
  <2>1. CASE registered'
    BY <2>1 DEF IInv, Queued
  <2>2. CASE ~registered'
    <3>1. Forget
      BY <2>2, RegisteredFrame
    <3>2. ~work.yields \/ request.token = None
      BY <3>1, <2>2 DEF Forget
    <3>3. CASE request.token = None
      <4>1. saved \subseteq published.items
        BY <3>3 DEF IInv, Queued
      <4> QED BY <2>2, <4>1
    <3>4. CASE work.yields # TRUE
      <4>1. undone
        BY <3>4 DEF IInv, UndoRecorded
      <4> QED BY <2>2, <4>1
    <3> QED BY <3>2, <3>3, <3>4
  <2> QED BY <2>1, <2>2
<1> QED BY <1>1, Invariance, PTL DEF Spec, HookEvidenceKept

\* Nobody publishes a session again that an undo has taken the metadata of.
THEOREM UndoAlwaysFinal == Spec => UndoIsFinal
<1> DEFINE Final == intent.reason = "undo" /\ Active /\ metadata = None => metadata' = None
<1>1. IInv /\ [Next]_vars => Final
  <2> SUFFICES ASSUME IInv, [Next]_vars, intent.reason = "undo", Active, metadata = None
               PROVE  metadata' = None
    OBVIOUS
  <2>1. CASE UNCHANGED bucket BY <2>1 DEF bucket
  <2>2. CASE PutSource BY <2>2 DEF PutSource
  <2>3. CASE PutMetadata
    BY <2>3 DEF PutMetadata, IInv, Places, Types, IntentValid, Active
  <2>4. CASE DeleteMetadata BY <2>4 DEF DeleteMetadata
  <2>5. CASE DeleteSource BY <2>5 DEF DeleteSource
  <2> QED BY <2>1, <2>2, <2>3, <2>4, <2>5, BucketFrame
<1> QED BY <1>1, Invariance, PTL DEF Spec, UndoIsFinal
=============================================================================
