---------------------------- MODULE RequestWrite ----------------------------
(***************************************************************************)
(* The request file of one session and everyone who writes it              *)
(* (internal/state/requestwrite.go, store.go, lineage.go): hooks and other *)
(* writers merging an event into it, the collector acknowledging what it   *)
(* published, and retention forgetting the session.                        *)
(*                                                                         *)
(* A writer reads the file without the request lock, computes the merged   *)
(* request and syncs it to a temporary file; it then takes the lock only   *)
(* to check the registration, to check that the file still holds what it   *)
(* read, and to rename.  A writer that was overtaken starts over: up to    *)
(* UnlockedAttempts times, after which a hook writes holding the lock and  *)
(* any other writer gives up.  The lock itself is NamedLock's, taken here  *)
(* in one step.                                                            *)
(*                                                                         *)
(* Tokens are random in the code.  Only their equality is ever used, so a  *)
(* fresh token is one that nothing stored anywhere holds.                  *)
(***************************************************************************)
EXTENDS Naturals, FiniteSets

CONSTANTS
  Hooks,         \* hook processes (ForHook); hooks.lock runs them one at a time
  Others,        \* other writers: the feedback command, discovery, imports
  Collector,     \* the process that holds collector.lock
  Events,        \* events a save may carry: [items, reason, at, deferred]
  Legacy,        \* requests with no token an older version left behind
  NoRequest,     \* the request file does not exist
  Nobody,        \* the request lock is free
  Tokens,        \* request tokens; NoToken is the empty string
  Attempts,      \* unlockedWriteAttempts
  Starts         \* the request there is, the writers' events, and the bounds:
                 \* kills and power losses in a behaviour

Writers == Hooks \union Others
Procs == Writers \union {Collector}
NoToken == 0

ASSUME ActorsAssumption ==
  /\ Nobody \notin Procs
  /\ Collector \notin Writers
  /\ Hooks \intersect Others = {}

ASSUME NumbersAssumption ==
  /\ Attempts \in Nat \ {0}
  /\ Starts \subseteq [request : Legacy \union {NoRequest}, event : [Writers -> Events],
                       left : [kill : Nat, power : Nat]]
  /\ Tokens \subseteq Nat \ {NoToken}

VARIABLES
  registered,  \* registrations/<id>.json exists
  request,     \* requests/<id>.json: [items, reasons, at, deferred, token] or NoRequest
  disk,        \* what a power loss may leave of the two: [registered, request],
               \* each the set of values not yet made obsolete by a sync
  lock,        \* the holder of the session's request lock, or Nobody
  pc,          \* where each process is
  event,       \* event[w]: what writer w saves
  before,      \* before[p]: the request p read before it staged
  staged,      \* staged[p]: the request p will rename over the file, or NoRequest
  tries,       \* tries[p]: attempts p was overtaken in
  covered,     \* the request the collector's scan took with it
  acked,       \* evidence items a durable publication or decision covers
  saved,       \* history: items of saves that returned without an error
  written,     \* history: the ones among them whose save wrote the file
  dropped,     \* history: an expired session no longer published was forgotten
  left,        \* kills and power losses still to come
  boots        \* power losses so far

files == <<registered, request, disk>>
vars == <<registered, request, disk, lock, pc, event, before, staged, tries,
          covered, acked, saved, written, dropped, left, boots>>

-----------------------------------------------------------------------------
(* The content of a request                                                *)

Content(r) ==
  IF r = NoRequest THEN NoRequest
  ELSE [items |-> r.items, reasons |-> r.reasons, at |-> r.at, deferred |-> r.deferred]

\* mergeRequest: reasons and evidence accumulate; an urgent event clears
\* Deferred and advances RequestedAt; the token is always new.
Merge(current, ev, t) ==
  IF current = NoRequest
  THEN [items |-> ev.items, reasons |-> {ev.reason}, at |-> ev.at,
        deferred |-> ev.deferred, token |-> t]
  ELSE [items    |-> current.items \union ev.items,
        reasons  |-> current.reasons \union {ev.reason},
        at       |-> IF ~ev.deferred /\ ev.at > current.at THEN ev.at ELSE current.at,
        deferred |-> current.deferred /\ ev.deferred,
        token    |-> t]

\* mergeRequest's "nothing would change": the file is left as it is.
AddsNothing(current, ev) ==
  /\ current # NoRequest
  /\ current.token # NoToken
  /\ ev.items \subseteq current.items
  /\ ev.reason \in current.reasons
  /\ ev.deferred \/ ~current.deferred
  /\ ev.at <= current.at

TokenOf(r) == IF r = NoRequest THEN NoToken ELSE r.token

\* Tokens in a file, staged, or in the collector's memory.
LiveTokens ==
  {TokenOf(request), TokenOf(covered)} \union {TokenOf(r) : r \in disk.request}
    \union {TokenOf(staged[p]) : p \in Procs} \union {TokenOf(before[p]) : p \in Procs}

\* local.ID
FreshToken == CHOOSE t \in Tokens : t \notin LiveTokens

\* What p's change computes from the content it read: a save's merge, or the
\* token EnsureRequestToken gives a request that has none.
Change(p, current) ==
  IF p = Collector
  THEN IF current # NoRequest /\ current.token = NoToken
       THEN [current EXCEPT !.token = FreshToken]
       ELSE NoRequest
  ELSE IF AddsNothing(current, event[p])
       THEN NoRequest
       ELSE Merge(current, event[p], FreshToken)

-----------------------------------------------------------------------------
(* Helpers                                                                 *)

Goto(p, step) == pc' = [pc EXCEPT ![p] = step]

Unlock == lock' = Nobody

\* A change of a file that no sync has made durable yet: a power loss leaves
\* either value.  After the last power loss of a behaviour nothing is tracked.
Unsynced(values, new) == IF left.power > 0 THEN values \union {new} ELSE {new}

SetRequest(r) ==
  /\ request' = r
  /\ disk' = [disk EXCEPT !.request = Unsynced(@, r)]

\* p forgets what it read and staged.
Clear(p) ==
  /\ before' = [before EXCEPT ![p] = NoRequest]
  /\ staged' = [staged EXCEPT ![p] = NoRequest]
  /\ tries' = [tries EXCEPT ![p] = 0]

\* p's write returns an error.
Fail(p, outcome) ==
  /\ Goto(p, IF p = Collector THEN "idle" ELSE outcome)
  /\ Clear(p)
  /\ UNCHANGED <<covered, saved, written>>

\* p's write returns without an error; r is the request the file held when
\* it committed.  A save has promised its items; EnsureRequestToken hands the
\* request to the scan.
Return(p, r) ==
  /\ IF p = Collector
     THEN /\ covered' = r
          /\ Goto(p, IF r = NoRequest THEN "idle" ELSE "scanned")
          /\ UNCHANGED <<saved, written>>
     ELSE /\ saved' = saved \union event[p].items
          /\ written' = IF staged[p] = NoRequest THEN written ELSE written \union event[p].items
          /\ Goto(p, "done")
          /\ UNCHANGED covered
  /\ Clear(p)

Finished == {"done", "unregistered", "overtaken", "busy", "killed"}

\* What each lock wait leads to once the lock is granted.
AfterLock ==
  [lock |-> "check", hlock |-> "hcheck", clock |-> "complete",
   flock |-> "fcheck", xlock |-> "xcheck"]
LockWaits == DOMAIN AfterLock
Holding == {"check", "compare", "rename", "hcheck", "hstage", "hrename",
            "complete", "fcheck", "xcheck", "fregistration", "frequest"}
Running == LockWaits \union Holding \union {"stage", "sync", "scanned", "fsync"}

Init ==
  /\ registered = TRUE
  /\ \E start \in Starts :
       request = start.request /\ event = start.event /\ left = start.left
  /\ disk = [registered |-> {registered}, request |-> {request}]
  /\ lock = Nobody
  /\ pc = [p \in Procs |-> "idle"]
  /\ before = [p \in Procs |-> NoRequest]
  /\ staged = [p \in Procs |-> NoRequest]
  /\ tries = [p \in Procs |-> 0]
  /\ covered = NoRequest
  /\ acked = {}
  /\ saved = {}
  /\ written = {}
  /\ dropped = FALSE
  /\ boots = 0

-----------------------------------------------------------------------------
(* The request lock                                                        *)

TakeLock(p) ==
  /\ pc[p] \in LockWaits
  /\ lock = Nobody
  /\ lock' = p
  /\ Goto(p, AfterLock[pc[p]])
  /\ UNCHANGED <<files, event, before, staged, tries, covered, acked, saved, written, dropped, left, boots>>

\* The lock stayed held past the wait: the operation returns ErrBusy.
LockBusy(p) ==
  /\ pc[p] \in LockWaits
  /\ lock # Nobody
  /\ Goto(p, IF p = Collector THEN "idle" ELSE "busy")
  /\ Clear(p)
  /\ covered' = IF p = Collector THEN NoRequest ELSE covered
  /\ UNCHANGED <<files, lock, event, acked, saved, written, dropped, left, boots>>

-----------------------------------------------------------------------------
(* writeUnderLock                                                          *)

\* A hook runs once, alone under hooks.lock; any other writer may save again.
Begin(w) ==
  /\ w \in Hooks => pc[w] = "idle" /\ \A h \in Hooks : pc[h] \notin Running
  /\ w \in Others => pc[w] \in Finished \union {"idle"}
  /\ Goto(w, "stage")
  /\ UNCHANGED <<files, lock, event, before, staged, tries, covered, acked, saved, written, dropped, left, boots>>

\* Read without the lock, compute, write and sync the temporary file.
Stage(p) ==
  /\ pc[p] = "stage"
  /\ Tokens \ LiveTokens # {}
  /\ before' = [before EXCEPT ![p] = request]
  /\ staged' = [staged EXCEPT ![p] = Change(p, request)]
  /\ Goto(p, "lock")
  /\ UNCHANGED <<files, lock, event, tries, covered, acked, saved, written, dropped, left, boots>>

\* Fault: no check under the lock.
CheckSkipped(p) == TRUE

\* saveRequest's check under the lock; EnsureRequestToken has none.
RegistrationCheck(p) == p = Collector \/ registered

Check(p) ==
  /\ pc[p] \in {"check", "hcheck"}
  /\ RegistrationCheck(p)
  /\ Goto(p, IF pc[p] = "check" THEN "compare" ELSE "hstage")
  /\ UNCHANGED <<files, lock, event, before, staged, tries, covered, acked, saved, written, dropped, left, boots>>

CheckFails(p) ==
  /\ pc[p] \in {"check", "hcheck"}
  /\ ~RegistrationCheck(p)
  /\ Unlock
  /\ Fail(p, "unregistered")
  /\ UNCHANGED <<files, event, acked, dropped, left, boots>>

\* Fault: the staged file is renamed over whatever is there.
NeverOvertaken(p) == FALSE

\* commitUnderLock compares the file with what the change was computed from.
Overtaken(p) == request # before[p]

Compare(p) ==
  /\ pc[p] = "compare"
  /\ ~Overtaken(p)
  /\ IF staged[p] = NoRequest
     THEN Unlock /\ Return(p, before[p])
     ELSE Goto(p, "rename") /\ UNCHANGED <<lock, before, staged, tries, covered, saved, written>>
  /\ UNCHANGED <<files, event, acked, dropped, left, boots>>

\* Fault: an overtaken hook stages again and again.
NextAttemptAlwaysStaged(p, overtaken) ==
  IF p \in Hooks \/ overtaken < Attempts THEN "stage" ELSE "overtaken"

\* Fault: nobody gives up.
NextAttemptUnlimited(p, overtaken) == IF p \in Hooks THEN "hlock" ELSE "stage"

\* Where an overtaken writer goes on: another attempt; then a hook writes
\* holding the lock, and any other writer gives up.
NextAttempt(p, overtaken) ==
  IF p \in Hooks THEN "hlock"
  ELSE IF overtaken < Attempts THEN "stage" ELSE "overtaken"

Discard(p) ==
  /\ pc[p] = "compare"
  /\ Overtaken(p)
  /\ Unlock
  /\ LET step == NextAttempt(p, tries[p] + 1)
     IN IF step = "overtaken"
        THEN Fail(p, "overtaken")
        ELSE /\ Goto(p, step)
             /\ before' = [before EXCEPT ![p] = NoRequest]
             /\ staged' = [staged EXCEPT ![p] = NoRequest]
             /\ tries' = [tries EXCEPT ![p] = IF p \in Hooks THEN 0 ELSE @ + 1]
             /\ UNCHANGED <<covered, saved, written>>
  /\ UNCHANGED <<files, event, acked, dropped, left, boots>>

\* writeHoldingLock: read, compute and stage with the lock held.
StageHolding(p) ==
  /\ pc[p] = "hstage"
  /\ Tokens \ LiveTokens # {}
  /\ IF Change(p, request) = NoRequest
     THEN Unlock /\ Return(p, request)
     ELSE /\ before' = [before EXCEPT ![p] = request]
          /\ staged' = [staged EXCEPT ![p] = Change(p, request)]
          /\ Goto(p, "hrename")
          /\ UNCHANGED <<lock, tries, covered, saved, written>>
  /\ UNCHANGED <<files, event, acked, dropped, left, boots>>

\* The commit point; the lock is released before the directory is synced.
Rename(p) ==
  /\ pc[p] \in {"rename", "hrename"}
  /\ SetRequest(staged[p])
  /\ Unlock
  /\ Goto(p, "sync")
  /\ before' = [before EXCEPT ![p] = NoRequest]
  /\ UNCHANGED <<registered, event, staged, tries, covered, acked, saved, written, dropped, left, boots>>

\* Fault: the write returns before the directory is synced.
SyncSkipped(p) ==
  /\ pc[p] = "sync"
  /\ Return(p, staged[p])
  /\ UNCHANGED <<registered, request, disk, lock, event, acked, dropped, left, boots>>

\* SyncDir makes every rename in the directory durable, then the write returns.
SyncDir(p) ==
  /\ pc[p] = "sync"
  /\ disk' = [disk EXCEPT !.request = {request}]
  /\ Return(p, staged[p])
  /\ UNCHANGED <<registered, request, lock, event, acked, dropped, left, boots>>

-----------------------------------------------------------------------------
(* The collector: acknowledging, and forgetting                            *)

\* A pass loads the request of a registered session; one without a token is
\* first given one (EnsureRequestToken, by the staged write above).
Scan ==
  /\ pc[Collector] = "idle"
  /\ registered
  /\ request # NoRequest
  /\ IF request.token = NoToken
     THEN Goto(Collector, "stage") /\ UNCHANGED covered
     ELSE Goto(Collector, "scanned") /\ covered' = request
  /\ UNCHANGED <<files, lock, event, before, staged, tries, acked, saved, written, dropped, left, boots>>

\* The evidence the scan took is durably published, or the pass fails.
Publish ==
  /\ pc[Collector] = "scanned"
  /\ acked' = acked \union covered.items
  /\ Goto(Collector, "clock")
  /\ UNCHANGED <<files, lock, event, before, staged, tries, covered, saved, written, dropped, left, boots>>

PublishFails ==
  /\ pc[Collector] = "scanned"
  /\ covered' = NoRequest
  /\ Goto(Collector, "idle")
  /\ UNCHANGED <<files, lock, event, before, staged, tries, acked, saved, written, dropped, left, boots>>

\* Fault: the request is removed whatever its token.
CoversAnyRequest == request # NoRequest

\* CompleteRequest's comparison under the lock.
CoversRequest == request # NoRequest /\ request.token = covered.token

CompleteRequest ==
  /\ pc[Collector] = "complete"
  /\ IF CoversRequest THEN SetRequest(NoRequest) ELSE UNCHANGED <<request, disk>>
  /\ covered' = NoRequest
  /\ Unlock
  /\ Goto(Collector, "idle")
  /\ UNCHANGED <<registered, event, before, staged, tries, acked, saved, written, dropped, left, boots>>

\* ForgetIdleSession: "flock" defers to outstanding work, "xlock" is a session
\* the configuration no longer publishes.
Forget ==
  /\ pc[Collector] = "idle"
  /\ registered
  /\ \E step \in {"flock", "xlock"} : Goto(Collector, step)
  /\ UNCHANGED <<files, lock, event, before, staged, tries, covered, acked, saved, written, dropped, left, boots>>

\* Fault: no recheck under the lock.
HasWorkUnchecked == FALSE

\* forgetIdleLocked's recheck under the lock: work keeps the session.
HasWork == request # NoRequest

ForgetCheck ==
  /\ pc[Collector] \in {"fcheck", "xcheck"}
  /\ IF pc[Collector] = "fcheck" /\ HasWork
     THEN Goto(Collector, "idle") /\ Unlock /\ UNCHANGED dropped
     ELSE /\ Goto(Collector, "fregistration")
          /\ dropped' = (dropped \/ pc[Collector] = "xcheck")
          /\ UNCHANGED lock
  /\ UNCHANGED <<files, event, before, staged, tries, covered, acked, saved, written, left, boots>>

\* forgetSession removes the registration first, the request next and the lock
\* file last, then syncs the directories.
ForgetRegistration ==
  /\ pc[Collector] = "fregistration"
  /\ registered' = FALSE
  /\ disk' = [disk EXCEPT !.registered = Unsynced(@, FALSE)]
  /\ Goto(Collector, "frequest")
  /\ UNCHANGED <<request, lock, event, before, staged, tries, covered, acked, saved, written, dropped, left, boots>>

ForgetRequest ==
  /\ pc[Collector] = "frequest"
  /\ SetRequest(NoRequest)
  /\ Unlock
  /\ Goto(Collector, "fsync")
  /\ UNCHANGED <<registered, event, before, staged, tries, covered, acked, saved, written, dropped, left, boots>>

ForgetSync ==
  /\ pc[Collector] = "fsync"
  /\ disk' = [registered |-> {registered}, request |-> {request}]
  /\ Goto(Collector, "idle")
  /\ UNCHANGED <<registered, request, lock, event, before, staged, tries, covered, acked, saved, written, dropped, left, boots>>

-----------------------------------------------------------------------------
(* Failures                                                                *)

\* A process is killed (a harness ends a hook after two seconds).
Kill(p) ==
  /\ pc[p] \in Running
  /\ left.kill > 0
  /\ left' = [left EXCEPT !.kill = @ - 1]
  /\ Goto(p, IF p = Collector THEN "idle" ELSE "killed")
  /\ lock' = IF lock = p THEN Nobody ELSE lock
  /\ Clear(p)
  /\ covered' = IF p = Collector THEN NoRequest ELSE covered
  /\ UNCHANGED <<files, event, acked, saved, written, dropped, boots>>

\* Every process dies; of each file one of the values on its way to the disk
\* is left.
PowerLoss ==
  /\ left.power > 0
  /\ left' = [left EXCEPT !.power = @ - 1]
  /\ boots' = boots + 1
  /\ registered' \in disk.registered
  /\ request' \in disk.request
  /\ disk' = [registered |-> {registered'}, request |-> {request'}]
  /\ lock' = Nobody
  /\ pc' = [p \in Procs |-> IF pc[p] \notin Running THEN pc[p]
                            ELSE IF p = Collector THEN "idle" ELSE "killed"]
  /\ before' = [p \in Procs |-> NoRequest]
  /\ staged' = [p \in Procs |-> NoRequest]
  /\ tries' = [p \in Procs |-> 0]
  /\ covered' = NoRequest
  /\ UNCHANGED <<event, acked, saved, written, dropped>>

-----------------------------------------------------------------------------

\* One step of p's read-modify-write.
WriteStep(p) ==
  \/ TakeLock(p) \/ LockBusy(p)
  \/ Stage(p) \/ Check(p) \/ CheckFails(p) \/ Compare(p) \/ Discard(p)
  \/ StageHolding(p) \/ Rename(p) \/ SyncDir(p)

CollectorStep ==
  \/ Scan \/ Publish \/ PublishFails \/ CompleteRequest
  \/ Forget \/ ForgetCheck \/ ForgetRegistration \/ ForgetRequest \/ ForgetSync

Next ==
  \/ \E w \in Writers : Begin(w)
  \/ \E p \in Procs : WriteStep(p) \/ Kill(p)
  \/ CollectorStep
  \/ PowerLoss

Spec == Init /\ [][Next]_vars

\* A process inside a write goes on with it.
FairSpec == Spec /\ \A p \in Procs : WF_vars(WriteStep(p))

-----------------------------------------------------------------------------
(* Properties                                                              *)

ItemsOf(r) == IF r = NoRequest THEN {} ELSE r.items

AllItems == (UNION {ev.items : ev \in Events}) \union (UNION {r.items : r \in Legacy})

AllReasons == {ev.reason : ev \in Events} \union (UNION {r.reasons : r \in Legacy})

Contents == [items : SUBSET AllItems, reasons : SUBSET AllReasons, at : Nat, deferred : BOOLEAN]

Requests ==
  [items : SUBSET AllItems, reasons : SUBSET AllReasons, at : Nat, deferred : BOOLEAN,
   token : Tokens \union {NoToken}]

ASSUME RequestsAssumption ==
  /\ NoRequest \notin Requests \union Contents
  /\ \A ev \in Events : ev.at \in Nat /\ ev.deferred \in BOOLEAN
  /\ \A r \in Legacy : r \in Requests /\ r.token = NoToken

\* Types of the request, what each writer staged, and the attempts it made:
\* an overtaken writer stops at unlockedWriteAttempts.
TypeOK ==
  /\ registered \in BOOLEAN
  /\ request \in Requests \union {NoRequest}
  /\ disk \in [registered : SUBSET BOOLEAN, request : SUBSET (Requests \union {NoRequest})]
  /\ lock \in Procs \union {Nobody}
  /\ pc \in [Procs -> Finished \union Running \union {"idle"}]
  /\ event \in [Writers -> Events]
  /\ before \in [Procs -> Requests \union {NoRequest}]
  /\ staged \in [Procs -> Requests \union {NoRequest}]
  /\ tries \in [Procs -> 0 .. Attempts]
  /\ covered \in Requests \union {NoRequest}
  /\ acked \in SUBSET AllItems
  /\ saved \in SUBSET AllItems
  /\ written \in SUBSET saved
  /\ dropped \in BOOLEAN
  /\ left \in [kill : Nat, power : Nat]
  /\ boots \in Nat

\* Evidence of a save that returned is still pending or has been acknowledged,
\* whatever writers, acknowledgements and kills came in between; only
\* forgetting a session the configuration no longer publishes drops it
\* (writeUnderLock: a hook landing during a publication "leaves its evidence
\* pending"; ForgetIdleSession keeps a session that has work).  Across a power
\* loss this holds of the saves that wrote the file: the directory is synced
\* between the rename and the return, and no other writer's rename can take the
\* item out of the file again.
SavedEvidenceKept ==
  ~dropped => (IF boots = 0 THEN saved ELSE written) \subseteq ItemsOf(request) \union acked

\* What writeUnderLock's comment says of every save: before it returns, "the
\* directory is synced", so what it promised survives a power loss.  A save
\* that finds its event already in the file returns without that sync.
ReturnedSaveSurvives ==
  ~dropped => saved \subseteq ItemsOf(request) \union acked

\* Nothing is saved for a session that is not registered any more: no request
\* comes into being, and one that a forget left behind when it died, of whatever
\* content, is not added to (saveRequest: "its request would be an orphan nothing
\* ever reads").  It may still be given a token, completed or removed.
NothingSavedForgotten ==
  [][~registered /\ boots' = boots =>
       Content(request') \in {NoRequest, Content(request)}]_vars

\* A hook is never beaten by other writers: its save returns with the evidence
\* saved unless the session is gone, the lock stayed held for its whole wait,
\* or the harness killed it (ForHook).
HookSaveLands ==
  \A h \in Hooks :
    pc[h] = "stage" ~> pc[h] \in {"done", "unregistered", "busy", "killed"}

\* The staged write is a linearizable read-modify-write: up to a power loss
\* the file behaves like RequestRegister's, in which each save, completion
\* and forget is one atomic step.
Register == INSTANCE RequestRegister
  WITH Legacy <- {Content(r) : r \in Legacy},
       request <- IF registered THEN Content(request) ELSE NoRequest

ImplementsRegister == Register!Init /\ [][boots' = boots => Register!Next]_(Register!rvars)
=============================================================================
