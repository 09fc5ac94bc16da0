-------------------------- MODULE RequestWriteProofs --------------------------
(***************************************************************************)
(* Theorems of RequestWrite: types, that evidence a save promised is kept, *)
(* and that no request comes into being for a forgotten session.  What is  *)
(* decided under the request lock stays true until it is released, and a   *)
(* token names one request among all that are anywhere, so the collector   *)
(* acknowledges exactly what it published.  It follows that the staged      *)
(* write implements the atomic register.                                   *)
(***************************************************************************)
EXTENDS RequestWrite, TLAPS

\* Every request in a file, on its way to the disk, or in some process's memory.
Live ==
  {request, covered} \union disk.request
    \union {staged[p] : p \in Procs} \union {before[p] : p \in Procs}

\* A token names one request.
TokenNames ==
  \A a, b \in Live :
    a # NoRequest /\ b # NoRequest /\ a.token = b.token /\ a.token # NoToken => a = b

\* A process at a step under the lock holds it.
LockOwned == \A p \in Procs : pc[p] \in Holding => lock = p

\* Only hooks write holding the lock, and only the collector completes and forgets.
Places ==
  \A p \in Procs :
    /\ pc[p] \in {"hlock", "hcheck", "hstage", "hrename"} => p \in Hooks
    /\ pc[p] \in {"scanned", "clock", "complete", "flock", "xlock", "fcheck", "xcheck",
                  "fregistration", "frequest", "fsync"} => p = Collector

\* A save that passed its check under the lock has a registered session.
RegistrationSeen ==
  \A w \in Writers : pc[w] \in {"compare", "rename", "hstage", "hrename"} => registered

\* What is staged adds the event to what was read.
StagedAdds ==
  \A p \in Procs :
    /\ pc[p] \in {"lock", "check", "compare", "rename", "hrename"} /\ staged[p] # NoRequest =>
         /\ ItemsOf(before[p]) \subseteq staged[p].items
         /\ p = Collector => before[p] # NoRequest
    /\ pc[p] \in {"lock", "check", "compare", "rename", "hrename", "sync"} /\ staged[p] # NoRequest =>
         /\ staged[p].token # NoToken
         /\ p \in Writers => event[p].items \subseteq staged[p].items

\* What is staged is the event merged into what was read, or the same with a token.
StagedMerges ==
  \A p \in Procs :
    pc[p] \in {"lock", "check", "compare", "rename", "hrename"} /\ staged[p] # NoRequest =>
      Content(staged[p]) = IF p \in Writers
                           THEN Register!Accumulate(Content(before[p]), event[p])
                           ELSE Content(before[p])

\* Nothing is staged where what was read says it already, or nothing was read.
NothingToAdd ==
  \A p \in Procs :
    /\ pc[p] \in {"lock", "check", "compare"} /\ staged[p] = NoRequest =>
         /\ p = Collector => before[p] = NoRequest \/ before[p].token # NoToken
         /\ p \in Writers => before[p] # NoRequest /\ event[p].items \subseteq before[p].items
    /\ pc[p] \in {"hlock", "hcheck", "hstage"} => staged[p] = NoRequest

\* A writer about to rename has read what the file holds.
ReadIsCurrent ==
  \A p \in Procs :
    /\ pc[p] \in {"rename", "hrename"} => request = before[p]
    /\ pc[p] \in {"rename", "hrename", "sync"} => staged[p] # NoRequest

\* A writer between its rename and its return has its evidence in the file.
RenamedKept ==
  ~dropped =>
    \A p \in Procs : pc[p] = "sync" => staged[p].items \subseteq ItemsOf(request) \union acked

\* The collector acknowledges only what it published.
CoveredAcked ==
  /\ covered # NoRequest => covered.token # NoToken
  /\ pc[Collector] \in {"scanned", "clock", "complete"} => covered # NoRequest
  /\ pc[Collector] \in {"clock", "complete"} => covered.items \subseteq acked

\* A session that is forgotten while it is published has no work.
ForgottenIdle ==
  ~dropped /\ pc[Collector] \in {"fregistration", "frequest"} => request = NoRequest

\* The registration goes before the request.
RegistrationFirst == pc[Collector] = "frequest" => ~registered

\* SavedEvidenceKept, of everything a power loss may leave.
Kept ==
  /\ request \in disk.request
  /\ ~dropped =>
       /\ boots = 0 => saved \subseteq ItemsOf(request) \union acked
       /\ \A r \in disk.request : written \subseteq ItemsOf(r) \union acked

\* The inductive invariant.
IInv ==
  /\ TypeOK /\ TokenNames /\ LockOwned /\ Places /\ RegistrationSeen /\ StagedAdds
  /\ StagedMerges /\ RegistrationFirst /\ NothingToAdd /\ ReadIsCurrent /\ RenamedKept /\ CoveredAcked
  /\ ForgottenIdle /\ Kept

-----------------------------------------------------------------------------
(* Requests and tokens                                                     *)

\* local.ID: no request anywhere has the new token.
LEMMA FreshTokenIsFresh ==
  ASSUME Tokens \ LiveTokens # {}
  PROVE  /\ FreshToken \in Tokens /\ FreshToken # NoToken
         /\ \A r \in Live : r # NoRequest => r.token # FreshToken
<1>1. FreshToken \in Tokens /\ FreshToken \notin LiveTokens
  BY DEF FreshToken
<1>2. \A r \in Live : r # NoRequest => r.token \in LiveTokens
  BY DEF Live, LiveTokens, TokenOf
<1> QED  BY <1>1, <1>2, NumbersAssumption

\* The items and the reason of an event are among all there are.
LEMMA EventTyped ==
  ASSUME NEW ev \in Events
  PROVE  ev.items \subseteq AllItems /\ ev.reason \in AllReasons
BY DEF AllItems, AllReasons

\* What mergeRequest and EnsureRequestToken make of a request adds the event to
\* it, under a new token; where they make nothing, the event is there already.
LEMMA ChangeAdds ==
  ASSUME NEW p \in Procs, NEW r \in Requests \union {NoRequest},
         event \in [Writers -> Events], Tokens \ LiveTokens # {}
  PROVE  LET c == Change(p, r)
         IN  /\ c \in Requests \union {NoRequest}
             /\ c # NoRequest =>
                  /\ c.token = FreshToken /\ ItemsOf(r) \subseteq c.items
                  /\ p \in Writers => event[p].items \subseteq c.items
                  /\ Content(c) = IF p \in Writers THEN Register!Accumulate(Content(r), event[p])
                                  ELSE Content(r)
                  /\ p = Collector => r # NoRequest
             /\ c = NoRequest =>
                  /\ p = Collector => r = NoRequest \/ r.token # NoToken
                  /\ p \in Writers => r # NoRequest /\ event[p].items \subseteq r.items
<1>1. FreshToken \in Tokens
  BY FreshTokenIsFresh
<1>2. CASE p = Collector
  <2>1. p \notin Writers
    BY <1>2, ActorsAssumption
  <2>2. CASE r # NoRequest /\ r.token = NoToken
    <3>1. Change(p, r) = [r EXCEPT !.token = FreshToken] /\ r \in Requests
      BY <1>2, <2>2 DEF Change
    <3>2. /\ Change(p, r) \in Requests /\ Change(p, r).token = FreshToken
          /\ Change(p, r).items = r.items
      BY <1>1, <3>1 DEF Requests
    <3>3. Content(Change(p, r)) = Content(r)
      BY <2>2, <3>1, <3>2, RequestsAssumption DEF Content, Requests
    <3> QED  BY <2>1, <2>2, <3>2, <3>3, RequestsAssumption DEF ItemsOf
  <2>3. CASE ~(r # NoRequest /\ r.token = NoToken)
    BY <1>2, <2>1, <2>3 DEF Change
  <2> QED  BY <2>2, <2>3
<1>3. CASE p # Collector
  <2>1. event[p] \in Events
    BY <1>3 DEF Procs
  <2> DEFINE ev == event[p]
  <2>2. /\ ev.items \subseteq AllItems /\ ev.reason \in AllReasons
        /\ ev.at \in Nat /\ ev.deferred \in BOOLEAN
    BY <2>1, EventTyped, RequestsAssumption
  <2>3. CASE AddsNothing(r, ev)
    <3>1. Change(p, r) = NoRequest
      BY <1>3, <2>3 DEF Change
    <3> QED  BY <1>3, <2>3, <3>1 DEF AddsNothing
  <2>4. CASE ~AddsNothing(r, ev)
    <3>1. Change(p, r) = Merge(r, ev, FreshToken)
      BY <1>3, <2>4 DEF Change
    <3> HIDE DEF ev
    <3>2. Merge(r, ev, FreshToken) \in Requests
      <4>1. CASE r = NoRequest
        <5>1. {ev.reason} \in SUBSET AllReasons
          BY <2>2
        <5> QED  BY <1>1, <2>2, <4>1, <5>1 DEF Merge, Requests
      <4>2. CASE r # NoRequest
        <5>1. r \in Requests
          BY <4>2
        <5>2. r.items \union ev.items \in SUBSET AllItems
          BY <2>2, <5>1 DEF Requests
        <5>3. r.reasons \union {ev.reason} \in SUBSET AllReasons
          BY <2>2, <5>1 DEF Requests
        <5>4. (IF ~ev.deferred /\ ev.at > r.at THEN ev.at ELSE r.at) \in Nat
          BY <2>2, <5>1 DEF Requests
        <5>5. (r.deferred /\ ev.deferred) \in BOOLEAN
          OBVIOUS
        <5>6. FreshToken \in Tokens \union {NoToken}
          BY <1>1
        <5>7. Merge(r, ev, FreshToken) =
                [items |-> r.items \union ev.items, reasons |-> r.reasons \union {ev.reason},
                 at |-> IF ~ev.deferred /\ ev.at > r.at THEN ev.at ELSE r.at,
                 deferred |-> r.deferred /\ ev.deferred, token |-> FreshToken]
          BY <4>2 DEF Merge
        <5> QED  BY <5>2, <5>3, <5>4, <5>5, <5>6, <5>7 DEF Requests
      <4> QED  BY <4>1, <4>2
    <3>3. /\ Merge(r, ev, FreshToken).token = FreshToken
          /\ ItemsOf(r) \subseteq Merge(r, ev, FreshToken).items
          /\ ev.items \subseteq Merge(r, ev, FreshToken).items
      BY DEF Merge, ItemsOf
    <3>4. Content(Merge(r, ev, FreshToken)) = Register!Accumulate(Content(r), ev)
      <4>1. CASE r = NoRequest
        BY <3>2, <4>1, RequestsAssumption DEF Merge, Content, Register!Accumulate
      <4>2. CASE r # NoRequest
        <5>1. r \in Requests
          BY <4>2
        <5>2. Content(r) \in Contents
          BY <4>2, <5>1 DEF Content, Contents, Requests
        <5>3. Content(r) # NoRequest
          BY <5>2, RequestsAssumption
        <5> QED  BY <3>2, <4>2, <5>3, RequestsAssumption DEF Merge, Content, Register!Accumulate
      <4> QED  BY <4>1, <4>2
    <3>5. p \in Writers
      BY <1>3 DEF Procs
    <3>6. /\ Content(Change(p, r)) = Register!Accumulate(Content(r), event[p])
          /\ event[p].items \subseteq Change(p, r).items /\ ItemsOf(r) \subseteq Change(p, r).items
          /\ Change(p, r) \in Requests /\ Change(p, r).token = FreshToken
      BY <3>1, <3>2, <3>3, <3>4 DEF ev
    <3>7. Change(p, r) # NoRequest
      BY <3>6, RequestsAssumption
    <3> QED  BY <1>3, <3>5, <3>6, <3>7
  <2> QED  BY <2>3, <2>4
<1> QED  BY <1>2, <1>3

\* The step is p's: the others are where they were and remember what they did.
OthersStay(p) ==
  \A q \in Procs \ {p} : pc'[q] = pc[q] /\ before'[q] = before[q] /\ staged'[q] = staged[q]

\* Copying requests, and making one with a fresh token, keeps a token a name.
LEMMA TokensCopied ==
  ASSUME TokenNames, NEW p \in Procs, OthersStay(p), NEW n,
         n = NoRequest \/ \A r \in Live : r # NoRequest => r.token # n.token,
         request' \in Live \union {NoRequest, n}, covered' \in Live \union {NoRequest, n},
         disk'.request \subseteq Live \union {NoRequest, n},
         staged'[p] \in Live \union {NoRequest, n}, before'[p] \in Live \union {NoRequest, n}
  PROVE  TokenNames'
<1>1. \A q \in Procs : staged'[q] \in Live \union {NoRequest, n} /\ before'[q] \in Live \union {NoRequest, n}
  BY DEF OthersStay, Live
<1>2. Live' \subseteq Live \union {NoRequest, n}
  BY <1>1 DEF Live
<1> QED  BY <1>2 DEF TokenNames

LEMMA LiveMembers ==
  ASSUME request \in disk.request, NEW p \in Procs
  PROVE  /\ request \in Live /\ covered \in Live /\ disk.request \subseteq Live
         /\ staged[p] \in Live /\ before[p] \in Live
BY DEF Live

\* What a process remembers is typed when it forgets it.
LEMMA ClearTyped ==
  ASSUME TypeOK, NEW p \in Procs, Clear(p)
  PROVE  /\ before' \in [Procs -> Requests \union {NoRequest}]
         /\ staged' \in [Procs -> Requests \union {NoRequest}]
         /\ tries' \in [Procs -> 0 .. Attempts]
         /\ staged'[p] = NoRequest /\ before'[p] = NoRequest
         /\ \A q \in Procs \ {p} : staged'[q] = staged[q] /\ before'[q] = before[q]
<1>1. 0 \in 0 .. Attempts
  BY NumbersAssumption
<1> QED  BY <1>1 DEF TypeOK, Clear

\* A process moves to a step there is.
LEMMA GotoTyped ==
  ASSUME TypeOK, NEW p \in Procs, NEW step \in Finished \union Running \union {"idle"}, Goto(p, step)
  PROVE  /\ pc' \in [Procs -> Finished \union Running \union {"idle"}]
         /\ pc'[p] = step /\ \A q \in Procs \ {p} : pc'[q] = pc[q]
BY DEF TypeOK, Goto

-----------------------------------------------------------------------------
(* Every action keeps the invariant                                        *)

\* Whoever takes the lock finds nobody under it.
LEMMA TakeLockInv ==
  ASSUME IInv, NEW p \in Procs, TakeLock(p)
  PROVE  IInv'
<1>1. /\ request' = request /\ registered' = registered /\ disk' = disk
      /\ acked' = acked /\ saved' = saved /\ written' = written /\ dropped' = dropped /\ boots' = boots
      /\ event' = event /\ covered' = covered
  BY DEF TakeLock, files, Unlock, SetRequest, Fail, Return
<1>2. OthersStay(p) /\ staged'[p] = staged[p] /\ before'[p] = before[p]
  BY ActorsAssumption DEF IInv, TypeOK, OthersStay, TakeLock, Goto
<1>3. lock = Nobody /\ lock' = p
  BY DEF TakeLock
<1>4. \/ pc[p] = "lock" /\ pc'[p] = "check"
      \/ pc[p] = "hlock" /\ pc'[p] = "hcheck"
      \/ pc[p] = "clock" /\ pc'[p] = "complete"
      \/ pc[p] = "flock" /\ pc'[p] = "fcheck"
      \/ pc[p] = "xlock" /\ pc'[p] = "xcheck"
  BY DEF IInv, TypeOK, TakeLock, Goto, LockWaits, AfterLock
<1>5. \A q \in Procs : q # lock
  BY <1>3, ActorsAssumption
<1>6. TypeOK'
  BY <1>1, <1>2, <1>3, <1>4, <1>5 DEF IInv, TypeOK, TakeLock, Goto, Finished, Running, Holding,
     LockWaits, AfterLock
<1>7. TokenNames'
  BY <1>1, <1>2, <1>3, <1>4, <1>5, TokensCopied, LiveMembers DEF IInv, Kept
<1>8. LockOwned'
  BY <1>1, <1>2, <1>3, <1>4, <1>5 DEF IInv, LockOwned, Holding, OthersStay
<1>9. CoveredAcked'
  BY <1>1, <1>2, <1>3, <1>4, <1>5 DEF IInv, CoveredAcked, Procs, Places, OthersStay
<1>10. Places' /\ RegistrationSeen' /\ StagedAdds' /\ StagedMerges' /\ RegistrationFirst' /\
   NothingToAdd' /\ ReadIsCurrent' /\ RenamedKept' /\ ForgottenIdle' /\ Kept'
  BY <1>1, <1>2, <1>3, <1>4, <1>5 DEF IInv, Places, RegistrationSeen, StagedAdds, StagedMerges,
     RegistrationFirst, NothingToAdd, ReadIsCurrent, RenamedKept, ForgottenIdle, Kept, Procs,
     ItemsOf, OthersStay
<1> QED  BY <1>6, <1>7, <1>8, <1>9, <1>10 DEF IInv

\* A wait that ends forgets what was staged.
LEMMA LockBusyInv ==
  ASSUME IInv, NEW p \in Procs, LockBusy(p)
  PROVE  IInv'
<1>1. /\ request' = request /\ registered' = registered /\ disk' = disk
      /\ acked' = acked /\ saved' = saved /\ written' = written /\ dropped' = dropped /\ boots' = boots
      /\ event' = event /\ lock' = lock
  BY DEF LockBusy, files, Unlock, SetRequest, Fail, Return
<1>2. /\ OthersStay(p) /\ staged'[p] = NoRequest /\ before'[p] = NoRequest
      /\ pc'[p] = IF p = Collector THEN "idle" ELSE "busy"
      /\ covered' = IF p = Collector THEN NoRequest ELSE covered
  BY ActorsAssumption DEF IInv, TypeOK, OthersStay, LockBusy, Goto, Clear
<1>3. /\ before' \in [Procs -> Requests \union {NoRequest}] /\ staged' \in [Procs -> Requests \union {NoRequest}]
      /\ tries' \in [Procs -> 0 .. Attempts]
  BY ClearTyped DEF IInv, LockBusy
<1>4. TypeOK'
  BY <1>1, <1>2, <1>3 DEF IInv, TypeOK, LockBusy, Goto, Finished
<1>5. TokenNames'
  BY <1>1, <1>2, <1>3, TokensCopied, LiveMembers DEF IInv, Kept
<1>6. CoveredAcked'
  BY <1>1, <1>2, <1>3 DEF IInv, CoveredAcked, Procs, OthersStay
<1>7. LockOwned' /\ Places' /\ RegistrationSeen' /\ StagedAdds' /\ StagedMerges' /\
   RegistrationFirst' /\ NothingToAdd' /\ ReadIsCurrent' /\ RenamedKept' /\ ForgottenIdle' /\
   Kept'
  BY <1>1, <1>2, <1>3 DEF IInv, LockOwned, Places, RegistrationSeen, StagedAdds, StagedMerges,
     RegistrationFirst, NothingToAdd, ReadIsCurrent, RenamedKept, ForgottenIdle, Kept, Holding,
     Procs, ItemsOf, OthersStay
<1> QED  BY <1>4, <1>5, <1>6, <1>7 DEF IInv

\* A save starts with nothing read.
LEMMA BeginInv ==
  ASSUME IInv, NEW p \in Writers, Begin(p)
  PROVE  IInv'
<1>1. /\ request' = request /\ registered' = registered /\ disk' = disk
      /\ acked' = acked /\ saved' = saved /\ written' = written /\ dropped' = dropped /\ boots' = boots
      /\ event' = event /\ lock' = lock /\ covered' = covered /\ staged' = staged /\ before' = before
  BY DEF Begin, files, Unlock, SetRequest, Fail, Return
<1>2. p \in Procs /\ p # Collector
  BY ActorsAssumption DEF Procs
<1>3. OthersStay(p) /\ pc'[p] = "stage" /\ staged'[p] = staged[p] /\ before'[p] = before[p]
  BY <1>2 DEF IInv, TypeOK, OthersStay, Begin, Goto
<1>4. TypeOK'
  BY <1>1, <1>2, <1>3 DEF IInv, TypeOK, Begin, Goto, Finished, Running
<1>5. TokenNames'
  BY <1>1, <1>2, <1>3, TokensCopied, LiveMembers DEF IInv, Kept
<1>6. CoveredAcked'
  BY <1>1, <1>2, <1>3 DEF IInv, CoveredAcked, Procs, OthersStay
<1>7. LockOwned' /\ Places' /\ RegistrationSeen' /\ StagedAdds' /\ StagedMerges' /\
   RegistrationFirst' /\ NothingToAdd' /\ ReadIsCurrent' /\ RenamedKept' /\ ForgottenIdle' /\
   Kept'
  BY <1>1, <1>2, <1>3 DEF IInv, LockOwned, Places, RegistrationSeen, StagedAdds, StagedMerges,
     RegistrationFirst, NothingToAdd, ReadIsCurrent, RenamedKept, ForgottenIdle, Kept, Holding,
     Procs, ItemsOf, OthersStay
<1> QED  BY <1>4, <1>5, <1>6, <1>7 DEF IInv

\* Staging is outside the lock: it changes what p remembers only.
LEMMA StageInv ==
  ASSUME IInv, NEW p \in Procs, Stage(p)
  PROVE  IInv'
<1>1. /\ request' = request /\ registered' = registered /\ disk' = disk
      /\ acked' = acked /\ saved' = saved /\ written' = written /\ dropped' = dropped /\ boots' = boots
      /\ event' = event /\ lock' = lock /\ covered' = covered
  BY DEF Stage, files, Unlock, SetRequest, Fail, Return
<1>2. /\ OthersStay(p) /\ pc'[p] = "lock"
      /\ staged'[p] = Change(p, request) /\ before'[p] = request
  BY ActorsAssumption DEF IInv, TypeOK, OthersStay, Stage, Goto
<1>3. request \in Requests \union {NoRequest} /\ event \in [Writers -> Events] /\ Tokens \ LiveTokens # {}
  BY DEF IInv, TypeOK, Stage
<1>4. LET c == Change(p, request)
      IN  /\ c \in Requests \union {NoRequest}
          /\ c # NoRequest =>
               /\ c.token = FreshToken /\ ItemsOf(request) \subseteq c.items
               /\ p \in Writers => event[p].items \subseteq c.items
               /\ Content(c) = IF p \in Writers
                               THEN Register!Accumulate(Content(request), event[p])
                               ELSE Content(request)
               /\ p = Collector => request # NoRequest
          /\ c = NoRequest =>
               /\ p = Collector => request = NoRequest \/ request.token # NoToken
               /\ p \in Writers => request # NoRequest /\ event[p].items \subseteq request.items
  BY <1>3, ChangeAdds
<1>5. FreshToken # NoToken /\ \A r \in Live : r # NoRequest => r.token # FreshToken
  BY <1>3, FreshTokenIsFresh
<1>6. TypeOK'
  BY <1>1, <1>2, <1>3, <1>4, <1>5 DEF IInv, TypeOK, Stage, Goto, Running, LockWaits, AfterLock
<1>7. TokenNames'
  BY <1>1, <1>2, <1>3, <1>4, <1>5, TokensCopied, LiveMembers DEF IInv, Kept
<1>8. LockOwned'
  BY <1>1, <1>2, <1>3, <1>4, <1>5 DEF IInv, LockOwned, Holding, OthersStay
<1>9. StagedAdds'
  BY <1>1, <1>2, <1>3, <1>4, <1>5 DEF IInv, StagedAdds, ItemsOf, OthersStay
<1>10. StagedMerges'
  BY <1>1, <1>2, <1>3, <1>4, <1>5 DEF IInv, StagedMerges, OthersStay
<1>11. RegistrationFirst'
  BY <1>1, <1>2, <1>3, <1>4, <1>5 DEF IInv, RegistrationFirst, Procs, OthersStay
<1>12. NothingToAdd'
  BY <1>1, <1>2, <1>3, <1>4, <1>5 DEF IInv, NothingToAdd, OthersStay
<1>13. CoveredAcked'
  BY <1>1, <1>2, <1>3, <1>4, <1>5 DEF IInv, CoveredAcked, Procs, OthersStay
<1>14. Places' /\ RegistrationSeen' /\ ReadIsCurrent' /\ RenamedKept' /\ ForgottenIdle' /\
   Kept'
  BY <1>1, <1>2, <1>3, <1>4, <1>5 DEF IInv, Places, RegistrationSeen, ReadIsCurrent,
     RenamedKept, ForgottenIdle, Kept, Procs, ItemsOf, OthersStay
<1> QED  BY <1>6, <1>7, <1>8, <1>9, <1>10, <1>11, <1>12, <1>13, <1>14 DEF IInv

\* The registration is seen with the lock held.
LEMMA CheckInv ==
  ASSUME IInv, NEW p \in Procs, Check(p)
  PROVE  IInv'
<1>1. /\ request' = request /\ registered' = registered /\ disk' = disk
      /\ acked' = acked /\ saved' = saved /\ written' = written /\ dropped' = dropped /\ boots' = boots
      /\ event' = event /\ lock' = lock /\ covered' = covered
  BY DEF Check, files, Unlock, SetRequest, Fail, Return
<1>2. OthersStay(p) /\ staged'[p] = staged[p] /\ before'[p] = before[p]
  BY ActorsAssumption DEF IInv, TypeOK, OthersStay, Check, Goto
<1>3. /\ p = Collector \/ registered
      /\ \/ pc[p] = "check" /\ pc'[p] = "compare"
         \/ pc[p] = "hcheck" /\ pc'[p] = "hstage"
  BY DEF IInv, TypeOK, Check, RegistrationCheck, Goto
<1>4. Collector \notin Writers
  BY ActorsAssumption
<1>5. TypeOK'
  BY <1>1, <1>2, <1>3, <1>4 DEF IInv, TypeOK, Check, Goto, Running, Holding
<1>6. TokenNames'
  BY <1>1, <1>2, <1>3, <1>4, TokensCopied, LiveMembers DEF IInv, Kept
<1>7. LockOwned'
  BY <1>1, <1>2, <1>3, <1>4 DEF IInv, LockOwned, Holding, OthersStay
<1>8. Places'
  BY <1>1, <1>2, <1>3, <1>4 DEF IInv, Places, OthersStay
<1>9. RegistrationSeen'
  BY <1>1, <1>2, <1>3, <1>4 DEF IInv, RegistrationSeen, Procs, OthersStay
<1>10. StagedAdds'
  BY <1>1, <1>2, <1>3, <1>4 DEF IInv, StagedAdds, ItemsOf, OthersStay
<1>11. StagedMerges'
  BY <1>1, <1>2, <1>3, <1>4 DEF IInv, StagedMerges, OthersStay
<1>12. RegistrationFirst'
  BY <1>1, <1>2, <1>3, <1>4 DEF IInv, RegistrationFirst, Procs, OthersStay
<1>13. NothingToAdd'
  BY <1>1, <1>2, <1>3, <1>4 DEF IInv, NothingToAdd, OthersStay
<1>14. ReadIsCurrent'
  BY <1>1, <1>2, <1>3, <1>4 DEF IInv, ReadIsCurrent, OthersStay
<1>15. CoveredAcked'
  BY <1>1, <1>2, <1>3, <1>4 DEF IInv, CoveredAcked, Procs, OthersStay
<1>16. RenamedKept' /\ ForgottenIdle' /\ Kept'
  BY <1>1, <1>2, <1>3, <1>4 DEF IInv, RenamedKept, ForgottenIdle, Kept, ItemsOf, Procs,
     OthersStay
<1> QED  BY <1>5, <1>6, <1>7, <1>8, <1>9, <1>10, <1>11, <1>12, <1>13, <1>14, <1>15, <1>16 DEF IInv

\* A save of a forgotten session ends.
LEMMA CheckFailsInv ==
  ASSUME IInv, NEW p \in Procs, CheckFails(p)
  PROVE  IInv'
<1>1. /\ request' = request /\ registered' = registered /\ disk' = disk
      /\ acked' = acked /\ saved' = saved /\ written' = written /\ dropped' = dropped /\ boots' = boots
      /\ event' = event /\ covered' = covered
  BY DEF CheckFails, files, Unlock, SetRequest, Fail, Return
<1>2. /\ OthersStay(p) /\ staged'[p] = NoRequest /\ before'[p] = NoRequest
      /\ pc'[p] \in {"idle", "unregistered"}
      /\ lock' = Nobody /\ pc[p] \in Holding
  BY ActorsAssumption DEF IInv, TypeOK, OthersStay, CheckFails, Fail, Goto, Clear, Unlock,
     Holding
<1>3. /\ before' \in [Procs -> Requests \union {NoRequest}] /\ staged' \in [Procs -> Requests \union {NoRequest}]
      /\ tries' \in [Procs -> 0 .. Attempts]
  BY ClearTyped DEF IInv, CheckFails, Fail
<1>4. TypeOK'
  BY <1>1, <1>2, <1>3 DEF IInv, TypeOK, CheckFails, Fail, Goto, Unlock, files, Finished,
     Running
<1>5. TokenNames'
  BY <1>1, <1>2, <1>3, TokensCopied, LiveMembers DEF IInv, Kept
<1>6. LockOwned'
  BY <1>1, <1>2, <1>3 DEF IInv, LockOwned, Holding, OthersStay
<1>7. CoveredAcked'
  BY <1>1, <1>2, <1>3 DEF IInv, CoveredAcked, Procs, OthersStay
<1>8. Places' /\ RegistrationSeen' /\ StagedAdds' /\ StagedMerges' /\ RegistrationFirst' /\
   NothingToAdd' /\ ReadIsCurrent' /\ RenamedKept' /\ ForgottenIdle' /\ Kept'
  BY <1>1, <1>2, <1>3 DEF IInv, Places, RegistrationSeen, StagedAdds, StagedMerges,
     RegistrationFirst, NothingToAdd, ReadIsCurrent, RenamedKept, ForgottenIdle, Kept, Procs,
     ItemsOf, OthersStay
<1> QED  BY <1>4, <1>5, <1>6, <1>7, <1>8 DEF IInv

\* What is compared under the lock stays what was read.
LEMMA CompareToRenameInv ==
  ASSUME IInv, NEW p \in Procs, staged[p] # NoRequest, Compare(p)
  PROVE  IInv'
<1>1. /\ request' = request /\ registered' = registered /\ disk' = disk /\ event' = event
      /\ acked' = acked /\ dropped' = dropped /\ boots' = boots /\ left' = left
      /\ lock' = lock /\ before' = before /\ staged' = staged /\ tries' = tries
      /\ covered' = covered /\ saved' = saved /\ written' = written
  BY DEF Compare, files
<1>2. /\ pc[p] = "compare" /\ pc'[p] = "rename" /\ request = before[p] /\ OthersStay(p)
      /\ pc' \in [Procs -> Finished \union Running \union {"idle"}]
  BY GotoTyped DEF IInv, TypeOK, OthersStay, Compare, Overtaken, Running, Holding, Goto
<1>3. staged'[p] = staged[p] /\ before'[p] = before[p]
  BY <1>1
<1>4. TypeOK'
  BY <1>1, <1>2, <1>3 DEF IInv, TypeOK
<1>5. TokenNames'
  BY <1>1, <1>2, <1>3, TokensCopied, LiveMembers DEF IInv, Kept
<1>6. LockOwned'
  BY <1>1, <1>2, <1>3 DEF IInv, LockOwned, Holding, OthersStay
<1>7. Places'
  BY <1>1, <1>2, <1>3 DEF IInv, Places, OthersStay
<1>8. RegistrationSeen'
  BY <1>1, <1>2, <1>3 DEF IInv, RegistrationSeen, Procs, OthersStay
<1>9. StagedAdds'
  BY <1>1, <1>2, <1>3 DEF IInv, StagedAdds, ItemsOf, OthersStay
<1>10. StagedMerges'
  BY <1>1, <1>2, <1>3 DEF IInv, StagedMerges, OthersStay
<1>11. RegistrationFirst'
  BY <1>1, <1>2, <1>3 DEF IInv, RegistrationFirst, Procs, OthersStay
<1>12. NothingToAdd'
  BY <1>1, <1>2, <1>3 DEF IInv, NothingToAdd, OthersStay
<1>13. ReadIsCurrent'
  BY <1>1, <1>2, <1>3 DEF IInv, ReadIsCurrent, OthersStay
<1>14. CoveredAcked'
  BY <1>1, <1>2, <1>3 DEF IInv, CoveredAcked, Procs, OthersStay
<1>15. Kept'
  BY <1>1, <1>2, <1>3 DEF IInv, Kept, ItemsOf, OthersStay
<1>16. RenamedKept' /\ ForgottenIdle'
  BY <1>1, <1>2, <1>3 DEF IInv, RenamedKept, ForgottenIdle, ItemsOf, Procs, OthersStay
<1> QED  BY <1>4, <1>5, <1>6, <1>7, <1>8, <1>9, <1>10, <1>11, <1>12, <1>13, <1>14, <1>15, <1>16 DEF IInv

\* A save that adds nothing promises what is in the file.
LEMMA CompareReturnsInv ==
  ASSUME IInv, NEW p \in Procs, staged[p] = NoRequest, Compare(p)
  PROVE  IInv'
<1>1. /\ request' = request /\ registered' = registered /\ disk' = disk /\ event' = event
      /\ acked' = acked /\ dropped' = dropped /\ boots' = boots /\ left' = left
  BY DEF Compare, files
<1>2. lock' = Nobody /\ pc[p] = "compare" /\ request = before[p]
  BY DEF Compare, Overtaken, Unlock
<1>3. /\ p = Collector => covered' = request /\ pc'[p] \in {"idle", "scanned"} /\ (pc'[p] = "scanned" => request # NoRequest)
      /\ p # Collector => covered' = covered /\ pc'[p] = "done"
      /\ p = Collector => saved' = saved
      /\ p # Collector => saved' = saved \union event[p].items
      /\ written' = written
  BY <1>2 DEF IInv, TypeOK, Compare, Return, Goto
<1>4. /\ before' \in [Procs -> Requests \union {NoRequest}] /\ staged' \in [Procs -> Requests \union {NoRequest}]
      /\ tries' \in [Procs -> 0 .. Attempts] /\ pc' \in [Procs -> Finished \union Running \union {"idle"}]
      /\ OthersStay(p) /\ staged'[p] = NoRequest /\ before'[p] = NoRequest
  BY ClearTyped, GotoTyped DEF IInv, TypeOK, OthersStay, Compare, Return, Goto, Finished,
     Running
<1>5. p \in Writers \/ p = Collector
  BY DEF Procs
<1>6. /\ p = Collector => request = NoRequest \/ request.token # NoToken
      /\ p \in Writers => request # NoRequest /\ event[p].items \subseteq request.items
  BY <1>2 DEF IInv, NothingToAdd
<1>7. p # Collector => event[p].items \subseteq AllItems
  BY <1>5, EventTyped DEF IInv, TypeOK
<1>8. TypeOK'
  BY <1>1, <1>2, <1>3, <1>4, <1>5, <1>6, <1>7 DEF IInv, TypeOK
<1>9. TokenNames'
  BY <1>1, <1>2, <1>3, <1>4, <1>5, <1>6, <1>7, TokensCopied, LiveMembers DEF IInv, Kept
<1>10. LockOwned'
  BY <1>1, <1>2, <1>3, <1>4, <1>5, <1>6, <1>7 DEF IInv, LockOwned, Holding, OthersStay
<1>11. Places'
  BY <1>1, <1>2, <1>3, <1>4, <1>5, <1>6, <1>7 DEF IInv, Places, OthersStay
<1>12. RegistrationSeen'
  BY <1>1, <1>2, <1>3, <1>4, <1>5, <1>6, <1>7 DEF IInv, RegistrationSeen, Procs, OthersStay
<1>13. StagedAdds'
  BY <1>1, <1>2, <1>3, <1>4, <1>5, <1>6, <1>7 DEF IInv, StagedAdds, ItemsOf, OthersStay
<1>14. StagedMerges'
  BY <1>1, <1>2, <1>3, <1>4, <1>5, <1>6, <1>7 DEF IInv, StagedMerges, OthersStay
<1>15. RegistrationFirst'
  BY <1>1, <1>2, <1>3, <1>4, <1>5, <1>6, <1>7 DEF IInv, RegistrationFirst, Procs, OthersStay
<1>16. NothingToAdd'
  BY <1>1, <1>2, <1>3, <1>4, <1>5, <1>6, <1>7 DEF IInv, NothingToAdd, OthersStay
<1>17. ReadIsCurrent'
  BY <1>1, <1>2, <1>3, <1>4, <1>5, <1>6, <1>7 DEF IInv, ReadIsCurrent, OthersStay
<1>18. RenamedKept'
  BY <1>1, <1>2, <1>3, <1>4, <1>5, <1>6, <1>7 DEF IInv, RenamedKept, ItemsOf, OthersStay
<1>19. CoveredAcked'
  BY <1>1, <1>2, <1>3, <1>4, <1>5, <1>6, <1>7 DEF IInv, CoveredAcked, Procs, OthersStay
<1>20. ForgottenIdle'
  BY <1>1, <1>2, <1>3, <1>4, <1>5, <1>6, <1>7 DEF IInv, ForgottenIdle, Procs, OthersStay
<1>21. Kept'
  BY <1>1, <1>2, <1>3, <1>4, <1>5, <1>6, <1>7 DEF IInv, Kept, ItemsOf, OthersStay
<1> QED  BY <1>8, <1>9, <1>10, <1>11, <1>12, <1>13, <1>14, <1>15, <1>16, <1>17, <1>18, <1>19, <1>20, <1>21 DEF IInv

\* An overtaken writer forgets what it staged.
LEMMA DiscardInv ==
  ASSUME IInv, NEW p \in Procs, Discard(p)
  PROVE  IInv'
<1>1. /\ request' = request /\ registered' = registered /\ disk' = disk /\ event' = event
      /\ acked' = acked /\ dropped' = dropped /\ boots' = boots /\ left' = left
      /\ covered' = covered /\ saved' = saved /\ written' = written
  BY DEF Discard, Fail, files
<1>2. lock' = Nobody /\ pc[p] = "compare"
  BY DEF Discard, Unlock
<1>3. /\ pc'[p] \in {"stage", "hlock", "overtaken", "idle"} /\ (pc'[p] = "hlock" => p \in Hooks)
      /\ \A q \in Procs \ {p} : pc'[q] = pc[q]
  BY DEF IInv, TypeOK, Discard, NextAttempt, Fail, Goto
<1>4. staged'[p] = NoRequest /\ before'[p] = NoRequest /\ OthersStay(p)
  BY <1>3, ClearTyped DEF IInv, TypeOK, OthersStay, Discard, Fail
<1>5. /\ before' \in [Procs -> Requests \union {NoRequest}] /\ staged' \in [Procs -> Requests \union {NoRequest}]
      /\ tries' \in [Procs -> 0 .. Attempts] /\ pc' \in [Procs -> Finished \union Running \union {"idle"}]
  BY <1>2, ClearTyped, NumbersAssumption DEF IInv, TypeOK, Discard, NextAttempt, Fail, Goto,
     Finished, Running, LockWaits, AfterLock
<1>6. TypeOK'
  BY <1>1, <1>2, <1>3, <1>4, <1>5 DEF IInv, TypeOK
<1>7. TokenNames'
  BY <1>1, <1>2, <1>3, <1>4, <1>5, TokensCopied, LiveMembers DEF IInv, Kept
<1>8. LockOwned'
  BY <1>1, <1>2, <1>3, <1>4, <1>5 DEF IInv, LockOwned, Holding, OthersStay
<1>9. Places'
  BY <1>1, <1>2, <1>3, <1>4, <1>5 DEF IInv, Places, OthersStay
<1>10. StagedAdds'
  BY <1>1, <1>2, <1>3, <1>4, <1>5 DEF IInv, StagedAdds, ItemsOf, OthersStay
<1>11. StagedMerges'
  BY <1>1, <1>2, <1>3, <1>4, <1>5 DEF IInv, StagedMerges, OthersStay
<1>12. RegistrationFirst'
  BY <1>1, <1>2, <1>3, <1>4, <1>5 DEF IInv, RegistrationFirst, Procs, OthersStay
<1>13. NothingToAdd'
  BY <1>1, <1>2, <1>3, <1>4, <1>5 DEF IInv, NothingToAdd, OthersStay
<1>14. CoveredAcked'
  BY <1>1, <1>2, <1>3, <1>4, <1>5 DEF IInv, CoveredAcked, Procs, OthersStay
<1>15. RegistrationSeen' /\ ReadIsCurrent' /\ RenamedKept' /\ ForgottenIdle' /\ Kept'
  BY <1>1, <1>2, <1>3, <1>4, <1>5 DEF IInv, RegistrationSeen, ReadIsCurrent, RenamedKept,
     ForgottenIdle, Kept, Procs, ItemsOf, OthersStay
<1> QED  BY <1>6, <1>7, <1>8, <1>9, <1>10, <1>11, <1>12, <1>13, <1>14, <1>15 DEF IInv

\* A hook stages what the file holds, with the lock held.
LEMMA StageHoldingInv ==
  ASSUME IInv, NEW p \in Procs, Change(p, request) # NoRequest, StageHolding(p)
  PROVE  IInv'
<1>1. /\ request' = request /\ registered' = registered /\ disk' = disk /\ event' = event
      /\ acked' = acked /\ dropped' = dropped /\ boots' = boots /\ left' = left
      /\ lock' = lock /\ tries' = tries /\ covered' = covered /\ saved' = saved /\ written' = written
  BY DEF StageHolding, files
<1>2. p \in Hooks /\ p \in Writers /\ p # Collector /\ pc[p] = "hstage" /\ lock = p
  BY ActorsAssumption DEF IInv, Places, LockOwned, Holding, StageHolding, Writers, Procs
<1>3. /\ pc'[p] = "hrename" /\ staged'[p] = Change(p, request) /\ before'[p] = request /\ OthersStay(p)
      /\ pc' \in [Procs -> Finished \union Running \union {"idle"}]
  BY GotoTyped DEF IInv, TypeOK, OthersStay, StageHolding, Running, Holding, Goto
<1>4. LET c == Change(p, request)
      IN  /\ c \in Requests \union {NoRequest}
          /\ c # NoRequest =>
               /\ c.token = FreshToken /\ ItemsOf(request) \subseteq c.items
               /\ p \in Writers => event[p].items \subseteq c.items
               /\ Content(c) = IF p \in Writers
                               THEN Register!Accumulate(Content(request), event[p])
                               ELSE Content(request)
               /\ p = Collector => request # NoRequest
          /\ c = NoRequest =>
               /\ p = Collector => request = NoRequest \/ request.token # NoToken
               /\ p \in Writers => request # NoRequest /\ event[p].items \subseteq request.items
  BY ChangeAdds DEF IInv, TypeOK, StageHolding
<1>5. FreshToken # NoToken /\ \A r \in Live : r # NoRequest => r.token # FreshToken
  BY FreshTokenIsFresh DEF StageHolding
<1>6. /\ before' \in [Procs -> Requests \union {NoRequest}] /\ staged' \in [Procs -> Requests \union {NoRequest}]
  BY <1>4 DEF IInv, TypeOK, StageHolding
<1>7. TypeOK'
  BY <1>1, <1>2, <1>3, <1>4, <1>5, <1>6 DEF IInv, TypeOK
<1>8. TokenNames'
  BY <1>1, <1>2, <1>3, <1>4, <1>5, <1>6, TokensCopied, LiveMembers DEF IInv, Kept
<1>9. LockOwned'
  BY <1>1, <1>2, <1>3, <1>4, <1>5, <1>6 DEF IInv, LockOwned, Holding, OthersStay
<1>10. Places'
  BY <1>1, <1>2, <1>3, <1>4, <1>5, <1>6 DEF IInv, Places, OthersStay
<1>11. RegistrationSeen'
  BY <1>1, <1>2, <1>3, <1>4, <1>5, <1>6 DEF IInv, RegistrationSeen, Procs, OthersStay
<1>12. StagedAdds'
  BY <1>1, <1>2, <1>3, <1>4, <1>5, <1>6 DEF IInv, StagedAdds, ItemsOf, OthersStay
<1>13. StagedMerges'
  BY <1>1, <1>2, <1>3, <1>4, <1>5, <1>6 DEF IInv, StagedMerges, OthersStay
<1>14. RegistrationFirst'
  BY <1>1, <1>2, <1>3, <1>4, <1>5, <1>6 DEF IInv, RegistrationFirst, Procs, OthersStay
<1>15. NothingToAdd'
  BY <1>1, <1>2, <1>3, <1>4, <1>5, <1>6 DEF IInv, NothingToAdd, OthersStay
<1>16. ReadIsCurrent'
  BY <1>1, <1>2, <1>3, <1>4, <1>5, <1>6 DEF IInv, ReadIsCurrent, OthersStay
<1>17. CoveredAcked'
  BY <1>1, <1>2, <1>3, <1>4, <1>5, <1>6 DEF IInv, CoveredAcked, Procs, OthersStay
<1>18. ForgottenIdle'
  BY <1>1, <1>2, <1>3, <1>4, <1>5, <1>6 DEF IInv, ForgottenIdle, Procs, OthersStay
<1>19. RenamedKept' /\ Kept'
  BY <1>1, <1>2, <1>3, <1>4, <1>5, <1>6 DEF IInv, RenamedKept, Kept, ItemsOf, OthersStay
<1> QED  BY <1>7, <1>8, <1>9, <1>10, <1>11, <1>12, <1>13, <1>14, <1>15, <1>16, <1>17, <1>18, <1>19 DEF IInv

\* A hook whose event is in the file by then promises it.
LEMMA StageHoldingReturnsInv ==
  ASSUME IInv, NEW p \in Procs, Change(p, request) = NoRequest, StageHolding(p)
  PROVE  IInv'
<1>1. /\ request' = request /\ registered' = registered /\ disk' = disk /\ event' = event
      /\ acked' = acked /\ dropped' = dropped /\ boots' = boots /\ left' = left
  BY DEF StageHolding, files
<1>2. p \in Hooks /\ p \in Writers /\ p # Collector /\ pc[p] = "hstage" /\ lock = p
  BY ActorsAssumption DEF IInv, Places, LockOwned, Holding, StageHolding, Writers, Procs
<1>3. LET c == Change(p, request)
      IN  /\ c \in Requests \union {NoRequest}
          /\ c # NoRequest =>
               /\ c.token = FreshToken /\ ItemsOf(request) \subseteq c.items
               /\ p \in Writers => event[p].items \subseteq c.items
               /\ Content(c) = IF p \in Writers
                               THEN Register!Accumulate(Content(request), event[p])
                               ELSE Content(request)
               /\ p = Collector => request # NoRequest
          /\ c = NoRequest =>
               /\ p = Collector => request = NoRequest \/ request.token # NoToken
               /\ p \in Writers => request # NoRequest /\ event[p].items \subseteq request.items
  BY ChangeAdds DEF IInv, TypeOK, StageHolding
<1>4. /\ lock' = Nobody /\ covered' = covered /\ saved' = saved \union event[p].items /\ written' = written
  BY <1>2 DEF IInv, NothingToAdd, StageHolding, Return, Unlock
<1>5. /\ pc'[p] = "done" /\ OthersStay(p)
      /\ staged'[p] = NoRequest /\ before'[p] = NoRequest
      /\ before' \in [Procs -> Requests \union {NoRequest}] /\ staged' \in [Procs -> Requests \union {NoRequest}]
      /\ tries' \in [Procs -> 0 .. Attempts] /\ pc' \in [Procs -> Finished \union Running \union {"idle"}]
  BY <1>2, ClearTyped, GotoTyped DEF IInv, TypeOK, OthersStay, StageHolding, Return, Goto,
     Finished, Running
<1>6. event[p].items \subseteq AllItems
  BY <1>2, EventTyped DEF IInv, TypeOK
<1>7. TypeOK'
  BY <1>1, <1>2, <1>3, <1>4, <1>5, <1>6 DEF IInv, TypeOK
<1>8. TokenNames'
  BY <1>1, <1>2, <1>3, <1>4, <1>5, <1>6, TokensCopied, LiveMembers DEF IInv, Kept
<1>9. LockOwned'
  BY <1>1, <1>2, <1>3, <1>4, <1>5, <1>6 DEF IInv, LockOwned, Holding, OthersStay
<1>10. CoveredAcked'
  BY <1>1, <1>2, <1>3, <1>4, <1>5, <1>6 DEF IInv, CoveredAcked, Procs, OthersStay
<1>11. Kept'
  BY <1>1, <1>2, <1>3, <1>4, <1>5, <1>6 DEF IInv, Kept, ItemsOf, OthersStay
<1>12. Places' /\ RegistrationSeen' /\ StagedAdds' /\ StagedMerges' /\ RegistrationFirst' /\
   NothingToAdd' /\ ReadIsCurrent' /\ RenamedKept' /\ ForgottenIdle'
  BY <1>1, <1>2, <1>3, <1>4, <1>5, <1>6 DEF IInv, Places, RegistrationSeen, StagedAdds,
     StagedMerges, RegistrationFirst, NothingToAdd, ReadIsCurrent, RenamedKept, ForgottenIdle,
     Procs, ItemsOf, OthersStay
<1> QED  BY <1>7, <1>8, <1>9, <1>10, <1>11, <1>12 DEF IInv

\* The file is replaced by one that has all it had.
LEMMA RenameInv ==
  ASSUME IInv, NEW p \in Procs, Rename(p)
  PROVE  IInv'
<1>1. /\ registered' = registered /\ event' = event /\ acked' = acked /\ dropped' = dropped
      /\ boots' = boots /\ left' = left /\ staged' = staged /\ tries' = tries /\ covered' = covered
      /\ saved' = saved /\ written' = written /\ request' = staged[p] /\ lock' = Nobody
  BY DEF Rename, SetRequest, Unlock
<1>2. /\ pc[p] \in {"rename", "hrename"} /\ request = before[p] /\ staged[p] # NoRequest /\ lock = p
      /\ staged[p] \in Requests
  BY DEF IInv, TypeOK, ReadIsCurrent, LockOwned, Holding, Rename
<1>3. /\ disk'.request \subseteq disk.request \union {staged[p]} /\ staged[p] \in disk'.request
      /\ disk' \in [registered : SUBSET BOOLEAN, request : SUBSET (Requests \union {NoRequest})]
  BY <1>2 DEF IInv, TypeOK, Rename, SetRequest, Unsynced
<1>4. /\ pc'[p] = "sync" /\ OthersStay(p) /\ staged'[p] = staged[p] /\ before'[p] = NoRequest
      /\ before' \in [Procs -> Requests \union {NoRequest}]
      /\ pc' \in [Procs -> Finished \union Running \union {"idle"}]
  BY GotoTyped DEF IInv, TypeOK, OthersStay, Rename, Running, Goto
<1>5. /\ ItemsOf(request) \subseteq staged[p].items /\ ItemsOf(staged[p]) = staged[p].items
  BY <1>2 DEF IInv, StagedAdds, ItemsOf
<1>6. \A q \in Procs \ {p} : pc[q] \notin Holding
  BY <1>2 DEF IInv, LockOwned
<1>7. staged[p] \in Live /\ covered \in Live /\ disk'.request \subseteq Live
  BY <1>3 DEF Live
<1>8. TypeOK'
  BY <1>1, <1>2, <1>3, <1>4, <1>5, <1>6, <1>7 DEF IInv, TypeOK
<1>9. TokenNames'
  BY <1>1, <1>2, <1>3, <1>4, <1>5, <1>6, <1>7, TokensCopied DEF IInv
<1>10. LockOwned'
  BY <1>1, <1>2, <1>3, <1>4, <1>5, <1>6, <1>7 DEF IInv, LockOwned, Holding, OthersStay
<1>11. Places'
  BY <1>1, <1>2, <1>3, <1>4, <1>5, <1>6, <1>7 DEF IInv, Places, OthersStay
<1>12. RegistrationSeen'
  BY <1>1, <1>2, <1>3, <1>4, <1>5, <1>6, <1>7 DEF IInv, RegistrationSeen, Procs, OthersStay
<1>13. StagedAdds'
  BY <1>1, <1>2, <1>3, <1>4, <1>5, <1>6, <1>7 DEF IInv, StagedAdds, ItemsOf, OthersStay
<1>14. StagedMerges'
  BY <1>1, <1>2, <1>3, <1>4, <1>5, <1>6, <1>7 DEF IInv, StagedMerges, OthersStay
<1>15. RegistrationFirst'
  BY <1>1, <1>2, <1>3, <1>4, <1>5, <1>6, <1>7 DEF IInv, RegistrationFirst, Procs, OthersStay
<1>16. NothingToAdd'
  BY <1>1, <1>2, <1>3, <1>4, <1>5, <1>6, <1>7 DEF IInv, NothingToAdd, OthersStay
<1>17. ReadIsCurrent'
  BY <1>1, <1>2, <1>3, <1>4, <1>5, <1>6, <1>7 DEF IInv, ReadIsCurrent, Holding, OthersStay
<1>18. RenamedKept'
  BY <1>1, <1>2, <1>3, <1>4, <1>5, <1>6, <1>7 DEF IInv, RenamedKept, ItemsOf, OthersStay
<1>19. CoveredAcked'
  BY <1>1, <1>2, <1>3, <1>4, <1>5, <1>6, <1>7 DEF IInv, CoveredAcked, Procs, OthersStay
<1>20. ForgottenIdle'
  BY <1>1, <1>2, <1>3, <1>4, <1>5, <1>6, <1>7 DEF IInv, ForgottenIdle, Procs, Holding,
     OthersStay
<1>21. Kept'
  BY <1>1, <1>2, <1>3, <1>4, <1>5, <1>6, <1>7 DEF IInv, Kept, ItemsOf, OthersStay
<1> QED  BY <1>8, <1>9, <1>10, <1>11, <1>12, <1>13, <1>14, <1>15, <1>16, <1>17, <1>18, <1>19, <1>20, <1>21 DEF IInv

\* What a save promises is on the disk.
LEMMA SyncDirInv ==
  ASSUME IInv, NEW p \in Procs, SyncDir(p)
  PROVE  IInv'
<1>1. /\ registered' = registered /\ event' = event /\ acked' = acked /\ dropped' = dropped
      /\ boots' = boots /\ left' = left /\ request' = request /\ lock' = lock
  BY DEF SyncDir
<1>2. /\ pc[p] = "sync" /\ staged[p] # NoRequest /\ staged[p] \in Requests /\ staged[p].token # NoToken
      /\ p \in Writers => event[p].items \subseteq staged[p].items
  BY DEF IInv, TypeOK, ReadIsCurrent, StagedAdds, SyncDir
<1>3. /\ disk'.request = {request}
      /\ disk' \in [registered : SUBSET BOOLEAN, request : SUBSET (Requests \union {NoRequest})]
  BY DEF IInv, TypeOK, SyncDir
<1>4. p \in Writers \/ p = Collector
  BY DEF Procs
<1>5. /\ p = Collector => covered' = staged[p] /\ pc'[p] = "scanned" /\ saved' = saved /\ written' = written
      /\ p # Collector => /\ covered' = covered /\ pc'[p] = "done"
                          /\ saved' = saved \union event[p].items /\ written' = written \union event[p].items
  BY <1>2 DEF IInv, TypeOK, SyncDir, Return, Goto
<1>6. /\ before' \in [Procs -> Requests \union {NoRequest}] /\ staged' \in [Procs -> Requests \union {NoRequest}]
      /\ tries' \in [Procs -> 0 .. Attempts] /\ pc' \in [Procs -> Finished \union Running \union {"idle"}]
      /\ OthersStay(p) /\ staged'[p] = NoRequest /\ before'[p] = NoRequest
  BY <1>2, ClearTyped, GotoTyped DEF IInv, TypeOK, OthersStay, SyncDir, Return, Goto, Finished,
     Running
<1>7. p # Collector => event[p].items \subseteq AllItems
  BY <1>4, EventTyped DEF IInv, TypeOK
<1>8. TypeOK'
  BY <1>1, <1>2, <1>3, <1>4, <1>5, <1>6, <1>7 DEF IInv, TypeOK
<1>9. TokenNames'
  BY <1>1, <1>2, <1>3, <1>4, <1>5, <1>6, <1>7, TokensCopied, LiveMembers DEF IInv, Kept
<1>10. LockOwned'
  BY <1>1, <1>2, <1>3, <1>4, <1>5, <1>6, <1>7 DEF IInv, LockOwned, Holding, OthersStay
<1>11. Places'
  BY <1>1, <1>2, <1>3, <1>4, <1>5, <1>6, <1>7 DEF IInv, Places, OthersStay
<1>12. RegistrationSeen'
  BY <1>1, <1>2, <1>3, <1>4, <1>5, <1>6, <1>7 DEF IInv, RegistrationSeen, Procs, OthersStay
<1>13. StagedAdds'
  BY <1>1, <1>2, <1>3, <1>4, <1>5, <1>6, <1>7 DEF IInv, StagedAdds, ItemsOf, OthersStay
<1>14. StagedMerges'
  BY <1>1, <1>2, <1>3, <1>4, <1>5, <1>6, <1>7 DEF IInv, StagedMerges, OthersStay
<1>15. RegistrationFirst'
  BY <1>1, <1>2, <1>3, <1>4, <1>5, <1>6, <1>7 DEF IInv, RegistrationFirst, Procs, OthersStay
<1>16. NothingToAdd'
  BY <1>1, <1>2, <1>3, <1>4, <1>5, <1>6, <1>7 DEF IInv, NothingToAdd, OthersStay
<1>17. ReadIsCurrent'
  BY <1>1, <1>2, <1>3, <1>4, <1>5, <1>6, <1>7 DEF IInv, ReadIsCurrent, OthersStay
<1>18. RenamedKept'
  BY <1>1, <1>2, <1>3, <1>4, <1>5, <1>6, <1>7 DEF IInv, RenamedKept, ItemsOf, OthersStay
<1>19. CoveredAcked'
  BY <1>1, <1>2, <1>3, <1>4, <1>5, <1>6, <1>7 DEF IInv, CoveredAcked, Procs, OthersStay
<1>20. ForgottenIdle'
  BY <1>1, <1>2, <1>3, <1>4, <1>5, <1>6, <1>7 DEF IInv, ForgottenIdle, Procs, OthersStay
<1>21. Kept'
  BY <1>1, <1>2, <1>3, <1>4, <1>5, <1>6, <1>7 DEF IInv, Kept, ItemsOf, RenamedKept, OthersStay
<1> QED  BY <1>8, <1>9, <1>10, <1>11, <1>12, <1>13, <1>14, <1>15, <1>16, <1>17, <1>18, <1>19, <1>20, <1>21 DEF IInv

\* The scan takes a request with a token.
LEMMA ScanInv ==
  ASSUME IInv, Scan
  PROVE  IInv'
<1>1. Collector \in Procs /\ Collector \notin Writers
  BY ActorsAssumption DEF Procs
<1>2. /\ request' = request /\ registered' = registered /\ disk' = disk /\ event' = event
      /\ acked' = acked /\ dropped' = dropped /\ boots' = boots /\ left' = left /\ lock' = lock
      /\ saved' = saved /\ written' = written
  BY DEF Scan, files
<1>3. /\ OthersStay(Collector) /\ staged' = staged /\ before' = before /\ tries' = tries
      /\ pc' \in [Procs -> Finished \union Running \union {"idle"}]
  BY ActorsAssumption, <1>1 DEF IInv, TypeOK, OthersStay, Goto, Finished, Running, Holding,
     LockWaits, AfterLock, Scan
<1>4. \/ covered' = covered /\ pc'[Collector] = "stage"
      \/ covered' = request /\ request # NoRequest /\ request.token # NoToken /\ pc'[Collector] = "scanned"
  BY <1>1 DEF IInv, TypeOK, Scan, Goto
<1>5. TypeOK'
  BY <1>1, <1>2, <1>3, <1>4 DEF IInv, TypeOK
<1>6. TokenNames'
  BY <1>1, <1>2, <1>3, <1>4, TokensCopied, LiveMembers DEF IInv, Kept
<1>7. LockOwned'
  BY <1>1, <1>2, <1>3, <1>4 DEF IInv, LockOwned, Holding, OthersStay
<1>8. Places'
  BY <1>1, <1>2, <1>3, <1>4 DEF IInv, Places, OthersStay
<1>9. RegistrationSeen'
  BY <1>1, <1>2, <1>3, <1>4 DEF IInv, RegistrationSeen, Procs, OthersStay
<1>10. StagedAdds'
  BY <1>1, <1>2, <1>3, <1>4 DEF IInv, StagedAdds, ItemsOf, OthersStay
<1>11. StagedMerges'
  BY <1>1, <1>2, <1>3, <1>4 DEF IInv, StagedMerges, OthersStay
<1>12. RegistrationFirst'
  BY <1>1, <1>2, <1>3, <1>4 DEF IInv, RegistrationFirst, Procs, OthersStay
<1>13. NothingToAdd'
  BY <1>1, <1>2, <1>3, <1>4 DEF IInv, NothingToAdd, OthersStay
<1>14. ReadIsCurrent'
  BY <1>1, <1>2, <1>3, <1>4 DEF IInv, ReadIsCurrent, OthersStay
<1>15. RenamedKept'
  BY <1>1, <1>2, <1>3, <1>4 DEF IInv, RenamedKept, ItemsOf, OthersStay
<1>16. CoveredAcked'
  BY <1>1, <1>2, <1>3, <1>4 DEF IInv, CoveredAcked, Procs, OthersStay
<1>17. ForgottenIdle'
  BY <1>1, <1>2, <1>3, <1>4 DEF IInv, ForgottenIdle, Procs, OthersStay
<1>18. Kept'
  BY <1>1, <1>2, <1>3, <1>4 DEF IInv, Kept, ItemsOf, OthersStay
<1> QED  BY <1>5, <1>6, <1>7, <1>8, <1>9, <1>10, <1>11, <1>12, <1>13, <1>14, <1>15, <1>16, <1>17, <1>18 DEF IInv

\* What is published stays acknowledged.
LEMMA PublishInv ==
  ASSUME IInv, Publish
  PROVE  IInv'
<1>1. Collector \in Procs /\ Collector \notin Writers
  BY ActorsAssumption DEF Procs
<1>2. /\ request' = request /\ registered' = registered /\ disk' = disk /\ event' = event
      /\ dropped' = dropped /\ boots' = boots /\ left' = left /\ lock' = lock /\ covered' = covered
      /\ saved' = saved /\ written' = written
  BY DEF Publish, files
<1>3. /\ OthersStay(Collector) /\ staged' = staged /\ before' = before /\ tries' = tries
      /\ pc' \in [Procs -> Finished \union Running \union {"idle"}]
  BY ActorsAssumption, <1>1 DEF IInv, TypeOK, OthersStay, Goto, Finished, Running, Holding,
     LockWaits, AfterLock, Publish
<1>4. /\ pc'[Collector] = "clock" /\ covered # NoRequest /\ acked' = acked \union covered.items
      /\ covered.items \subseteq AllItems
  BY <1>1 DEF IInv, TypeOK, CoveredAcked, Requests, Publish, Goto
<1>5. TypeOK'
  BY <1>1, <1>2, <1>3, <1>4 DEF IInv, TypeOK
<1>6. TokenNames'
  BY <1>1, <1>2, <1>3, <1>4, TokensCopied, LiveMembers DEF IInv, Kept
<1>7. LockOwned'
  BY <1>1, <1>2, <1>3, <1>4 DEF IInv, LockOwned, Holding, OthersStay
<1>8. Places'
  BY <1>1, <1>2, <1>3, <1>4 DEF IInv, Places, OthersStay
<1>9. RegistrationSeen'
  BY <1>1, <1>2, <1>3, <1>4 DEF IInv, RegistrationSeen, Procs, OthersStay
<1>10. StagedAdds'
  BY <1>1, <1>2, <1>3, <1>4 DEF IInv, StagedAdds, ItemsOf, OthersStay
<1>11. StagedMerges'
  BY <1>1, <1>2, <1>3, <1>4 DEF IInv, StagedMerges, OthersStay
<1>12. RegistrationFirst'
  BY <1>1, <1>2, <1>3, <1>4 DEF IInv, RegistrationFirst, Procs, OthersStay
<1>13. NothingToAdd'
  BY <1>1, <1>2, <1>3, <1>4 DEF IInv, NothingToAdd, OthersStay
<1>14. ReadIsCurrent'
  BY <1>1, <1>2, <1>3, <1>4 DEF IInv, ReadIsCurrent, OthersStay
<1>15. RenamedKept'
  BY <1>1, <1>2, <1>3, <1>4 DEF IInv, RenamedKept, ItemsOf, OthersStay
<1>16. CoveredAcked'
  BY <1>1, <1>2, <1>3, <1>4 DEF IInv, CoveredAcked, Procs, OthersStay
<1>17. ForgottenIdle'
  BY <1>1, <1>2, <1>3, <1>4 DEF IInv, ForgottenIdle, Procs, OthersStay
<1>18. Kept'
  BY <1>1, <1>2, <1>3, <1>4 DEF IInv, Kept, ItemsOf, OthersStay
<1> QED  BY <1>5, <1>6, <1>7, <1>8, <1>9, <1>10, <1>11, <1>12, <1>13, <1>14, <1>15, <1>16, <1>17, <1>18 DEF IInv

\* A pass that fails forgets what it scanned.
LEMMA PublishFailsInv ==
  ASSUME IInv, PublishFails
  PROVE  IInv'
<1>1. Collector \in Procs /\ Collector \notin Writers
  BY ActorsAssumption DEF Procs
<1>2. /\ request' = request /\ registered' = registered /\ disk' = disk /\ event' = event
      /\ acked' = acked /\ dropped' = dropped /\ boots' = boots /\ left' = left /\ lock' = lock
      /\ saved' = saved /\ written' = written
  BY DEF PublishFails, files
<1>3. /\ OthersStay(Collector) /\ staged' = staged /\ before' = before /\ tries' = tries
      /\ pc' \in [Procs -> Finished \union Running \union {"idle"}]
  BY ActorsAssumption, <1>1 DEF IInv, TypeOK, OthersStay, Goto, Finished, Running, Holding,
     LockWaits, AfterLock, PublishFails
<1>4. covered' = NoRequest /\ pc'[Collector] = "idle"
  BY <1>1 DEF IInv, TypeOK, PublishFails, Goto
<1>5. TypeOK'
  BY <1>1, <1>2, <1>3, <1>4 DEF IInv, TypeOK
<1>6. TokenNames'
  BY <1>1, <1>2, <1>3, <1>4, TokensCopied, LiveMembers DEF IInv, Kept
<1>7. LockOwned'
  BY <1>1, <1>2, <1>3, <1>4 DEF IInv, LockOwned, Holding, OthersStay
<1>8. Places'
  BY <1>1, <1>2, <1>3, <1>4 DEF IInv, Places, OthersStay
<1>9. RegistrationSeen'
  BY <1>1, <1>2, <1>3, <1>4 DEF IInv, RegistrationSeen, Procs, OthersStay
<1>10. StagedAdds'
  BY <1>1, <1>2, <1>3, <1>4 DEF IInv, StagedAdds, ItemsOf, OthersStay
<1>11. StagedMerges'
  BY <1>1, <1>2, <1>3, <1>4 DEF IInv, StagedMerges, OthersStay
<1>12. RegistrationFirst'
  BY <1>1, <1>2, <1>3, <1>4 DEF IInv, RegistrationFirst, Procs, OthersStay
<1>13. NothingToAdd'
  BY <1>1, <1>2, <1>3, <1>4 DEF IInv, NothingToAdd, OthersStay
<1>14. ReadIsCurrent'
  BY <1>1, <1>2, <1>3, <1>4 DEF IInv, ReadIsCurrent, OthersStay
<1>15. RenamedKept'
  BY <1>1, <1>2, <1>3, <1>4 DEF IInv, RenamedKept, ItemsOf, OthersStay
<1>16. CoveredAcked'
  BY <1>1, <1>2, <1>3, <1>4 DEF IInv, CoveredAcked, Procs, OthersStay
<1>17. ForgottenIdle'
  BY <1>1, <1>2, <1>3, <1>4 DEF IInv, ForgottenIdle, Procs, OthersStay
<1>18. Kept'
  BY <1>1, <1>2, <1>3, <1>4 DEF IInv, Kept, ItemsOf, OthersStay
<1> QED  BY <1>5, <1>6, <1>7, <1>8, <1>9, <1>10, <1>11, <1>12, <1>13, <1>14, <1>15, <1>16, <1>17, <1>18 DEF IInv

\* The request that is removed is the one that was published.
LEMMA CompleteRequestInv ==
  ASSUME IInv, CompleteRequest
  PROVE  IInv'
<1>1. Collector \in Procs /\ Collector \notin Writers
  BY ActorsAssumption DEF Procs
<1>2. /\ registered' = registered /\ event' = event /\ acked' = acked /\ dropped' = dropped
      /\ boots' = boots /\ left' = left
      /\ saved' = saved /\ written' = written /\ covered' = NoRequest /\ lock' = Nobody
  BY DEF CompleteRequest, Unlock
<1>3. /\ OthersStay(Collector) /\ staged' = staged /\ before' = before /\ tries' = tries
      /\ pc' \in [Procs -> Finished \union Running \union {"idle"}]
  BY ActorsAssumption, <1>1 DEF IInv, TypeOK, OthersStay, Goto, Finished, Running, Holding,
     LockWaits, AfterLock, CompleteRequest
<1>4. pc[Collector] = "complete" /\ pc'[Collector] = "idle" /\ lock = Collector
  BY <1>1 DEF IInv, TypeOK, LockOwned, Holding, CompleteRequest, Goto
<1>5. covered # NoRequest /\ covered.token # NoToken /\ covered.items \subseteq acked
  BY <1>4 DEF IInv, CoveredAcked
<1>6. \/ request' = request /\ disk' = disk
      \/ /\ request' = NoRequest /\ ItemsOf(request) \subseteq acked
         /\ disk'.request \subseteq disk.request \union {NoRequest} /\ NoRequest \in disk'.request
         /\ disk' \in [registered : SUBSET BOOLEAN, request : SUBSET (Requests \union {NoRequest})]
  BY <1>1, <1>5 DEF IInv, TypeOK, TokenNames, Live, CompleteRequest, CoversRequest, SetRequest,
     Unsynced, ItemsOf
<1>7. \A q \in Procs : pc[q] \in Holding => q = Collector
  BY <1>4 DEF IInv, LockOwned
<1>8. TypeOK'
  BY <1>1, <1>2, <1>3, <1>4, <1>5, <1>6, <1>7 DEF IInv, TypeOK
<1>9. TokenNames'
  BY <1>1, <1>2, <1>3, <1>4, <1>5, <1>6, <1>7, TokensCopied, LiveMembers DEF IInv, Kept
<1>10. LockOwned'
  BY <1>1, <1>2, <1>3, <1>4, <1>5, <1>6, <1>7 DEF IInv, LockOwned, Holding, OthersStay
<1>11. Places'
  BY <1>1, <1>2, <1>3, <1>4, <1>5, <1>6, <1>7 DEF IInv, Places, OthersStay
<1>12. RegistrationSeen'
  BY <1>1, <1>2, <1>3, <1>4, <1>5, <1>6, <1>7 DEF IInv, RegistrationSeen, Procs, OthersStay
<1>13. StagedAdds'
  BY <1>1, <1>2, <1>3, <1>4, <1>5, <1>6, <1>7 DEF IInv, StagedAdds, ItemsOf, OthersStay
<1>14. StagedMerges'
  BY <1>1, <1>2, <1>3, <1>4, <1>5, <1>6, <1>7 DEF IInv, StagedMerges, OthersStay
<1>15. RegistrationFirst'
  BY <1>1, <1>2, <1>3, <1>4, <1>5, <1>6, <1>7 DEF IInv, RegistrationFirst, Procs, OthersStay
<1>16. NothingToAdd'
  BY <1>1, <1>2, <1>3, <1>4, <1>5, <1>6, <1>7 DEF IInv, NothingToAdd, OthersStay
<1>17. ReadIsCurrent'
  BY <1>1, <1>2, <1>3, <1>4, <1>5, <1>6, <1>7 DEF IInv, ReadIsCurrent, Holding, OthersStay
<1>18. RenamedKept'
  BY <1>1, <1>2, <1>3, <1>4, <1>5, <1>6, <1>7 DEF IInv, RenamedKept, ItemsOf, OthersStay
<1>19. CoveredAcked'
  BY <1>1, <1>2, <1>3, <1>4, <1>5, <1>6, <1>7 DEF IInv, CoveredAcked, Procs, OthersStay
<1>20. ForgottenIdle'
  BY <1>1, <1>2, <1>3, <1>4, <1>5, <1>6, <1>7 DEF IInv, ForgottenIdle, Procs, Holding,
     OthersStay
<1>21. Kept'
  BY <1>1, <1>2, <1>3, <1>4, <1>5, <1>6, <1>7 DEF IInv, Kept, ItemsOf, OthersStay
<1> QED  BY <1>8, <1>9, <1>10, <1>11, <1>12, <1>13, <1>14, <1>15, <1>16, <1>17, <1>18, <1>19, <1>20, <1>21 DEF IInv

\* A sweep first waits for the lock.
LEMMA ForgetInv ==
  ASSUME IInv, Forget
  PROVE  IInv'
<1>1. Collector \in Procs /\ Collector \notin Writers
  BY ActorsAssumption DEF Procs
<1>2. /\ request' = request /\ registered' = registered /\ disk' = disk /\ event' = event
      /\ acked' = acked /\ dropped' = dropped /\ boots' = boots /\ left' = left /\ lock' = lock /\ covered' = covered
      /\ saved' = saved /\ written' = written
  BY DEF Forget, files
<1>3. /\ OthersStay(Collector) /\ staged' = staged /\ before' = before /\ tries' = tries
      /\ pc' \in [Procs -> Finished \union Running \union {"idle"}]
  BY ActorsAssumption, <1>1 DEF IInv, TypeOK, OthersStay, Goto, Finished, Running, Holding,
     LockWaits, AfterLock, Forget
<1>4. pc'[Collector] \in {"flock", "xlock"}
  BY <1>1 DEF IInv, TypeOK, Forget, Goto
<1>5. TypeOK'
  BY <1>1, <1>2, <1>3, <1>4 DEF IInv, TypeOK
<1>6. TokenNames'
  BY <1>1, <1>2, <1>3, <1>4, TokensCopied, LiveMembers DEF IInv, Kept
<1>7. LockOwned'
  BY <1>1, <1>2, <1>3, <1>4 DEF IInv, LockOwned, Holding, OthersStay
<1>8. Places'
  BY <1>1, <1>2, <1>3, <1>4 DEF IInv, Places, OthersStay
<1>9. RegistrationSeen'
  BY <1>1, <1>2, <1>3, <1>4 DEF IInv, RegistrationSeen, Procs, OthersStay
<1>10. StagedAdds'
  BY <1>1, <1>2, <1>3, <1>4 DEF IInv, StagedAdds, ItemsOf, OthersStay
<1>11. StagedMerges'
  BY <1>1, <1>2, <1>3, <1>4 DEF IInv, StagedMerges, OthersStay
<1>12. RegistrationFirst'
  BY <1>1, <1>2, <1>3, <1>4 DEF IInv, RegistrationFirst, Procs, OthersStay
<1>13. NothingToAdd'
  BY <1>1, <1>2, <1>3, <1>4 DEF IInv, NothingToAdd, OthersStay
<1>14. ReadIsCurrent'
  BY <1>1, <1>2, <1>3, <1>4 DEF IInv, ReadIsCurrent, OthersStay
<1>15. RenamedKept'
  BY <1>1, <1>2, <1>3, <1>4 DEF IInv, RenamedKept, ItemsOf, OthersStay
<1>16. CoveredAcked'
  BY <1>1, <1>2, <1>3, <1>4 DEF IInv, CoveredAcked, Procs, OthersStay
<1>17. ForgottenIdle'
  BY <1>1, <1>2, <1>3, <1>4 DEF IInv, ForgottenIdle, Procs, OthersStay
<1>18. Kept'
  BY <1>1, <1>2, <1>3, <1>4 DEF IInv, Kept, ItemsOf, OthersStay
<1> QED  BY <1>5, <1>6, <1>7, <1>8, <1>9, <1>10, <1>11, <1>12, <1>13, <1>14, <1>15, <1>16, <1>17, <1>18 DEF IInv

\* Work keeps the session, unless it is not published any more.
LEMMA ForgetCheckInv ==
  ASSUME IInv, ForgetCheck
  PROVE  IInv'
<1>1. Collector \in Procs /\ Collector \notin Writers
  BY ActorsAssumption DEF Procs
<1>2. /\ request' = request /\ registered' = registered /\ disk' = disk /\ event' = event
      /\ acked' = acked /\ boots' = boots /\ left' = left /\ covered' = covered
      /\ saved' = saved /\ written' = written
  BY DEF ForgetCheck, files
<1>3. /\ OthersStay(Collector) /\ staged' = staged /\ before' = before /\ tries' = tries
      /\ pc' \in [Procs -> Finished \union Running \union {"idle"}]
  BY ActorsAssumption, <1>1 DEF IInv, TypeOK, OthersStay, Goto, Finished, Running, Holding,
     LockWaits, AfterLock, ForgetCheck
<1>4. pc[Collector] \in {"fcheck", "xcheck"} /\ lock = Collector
  BY <1>1 DEF IInv, LockOwned, Holding, ForgetCheck
<1>5. \/ pc'[Collector] = "idle" /\ lock' = Nobody /\ dropped' = dropped
      \/ /\ pc'[Collector] = "fregistration" /\ lock' = lock
         /\ dropped' \in BOOLEAN /\ (dropped => dropped') /\ (~dropped' => request = NoRequest)
  BY <1>1 DEF IInv, TypeOK, ForgetCheck, HasWork, Goto, Unlock
<1>6. \A q \in Procs : pc[q] \in Holding => q = Collector
  BY <1>4 DEF IInv, LockOwned
<1>7. TypeOK'
  BY <1>1, <1>2, <1>3, <1>4, <1>5, <1>6 DEF IInv, TypeOK
<1>8. TokenNames'
  BY <1>1, <1>2, <1>3, <1>4, <1>5, <1>6, TokensCopied, LiveMembers DEF IInv, Kept
<1>9. LockOwned'
  BY <1>1, <1>2, <1>3, <1>4, <1>5, <1>6 DEF IInv, LockOwned, Holding, OthersStay
<1>10. Places'
  BY <1>1, <1>2, <1>3, <1>4, <1>5, <1>6 DEF IInv, Places, OthersStay
<1>11. RegistrationSeen'
  BY <1>1, <1>2, <1>3, <1>4, <1>5, <1>6 DEF IInv, RegistrationSeen, Procs, OthersStay
<1>12. StagedAdds'
  BY <1>1, <1>2, <1>3, <1>4, <1>5, <1>6 DEF IInv, StagedAdds, ItemsOf, OthersStay
<1>13. StagedMerges'
  BY <1>1, <1>2, <1>3, <1>4, <1>5, <1>6 DEF IInv, StagedMerges, OthersStay
<1>14. RegistrationFirst'
  BY <1>1, <1>2, <1>3, <1>4, <1>5, <1>6 DEF IInv, RegistrationFirst, Procs, OthersStay
<1>15. NothingToAdd'
  BY <1>1, <1>2, <1>3, <1>4, <1>5, <1>6 DEF IInv, NothingToAdd, OthersStay
<1>16. ReadIsCurrent'
  BY <1>1, <1>2, <1>3, <1>4, <1>5, <1>6 DEF IInv, ReadIsCurrent, OthersStay
<1>17. RenamedKept'
  BY <1>1, <1>2, <1>3, <1>4, <1>5, <1>6 DEF IInv, RenamedKept, ItemsOf, OthersStay
<1>18. CoveredAcked'
  BY <1>1, <1>2, <1>3, <1>4, <1>5, <1>6 DEF IInv, CoveredAcked, Procs, OthersStay
<1>19. ForgottenIdle'
  BY <1>1, <1>2, <1>3, <1>4, <1>5, <1>6 DEF IInv, ForgottenIdle, Procs, OthersStay
<1>20. Kept'
  BY <1>1, <1>2, <1>3, <1>4, <1>5, <1>6 DEF IInv, Kept, ItemsOf, OthersStay
<1> QED  BY <1>7, <1>8, <1>9, <1>10, <1>11, <1>12, <1>13, <1>14, <1>15, <1>16, <1>17, <1>18, <1>19, <1>20 DEF IInv

\* No save is past its check when the registration goes.
LEMMA ForgetRegistrationInv ==
  ASSUME IInv, ForgetRegistration
  PROVE  IInv'
<1>1. Collector \in Procs /\ Collector \notin Writers
  BY ActorsAssumption DEF Procs
<1>2. /\ request' = request /\ event' = event /\ acked' = acked /\ dropped' = dropped /\ boots' = boots
      /\ left' = left /\ lock' = lock /\ covered' = covered /\ registered' = FALSE
      /\ saved' = saved /\ written' = written
  BY DEF ForgetRegistration
<1>3. /\ OthersStay(Collector) /\ staged' = staged /\ before' = before /\ tries' = tries
      /\ pc' \in [Procs -> Finished \union Running \union {"idle"}]
  BY ActorsAssumption, <1>1 DEF IInv, TypeOK, OthersStay, Goto, Finished, Running, Holding,
     LockWaits, AfterLock, ForgetRegistration
<1>4. pc[Collector] = "fregistration" /\ pc'[Collector] = "frequest" /\ lock = Collector
  BY <1>1 DEF IInv, TypeOK, LockOwned, Holding, ForgetRegistration, Goto
<1>5. /\ disk'.request = disk.request
      /\ disk' \in [registered : SUBSET BOOLEAN, request : SUBSET (Requests \union {NoRequest})]
  BY DEF IInv, TypeOK, ForgetRegistration, Unsynced
<1>6. \A w \in Writers : pc[w] \notin Holding /\ pc'[w] = pc[w]
  BY <1>1, <1>3, <1>4 DEF IInv, LockOwned, OthersStay, Procs
<1>7. TypeOK'
  BY <1>1, <1>2, <1>3, <1>4, <1>5, <1>6 DEF IInv, TypeOK
<1>8. TokenNames'
  BY <1>1, <1>2, <1>3, <1>4, <1>5, <1>6, TokensCopied, LiveMembers DEF IInv, Kept
<1>9. LockOwned'
  BY <1>1, <1>2, <1>3, <1>4, <1>5, <1>6 DEF IInv, LockOwned, Holding, OthersStay
<1>10. Places'
  BY <1>1, <1>2, <1>3, <1>4, <1>5, <1>6 DEF IInv, Places, OthersStay
<1>11. RegistrationSeen'
  BY <1>1, <1>2, <1>3, <1>4, <1>5, <1>6 DEF IInv, RegistrationSeen, Procs, Holding, OthersStay
<1>12. StagedAdds'
  BY <1>1, <1>2, <1>3, <1>4, <1>5, <1>6 DEF IInv, StagedAdds, ItemsOf, OthersStay
<1>13. StagedMerges'
  BY <1>1, <1>2, <1>3, <1>4, <1>5, <1>6 DEF IInv, StagedMerges, OthersStay
<1>14. RegistrationFirst'
  BY <1>1, <1>2, <1>3, <1>4, <1>5, <1>6 DEF IInv, RegistrationFirst, Procs, OthersStay
<1>15. NothingToAdd'
  BY <1>1, <1>2, <1>3, <1>4, <1>5, <1>6 DEF IInv, NothingToAdd, OthersStay
<1>16. ReadIsCurrent'
  BY <1>1, <1>2, <1>3, <1>4, <1>5, <1>6 DEF IInv, ReadIsCurrent, OthersStay
<1>17. RenamedKept'
  BY <1>1, <1>2, <1>3, <1>4, <1>5, <1>6 DEF IInv, RenamedKept, ItemsOf, OthersStay
<1>18. CoveredAcked'
  BY <1>1, <1>2, <1>3, <1>4, <1>5, <1>6 DEF IInv, CoveredAcked, Procs, OthersStay
<1>19. ForgottenIdle'
  BY <1>1, <1>2, <1>3, <1>4, <1>5, <1>6 DEF IInv, ForgottenIdle, Procs, OthersStay
<1>20. Kept'
  BY <1>1, <1>2, <1>3, <1>4, <1>5, <1>6 DEF IInv, Kept, ItemsOf, OthersStay
<1> QED  BY <1>7, <1>8, <1>9, <1>10, <1>11, <1>12, <1>13, <1>14, <1>15, <1>16, <1>17, <1>18, <1>19, <1>20 DEF IInv

\* A request that goes with its session had no work, or the session was dropped.
LEMMA ForgetRequestInv ==
  ASSUME IInv, ForgetRequest
  PROVE  IInv'
<1>1. Collector \in Procs /\ Collector \notin Writers
  BY ActorsAssumption DEF Procs
<1>2. /\ registered' = registered /\ event' = event /\ acked' = acked /\ dropped' = dropped
      /\ boots' = boots /\ left' = left
      /\ covered' = covered /\ lock' = Nobody /\ request' = NoRequest
      /\ saved' = saved /\ written' = written
  BY DEF ForgetRequest, SetRequest, Unlock
<1>3. /\ OthersStay(Collector) /\ staged' = staged /\ before' = before /\ tries' = tries
      /\ pc' \in [Procs -> Finished \union Running \union {"idle"}]
  BY ActorsAssumption, <1>1 DEF IInv, TypeOK, OthersStay, Goto, Finished, Running, Holding,
     LockWaits, AfterLock, ForgetRequest
<1>4. pc[Collector] = "frequest" /\ pc'[Collector] = "fsync" /\ lock = Collector
  BY <1>1 DEF IInv, TypeOK, LockOwned, Holding, ForgetRequest, Goto
<1>5. /\ disk'.request \subseteq disk.request \union {NoRequest} /\ NoRequest \in disk'.request
      /\ disk' \in [registered : SUBSET BOOLEAN, request : SUBSET (Requests \union {NoRequest})]
  BY DEF IInv, TypeOK, ForgetRequest, SetRequest, Unsynced
<1>6. ~dropped => request = NoRequest
  BY <1>4 DEF IInv, ForgottenIdle
<1>7. \A q \in Procs : pc[q] \in Holding => q = Collector
  BY <1>4 DEF IInv, LockOwned
<1>8. TypeOK'
  BY <1>1, <1>2, <1>3, <1>4, <1>5, <1>6, <1>7 DEF IInv, TypeOK
<1>9. TokenNames'
  BY <1>1, <1>2, <1>3, <1>4, <1>5, <1>6, <1>7, TokensCopied, LiveMembers DEF IInv, Kept
<1>10. LockOwned'
  BY <1>1, <1>2, <1>3, <1>4, <1>5, <1>6, <1>7 DEF IInv, LockOwned, Holding, OthersStay
<1>11. Places'
  BY <1>1, <1>2, <1>3, <1>4, <1>5, <1>6, <1>7 DEF IInv, Places, OthersStay
<1>12. RegistrationSeen'
  BY <1>1, <1>2, <1>3, <1>4, <1>5, <1>6, <1>7 DEF IInv, RegistrationSeen, Procs, OthersStay
<1>13. StagedAdds'
  BY <1>1, <1>2, <1>3, <1>4, <1>5, <1>6, <1>7 DEF IInv, StagedAdds, ItemsOf, OthersStay
<1>14. StagedMerges'
  BY <1>1, <1>2, <1>3, <1>4, <1>5, <1>6, <1>7 DEF IInv, StagedMerges, OthersStay
<1>15. RegistrationFirst'
  BY <1>1, <1>2, <1>3, <1>4, <1>5, <1>6, <1>7 DEF IInv, RegistrationFirst, Procs, OthersStay
<1>16. NothingToAdd'
  BY <1>1, <1>2, <1>3, <1>4, <1>5, <1>6, <1>7 DEF IInv, NothingToAdd, OthersStay
<1>17. ReadIsCurrent'
  BY <1>1, <1>2, <1>3, <1>4, <1>5, <1>6, <1>7 DEF IInv, ReadIsCurrent, Holding, OthersStay
<1>18. RenamedKept'
  BY <1>1, <1>2, <1>3, <1>4, <1>5, <1>6, <1>7 DEF IInv, RenamedKept, ItemsOf, OthersStay
<1>19. CoveredAcked'
  BY <1>1, <1>2, <1>3, <1>4, <1>5, <1>6, <1>7 DEF IInv, CoveredAcked, Procs, OthersStay
<1>20. ForgottenIdle'
  BY <1>1, <1>2, <1>3, <1>4, <1>5, <1>6, <1>7 DEF IInv, ForgottenIdle, Procs, OthersStay
<1>21. Kept'
  BY <1>1, <1>2, <1>3, <1>4, <1>5, <1>6, <1>7 DEF IInv, Kept, ItemsOf, OthersStay
<1> QED  BY <1>8, <1>9, <1>10, <1>11, <1>12, <1>13, <1>14, <1>15, <1>16, <1>17, <1>18, <1>19, <1>20, <1>21 DEF IInv

\* What the disk has of a forgotten session is what the files are.
LEMMA ForgetSyncInv ==
  ASSUME IInv, ForgetSync
  PROVE  IInv'
<1>1. Collector \in Procs /\ Collector \notin Writers
  BY ActorsAssumption DEF Procs
<1>2. /\ request' = request /\ registered' = registered /\ event' = event
      /\ acked' = acked /\ dropped' = dropped /\ boots' = boots /\ left' = left
      /\ lock' = lock /\ covered' = covered
      /\ saved' = saved /\ written' = written
  BY DEF ForgetSync
<1>3. /\ OthersStay(Collector) /\ staged' = staged /\ before' = before /\ tries' = tries
      /\ pc' \in [Procs -> Finished \union Running \union {"idle"}]
  BY ActorsAssumption, <1>1 DEF IInv, TypeOK, OthersStay, Goto, Finished, Running, Holding,
     LockWaits, AfterLock, ForgetSync
<1>4. pc'[Collector] = "idle"
  BY <1>1 DEF IInv, TypeOK, ForgetSync, Goto
<1>5. /\ disk'.request = {request}
      /\ disk' \in [registered : SUBSET BOOLEAN, request : SUBSET (Requests \union {NoRequest})]
  BY DEF IInv, TypeOK, ForgetSync
<1>6. request \in Live /\ covered \in Live /\ staged[Collector] \in Live /\ before[Collector] \in Live
  BY <1>1 DEF Live
<1>7. TypeOK'
  BY <1>1, <1>2, <1>3, <1>4, <1>5, <1>6 DEF IInv, TypeOK
<1>8. TokenNames'
  BY <1>1, <1>2, <1>3, <1>4, <1>5, <1>6, TokensCopied, LiveMembers DEF IInv, Kept
<1>9. LockOwned'
  BY <1>1, <1>2, <1>3, <1>4, <1>5, <1>6 DEF IInv, LockOwned, Holding, OthersStay
<1>10. Places'
  BY <1>1, <1>2, <1>3, <1>4, <1>5, <1>6 DEF IInv, Places, OthersStay
<1>11. RegistrationSeen'
  BY <1>1, <1>2, <1>3, <1>4, <1>5, <1>6 DEF IInv, RegistrationSeen, Procs, OthersStay
<1>12. StagedAdds'
  BY <1>1, <1>2, <1>3, <1>4, <1>5, <1>6 DEF IInv, StagedAdds, ItemsOf, OthersStay
<1>13. StagedMerges'
  BY <1>1, <1>2, <1>3, <1>4, <1>5, <1>6 DEF IInv, StagedMerges, OthersStay
<1>14. RegistrationFirst'
  BY <1>1, <1>2, <1>3, <1>4, <1>5, <1>6 DEF IInv, RegistrationFirst, Procs, OthersStay
<1>15. NothingToAdd'
  BY <1>1, <1>2, <1>3, <1>4, <1>5, <1>6 DEF IInv, NothingToAdd, OthersStay
<1>16. ReadIsCurrent'
  BY <1>1, <1>2, <1>3, <1>4, <1>5, <1>6 DEF IInv, ReadIsCurrent, OthersStay
<1>17. RenamedKept'
  BY <1>1, <1>2, <1>3, <1>4, <1>5, <1>6 DEF IInv, RenamedKept, ItemsOf, OthersStay
<1>18. CoveredAcked'
  BY <1>1, <1>2, <1>3, <1>4, <1>5, <1>6 DEF IInv, CoveredAcked, Procs, OthersStay
<1>19. ForgottenIdle'
  BY <1>1, <1>2, <1>3, <1>4, <1>5, <1>6 DEF IInv, ForgottenIdle, Procs, OthersStay
<1>20. Kept'
  BY <1>1, <1>2, <1>3, <1>4, <1>5, <1>6 DEF IInv, Kept, ItemsOf, OthersStay
<1> QED  BY <1>7, <1>8, <1>9, <1>10, <1>11, <1>12, <1>13, <1>14, <1>15, <1>16, <1>17, <1>18, <1>19, <1>20 DEF IInv

\* The kernel releases a dead process's lock.
LEMMA KillInv ==
  ASSUME IInv, NEW p \in Procs, Kill(p)
  PROVE  IInv'
<1>1. /\ request' = request /\ registered' = registered /\ disk' = disk /\ event' = event
      /\ acked' = acked /\ dropped' = dropped /\ boots' = boots /\ saved' = saved /\ written' = written
  BY DEF Kill, files
<1>2. /\ lock' = IF lock = p THEN Nobody ELSE lock
      /\ covered' = IF p = Collector THEN NoRequest ELSE covered
  BY DEF Kill
<1>3. /\ pc'[p] \in {"idle", "killed"} /\ OthersStay(p)
      /\ staged'[p] = NoRequest /\ before'[p] = NoRequest
      /\ before' \in [Procs -> Requests \union {NoRequest}] /\ staged' \in [Procs -> Requests \union {NoRequest}]
      /\ tries' \in [Procs -> 0 .. Attempts] /\ pc' \in [Procs -> Finished \union Running \union {"idle"}]
  BY ClearTyped, GotoTyped DEF IInv, TypeOK, OthersStay, Kill, Goto, Finished
<1>4. left' \in [kill : Nat, power : Nat]
  BY DEF IInv, TypeOK, Kill
<1>5. lock \in Procs \union {Nobody}
  BY DEF IInv, TypeOK
<1>6. TypeOK'
  BY <1>1, <1>2, <1>3, <1>4, <1>5 DEF IInv, TypeOK
<1>7. TokenNames'
  BY <1>1, <1>2, <1>3, <1>4, <1>5, TokensCopied, LiveMembers DEF IInv, Kept
<1>8. LockOwned'
  BY <1>1, <1>2, <1>3, <1>4, <1>5 DEF IInv, LockOwned, Holding, OthersStay
<1>9. Places'
  BY <1>1, <1>2, <1>3, <1>4, <1>5 DEF IInv, Places, OthersStay
<1>10. RegistrationSeen'
  BY <1>1, <1>2, <1>3, <1>4, <1>5 DEF IInv, RegistrationSeen, Procs, OthersStay
<1>11. StagedAdds'
  BY <1>1, <1>2, <1>3, <1>4, <1>5 DEF IInv, StagedAdds, ItemsOf, OthersStay
<1>12. StagedMerges'
  BY <1>1, <1>2, <1>3, <1>4, <1>5 DEF IInv, StagedMerges, OthersStay
<1>13. RegistrationFirst'
  BY <1>1, <1>2, <1>3, <1>4, <1>5 DEF IInv, RegistrationFirst, Procs, OthersStay
<1>14. NothingToAdd'
  BY <1>1, <1>2, <1>3, <1>4, <1>5 DEF IInv, NothingToAdd, OthersStay
<1>15. ReadIsCurrent'
  BY <1>1, <1>2, <1>3, <1>4, <1>5 DEF IInv, ReadIsCurrent, OthersStay
<1>16. RenamedKept'
  BY <1>1, <1>2, <1>3, <1>4, <1>5 DEF IInv, RenamedKept, ItemsOf, OthersStay
<1>17. CoveredAcked'
  BY <1>1, <1>2, <1>3, <1>4, <1>5 DEF IInv, CoveredAcked, Procs, OthersStay
<1>18. ForgottenIdle'
  BY <1>1, <1>2, <1>3, <1>4, <1>5 DEF IInv, ForgottenIdle, Procs, OthersStay
<1>19. Kept'
  BY <1>1, <1>2, <1>3, <1>4, <1>5 DEF IInv, Kept, ItemsOf, OthersStay
<1> QED  BY <1>6, <1>7, <1>8, <1>9, <1>10, <1>11, <1>12, <1>13, <1>14, <1>15, <1>16, <1>17, <1>18, <1>19 DEF IInv

\* After a power loss every file is as some sync may have left it.
LEMMA PowerLossInv ==
  ASSUME IInv, PowerLoss
  PROVE  IInv'
<1>1. /\ event' = event /\ acked' = acked /\ dropped' = dropped /\ saved' = saved /\ written' = written
      /\ lock' = Nobody /\ covered' = NoRequest /\ disk'.request = {request'}
      /\ before' = [p \in Procs |-> NoRequest] /\ staged' = [p \in Procs |-> NoRequest]
  BY DEF PowerLoss
<1>2. /\ request' \in disk.request /\ boots' # 0
  BY DEF IInv, TypeOK, PowerLoss
<1>3. /\ \A p \in Procs : pc'[p] \in {"done", "unregistered", "overtaken", "busy", "killed", "idle"}
      /\ pc' \in [Procs -> Finished \union Running \union {"idle"}]
  BY DEF IInv, TypeOK, PowerLoss, Finished
<1>4. /\ registered' \in BOOLEAN /\ disk' \in [registered : SUBSET BOOLEAN, request : SUBSET (Requests \union {NoRequest})]
      /\ tries' \in [Procs -> 0 .. Attempts] /\ left' \in [kill : Nat, power : Nat] /\ boots' \in Nat
  BY <1>2, NumbersAssumption DEF IInv, TypeOK, PowerLoss
<1>5. Collector \in Procs /\ Writers \subseteq Procs
  BY DEF Procs
<1>6. TypeOK'
  BY <1>1, <1>2, <1>3, <1>4, <1>5 DEF IInv, TypeOK
<1>7. TokenNames'
  BY <1>1, <1>2, <1>3, <1>4, <1>5 DEF IInv, TokenNames, Live
<1>8. LockOwned'
  BY <1>1, <1>2, <1>3, <1>4, <1>5 DEF IInv, LockOwned, Holding
<1>9. Places'
  BY <1>1, <1>2, <1>3, <1>4, <1>5 DEF IInv, Places
<1>10. RegistrationSeen'
  BY <1>1, <1>2, <1>3, <1>4, <1>5 DEF IInv, RegistrationSeen, Procs
<1>11. StagedAdds'
  BY <1>1, <1>2, <1>3, <1>4, <1>5 DEF IInv, StagedAdds, ItemsOf
<1>12. StagedMerges'
  BY <1>1, <1>2, <1>3, <1>4, <1>5 DEF IInv, StagedMerges
<1>13. RegistrationFirst'
  BY <1>1, <1>2, <1>3, <1>4, <1>5 DEF IInv, RegistrationFirst, Procs
<1>14. NothingToAdd'
  BY <1>1, <1>2, <1>3, <1>4, <1>5 DEF IInv, NothingToAdd
<1>15. ReadIsCurrent'
  BY <1>1, <1>2, <1>3, <1>4, <1>5 DEF IInv, ReadIsCurrent
<1>16. RenamedKept'
  BY <1>1, <1>2, <1>3, <1>4, <1>5 DEF IInv, RenamedKept, ItemsOf
<1>17. CoveredAcked'
  BY <1>1, <1>2, <1>3, <1>4, <1>5 DEF IInv, CoveredAcked, Procs
<1>18. ForgottenIdle'
  BY <1>1, <1>2, <1>3, <1>4, <1>5 DEF IInv, ForgottenIdle, Procs
<1>19. Kept'
  BY <1>1, <1>2, <1>3, <1>4, <1>5 DEF IInv, Kept, ItemsOf
<1> QED  BY <1>6, <1>7, <1>8, <1>9, <1>10, <1>11, <1>12, <1>13, <1>14, <1>15, <1>16, <1>17, <1>18, <1>19 DEF IInv

\* Nothing was read, and a request there is has no token to mistake.
LEMMA InitInv == Init => IInv
<1> SUFFICES ASSUME Init
             PROVE  IInv
  OBVIOUS
<1>1. PICK start \in Starts : request = start.request /\ event = start.event /\ left = start.left
  BY DEF Init
<1>2. /\ request \in Legacy \union {NoRequest}
      /\ event \in [Writers -> Events] /\ left \in [kill : Nat, power : Nat]
  BY <1>1, NumbersAssumption
<1>3. request \in Requests \union {NoRequest} /\ (request # NoRequest => request.token = NoToken)
  BY <1>2, RequestsAssumption
<1>4. /\ pc = [p \in Procs |-> "idle"] /\ covered = NoRequest /\ disk.request = {request}
      /\ before = [p \in Procs |-> NoRequest] /\ staged = [p \in Procs |-> NoRequest]
      /\ saved = {} /\ written = {} /\ boots = 0
  BY DEF Init
<1>5. TypeOK
  <2>1. 0 \in 0 .. Attempts
    BY NumbersAssumption
  <2>2. /\ disk \in [registered : SUBSET BOOLEAN, request : SUBSET (Requests \union {NoRequest})]
        /\ tries \in [Procs -> 0 .. Attempts] /\ pc \in [Procs -> Finished \union Running \union {"idle"}]
    BY <1>3, <2>1 DEF Init
  <2>3. /\ before \in [Procs -> Requests \union {NoRequest}] /\ staged \in [Procs -> Requests \union {NoRequest}]
        /\ covered \in Requests \union {NoRequest}
    BY <1>4
  <2>4. /\ registered \in BOOLEAN /\ lock \in Procs \union {Nobody} /\ dropped \in BOOLEAN /\ boots \in Nat
        /\ acked \in SUBSET AllItems /\ saved \in SUBSET AllItems /\ written \in SUBSET saved
    BY DEF Init
  <2> QED  BY <1>2, <1>3, <2>2, <2>3, <2>4 DEF TypeOK
<1>6. TokenNames
  BY <1>3, <1>4 DEF TokenNames, Live
<1>7. LockOwned /\ Places /\ RegistrationSeen /\ StagedAdds /\ NothingToAdd /\ ReadIsCurrent /\ RenamedKept
  BY <1>4 DEF LockOwned, Holding, Places, RegistrationSeen, StagedAdds, NothingToAdd,
     ReadIsCurrent, RenamedKept, Procs
<1>8. StagedMerges /\ RegistrationFirst /\ CoveredAcked /\ ForgottenIdle /\ Kept
  BY <1>4 DEF StagedMerges, RegistrationFirst, CoveredAcked, ForgottenIdle, Kept, Procs
<1> QED  BY <1>5, <1>6, <1>7, <1>8 DEF IInv

\* A step that changes nothing keeps it.
LEMMA StutterInv ==
  ASSUME IInv, UNCHANGED vars
  PROVE  IInv'
BY DEF IInv, vars, TypeOK, TokenNames, Live, LockOwned, Places, RegistrationSeen, StagedAdds,
   StagedMerges, RegistrationFirst, NothingToAdd, ReadIsCurrent, RenamedKept, CoveredAcked, ForgottenIdle, Kept

\* A step of the specification is one of the above.
LEMMA NextInv ==
  ASSUME IInv, [Next]_vars
  PROVE  IInv'
<1>1. ASSUME NEW p \in Procs, WriteStep(p)
      PROVE  IInv'
  <2>1. CASE TakeLock(p) \/ LockBusy(p)
    BY <2>1, TakeLockInv, LockBusyInv
  <2>2. CASE Stage(p)
    BY <2>2, StageInv
  <2>3. CASE Check(p) \/ CheckFails(p)
    BY <2>3, CheckInv, CheckFailsInv
  <2>4. CASE Compare(p)
    BY <2>4, CompareToRenameInv, CompareReturnsInv
  <2>5. CASE Discard(p)
    BY <2>5, DiscardInv
  <2>6. CASE StageHolding(p)
    BY <2>6, StageHoldingInv, StageHoldingReturnsInv
  <2>7. CASE Rename(p) \/ SyncDir(p)
    BY <2>7, RenameInv, SyncDirInv
  <2> QED  BY <1>1, <2>1, <2>2, <2>3, <2>4, <2>5, <2>6, <2>7 DEF WriteStep
<1>2. CASE CollectorStep
  BY <1>2, ScanInv, PublishInv, PublishFailsInv, CompleteRequestInv, ForgetInv,
     ForgetCheckInv, ForgetRegistrationInv, ForgetRequestInv, ForgetSyncInv DEF CollectorStep
<1>3. ASSUME NEW w \in Writers, Begin(w)
      PROVE  IInv'
  BY <1>3, BeginInv
<1>4. ASSUME NEW p \in Procs, Kill(p)
      PROVE  IInv'
  BY <1>4, KillInv
<1>5. CASE PowerLoss
  BY <1>5, PowerLossInv
<1>6. CASE UNCHANGED vars
  BY <1>6, StutterInv
<1> QED  BY <1>1, <1>2, <1>3, <1>4, <1>5, <1>6 DEF Next

-----------------------------------------------------------------------------
(* Theorems                                                                *)

\* Whatever writers, acknowledgements, kills and power losses come in between,
\* what was decided under the request lock holds until it is released.
THEOREM Invariance == Spec => []IInv
<1>1. Init => IInv
  BY InitInv
<1>2. IInv /\ [Next]_vars => IInv'
  BY NextInv
<1> QED  BY <1>1, <1>2, PTL DEF Spec

\* The request file, what writers staged and the attempts they made keep their
\* types: an overtaken writer stops at unlockedWriteAttempts.
THEOREM TypeCorrect == Spec => []TypeOK
<1>1. IInv => TypeOK
  BY DEF IInv
<1> QED  BY <1>1, Invariance, PTL

\* What a save promised is pending or acknowledged, across a power loss too if
\* the save wrote the file, unless the session was dropped.
THEOREM EvidenceAlwaysKept == Spec => []SavedEvidenceKept
<1>1. IInv => SavedEvidenceKept
  BY DEF IInv, Kept, SavedEvidenceKept
<1> QED  BY <1>1, Invariance, PTL

\* A rename that adds to a request was checked against the registration under
\* the lock that a forget would need (saveRequest); one that gives it a token
\* adds nothing, and everything else that touches a request removes it.
THEOREM NothingEverSavedForgotten == Spec => NothingSavedForgotten
<1> DEFINE Unadded == Content(request') \in {NoRequest, Content(request)}
<1>1. ASSUME IInv, NEW p \in Procs, Rename(p), ~registered
      PROVE  Unadded
  <2>1. /\ pc[p] \in {"rename", "hrename"} /\ request = before[p] /\ staged[p] # NoRequest
        /\ request' = staged[p]
    BY <1>1 DEF IInv, ReadIsCurrent, Rename, SetRequest
  <2>2. p \notin Writers
    BY <1>1, <2>1 DEF IInv, RegistrationSeen
  <2> QED  BY <1>1, <2>1, <2>2 DEF IInv, StagedMerges
<1>2. ASSUME IInv, [Next]_vars, boots' = boots
      PROVE  request' \in {NoRequest, request} \/ \E p \in Procs : Rename(p)
  <2>1. ~PowerLoss
    BY <1>2 DEF IInv, TypeOK, PowerLoss
  <2>2. CollectorStep => request' \in {NoRequest, request}
    BY DEF CollectorStep, Scan, Publish, PublishFails, CompleteRequest, SetRequest, Forget,
       ForgetCheck, ForgetRegistration, ForgetRequest, ForgetSync, files
  <2>3. \A p \in Procs : (Kill(p) => request' = request)
                         /\ (p \in Writers /\ Begin(p) => request' = request)
    BY DEF Kill, Begin, files
  <2>4. \A p \in Procs : WriteStep(p) => Rename(p) \/ request' = request
    BY DEF WriteStep, TakeLock, LockBusy, Stage, Check, CheckFails, Compare, Discard,
       StageHolding, SyncDir, files
  <2> QED  BY <1>2, <2>1, <2>2, <2>3, <2>4 DEF Next, vars, files, Procs
<1>3. request' \in {NoRequest, request} => Unadded
  BY DEF Content
<1>4. IInv /\ [Next]_vars => [~registered /\ boots' = boots => Unadded]_vars
  BY <1>1, <1>2, <1>3
<1> QED  BY <1>4, Invariance, PTL DEF Spec, NothingSavedForgotten

-----------------------------------------------------------------------------
(* The register                                                            *)

\* The content of a request is one, with the request's items.
LEMMA ContentTyped ==
  ASSUME NEW r \in Requests
  PROVE  r # NoRequest /\ Content(r) # NoRequest /\ Content(r).items = r.items
<1>1. r # NoRequest
  BY RequestsAssumption
<1>2. Content(r) \in Contents /\ Content(r).items = r.items
  BY <1>1 DEF Content, Contents, Requests
<1> QED  BY <1>1, <1>2, RequestsAssumption

\* A rename by a writer is a save of its event; giving a token is nothing.
LEMMA RenameSaves ==
  ASSUME IInv, NEW p \in Procs, Rename(p)
  PROVE  Register!Next \/ UNCHANGED Register!rvars
<1>1. /\ pc[p] \in {"rename", "hrename"} /\ request = before[p] /\ staged[p] # NoRequest
      /\ request' = staged[p] /\ registered' = registered /\ acked' = acked
  BY DEF IInv, ReadIsCurrent, Rename, SetRequest
<1>2. Content(staged[p]) = IF p \in Writers THEN Register!Accumulate(Content(request), event[p])
                           ELSE Content(request)
  BY <1>1 DEF IInv, StagedMerges
<1>3. CASE p \in Writers
  <2>1. registered /\ event[p] \in Events
    BY <1>1, <1>3 DEF IInv, TypeOK, RegistrationSeen
  <2>2. Register!Save(event[p])
    BY <1>1, <1>2, <1>3, <2>1 DEF Register!Save
  <2> QED  BY <2>1, <2>2 DEF Register!Next
<1>4. CASE p \notin Writers
  BY <1>1, <1>2, <1>4 DEF Register!rvars
<1> QED  BY <1>3, <1>4

\* Publishing is an acknowledgement of evidence there is.
LEMMA PublishAcknowledges ==
  ASSUME IInv, Publish
  PROVE  Register!Next
<1>1. covered \in Requests
  BY DEF IInv, TypeOK, CoveredAcked, Publish
<1>2. covered.items \subseteq AllItems
  BY <1>1 DEF Requests
<1>3. \A r \in Legacy : Content(r).items = r.items
  BY RequestsAssumption, ContentTyped
<1>4. AllItems \subseteq UNION {ev.items : ev \in Events \union {Content(r) : r \in Legacy}}
  <2> SUFFICES ASSUME NEW i \in AllItems
               PROVE  \E ev \in Events \union {Content(r) : r \in Legacy} : i \in ev.items
    OBVIOUS
  <2>1. CASE \E ev \in Events : i \in ev.items
    BY <2>1
  <2>2. CASE \E r \in Legacy : i \in r.items
    BY <2>2, <1>3
  <2>3. \/ i \in UNION {ev.items : ev \in Events}
        \/ i \in UNION {r.items : r \in Legacy}
    BY DEF AllItems
  <2>4. (\E ev \in Events : i \in ev.items) \/ \E r \in Legacy : i \in r.items
    BY <2>3
  <2> QED  BY <2>1, <2>2, <2>4
<1>5. covered.items \in SUBSET UNION {ev.items : ev \in Events \union {Content(r) : r \in Legacy}}
  BY <1>2, <1>4
<1>6. acked' = acked \union covered.items /\ registered' = registered /\ request' = request
  BY DEF Publish, files
<1> QED  BY <1>5, <1>6 DEF Register!Next, Register!Acknowledge

\* The collector completes only what was acknowledged.
LEMMA CompletionCompletes ==
  ASSUME IInv, CompleteRequest
  PROVE  Register!Next \/ UNCHANGED Register!rvars
<1>1. registered' = registered /\ acked' = acked
  BY DEF CompleteRequest
<1>2. CASE ~CoversRequest \/ ~registered
  BY <1>1, <1>2 DEF CompleteRequest, Register!rvars
<1>3. CASE CoversRequest /\ registered
  <2>1. /\ request # NoRequest /\ request.token = covered.token /\ request' = NoRequest
        /\ covered # NoRequest /\ covered.token # NoToken /\ covered.items \subseteq acked
    BY <1>3 DEF IInv, CoveredAcked, CompleteRequest, CoversRequest, SetRequest
  <2>2. request \in Requests /\ request.items \subseteq acked
    BY <2>1 DEF IInv, TypeOK, TokenNames, Live
  <2>3. Content(request) # NoRequest /\ Content(request).items \subseteq acked
    BY <2>2, ContentTyped
  <2>4. Content(NoRequest) = NoRequest
    BY DEF Content
  <2>5. Register!Complete
    BY <1>1, <1>3, <2>1, <2>3, <2>4 DEF Register!Complete
  <2> QED  BY <2>5 DEF Register!Next
<1> QED  BY <1>2, <1>3

\* Removing the registration forgets the request, which is removed later.
LEMMA ForgettingForgets ==
  ASSUME IInv, ForgetRegistration \/ ForgetRequest
  PROVE  Register!Next \/ UNCHANGED Register!rvars
<1>1. CASE ForgetRegistration
  <2>1. registered' = FALSE /\ acked' = acked /\ request' = request
    BY <1>1 DEF ForgetRegistration
  <2>2. registered => Register!Forget
    BY <2>1 DEF Register!Forget
  <2>3. ~registered => UNCHANGED Register!rvars
    BY <2>1 DEF Register!rvars, IInv, TypeOK
  <2> QED  BY <2>2, <2>3 DEF Register!Next
<1>2. CASE ForgetRequest
  BY <1>2 DEF ForgetRequest, IInv, RegistrationFirst, Register!rvars
<1> QED  BY <1>1, <1>2

\* Between power losses the staged optimistic write is a linearizable
\* read-modify-write: each step of it is a save, an acknowledgement, a
\* completion or a forget of the atomic register, or nothing.
THEOREM RegisterImplemented == Spec => ImplementsRegister
<1>1. Init => Register!Init
  <2> SUFFICES ASSUME Init
               PROVE  Register!Init
    OBVIOUS
  <2>1. PICK start \in Starts : request = start.request
    BY DEF Init
  <2>2. request \in Legacy \union {NoRequest}
    BY <2>1, NumbersAssumption
  <2>3. Content(request) \in {Content(r) : r \in Legacy} \union {NoRequest}
    BY <2>2 DEF Content
  <2> QED  BY <2>3 DEF Init, Register!Init
<1>2. ASSUME IInv, [Next]_vars, boots' = boots
      PROVE  Register!Next \/ UNCHANGED Register!rvars
  <2>1. ASSUME NEW p \in Procs, WriteStep(p)
        PROVE  Register!Next \/ UNCHANGED Register!rvars
    <3>1. CASE Rename(p)
      BY <1>2, <3>1, RenameSaves
    <3>2. CASE ~Rename(p)
      BY <2>1, <3>2 DEF WriteStep, TakeLock, LockBusy, Stage, Check, CheckFails, Compare,
         Discard, StageHolding, SyncDir, files, Register!rvars
    <3> QED  BY <3>1, <3>2
  <2>2. CASE CollectorStep
    <3>1. CASE Publish \/ CompleteRequest \/ ForgetRegistration \/ ForgetRequest
      BY <1>2, <3>1, PublishAcknowledges, CompletionCompletes, ForgettingForgets
    <3>2. CASE Scan \/ PublishFails \/ Forget \/ ForgetCheck \/ ForgetSync
      BY <3>2 DEF Scan, PublishFails, Forget, ForgetCheck, ForgetSync, files, Register!rvars
    <3> QED  BY <2>2, <3>1, <3>2 DEF CollectorStep
  <2>3. ASSUME NEW p \in Procs, Kill(p) \/ Begin(p)
        PROVE  UNCHANGED Register!rvars
    BY <2>3 DEF Kill, Begin, files, Register!rvars
  <2>4. CASE UNCHANGED vars
    BY <2>4 DEF vars, Register!rvars
  <2>5. ~PowerLoss
    BY <1>2 DEF IInv, TypeOK, PowerLoss
  <2> QED  BY <1>2, <2>1, <2>2, <2>3, <2>4, <2>5 DEF Next, Procs
<1>3. IInv /\ [Next]_vars => [boots' = boots => Register!Next]_(Register!rvars)
  BY <1>2
<1> QED  BY <1>1, <1>3, Invariance, PTL DEF Spec, ImplementsRegister
=============================================================================
