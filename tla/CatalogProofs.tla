--------------------------- MODULE CatalogProofs ---------------------------
(***************************************************************************)
(* Catalog for any machines, contents, clocks and bounds: a reader finds   *)
(* every object of the snapshots a lifetime covers, a mutation is          *)
(* committed once, leases and receipts have an owner, and what an admitted *)
(* publisher uploaded stays.                                               *)
(***************************************************************************)
EXTENDS Catalog, TLAPS

Entries == [by : Machines \union {None}, n : Nat, at : 0 .. MaxTime,
            roots : [Machines -> Contents \union {None}]]
Puts == [match : Epochs \union {None}, epoch : Epochs, leased : BOOLEAN,
         commit : Candidates \union {None}]

\* The admitted part of a publication, and the removal of its journal.
Uploading == {"source", "read", "commit"}
Removing == {"unlink", "forget", "retire"}
Publishing == Uploading \union Removing \union {"idle", "acknowledge", "complete", "bury"}

\* A collection's places; it has linked itself to the coordinator in Linked.
Linked == {"lease", "mark", "sweep", "release", "finish"}
Collecting == Linked \union {"off", "clock", "hold", "link", "recover"}

\* The types of what is stored, of what the machines remember, and of the head.
RecordsTyped ==
  /\ owners \in [Machines -> Candidates \union {None}]
  /\ completed \in [Machines -> Candidates \union {None}]
  /\ pending \in [Machines -> Candidates \union {None}]
  /\ tombstone \in [Machines -> Candidates \union {None}]
  /\ published \in [Machines -> Nat]
  /\ left \in [Kinds -> Nat]

PublishersTyped ==
  /\ pc \in [Machines -> Publishing]
  /\ seen \in [Machines -> Epochs \union {None}]
  /\ settled \in [Machines -> BOOLEAN]

HeadTyped ==
  /\ head \in [epoch : Epochs, leased : BOOLEAN]
  /\ chain \in Seq(Entries) /\ chain # <<>>
  /\ late \subseteq Puts
  /\ objects \subseteq (Machines \X Contents) \union {Tree(i) : i \in DOMAIN chain}

CollectionTyped ==
  /\ now \in 0 .. MaxTime
  /\ seal \in BOOLEAN /\ hold \in BOOLEAN
  /\ link \in Links \union {None}
  /\ gc \in [pc : Collecting, clock : Nat, seen : Epochs \union {None}, todo : SUBSET objects]

\* How a machine's disk and its entries of the coordinator go together.
Journals ==
  \A m \in Machines :
    /\ owners[m] \in {None, pending[m]}
    /\ completed[m] \in {None, pending[m], tombstone[m]}
    /\ completed[m] # None => owners[m] = None
    /\ tombstone[m] # None => pending[m] \in {None, tombstone[m]} /\ owners[m] = None

\* A candidate is numbered past what its machine published, within the bound.
Numbered ==
  \A m \in Machines :
    /\ published[m] + left["publish"] <= Budget["publish"]
    /\ pending[m] # None =>
         /\ pending[m].by = m /\ published[m] <= pending[m].n
         /\ pending[m].n + left["publish"] <= Budget["publish"]

\* What the machine knows at each place of its publication.
Places ==
  \A m \in Machines :
    /\ pc[m] \in Uploading => pending[m] # None /\ owners[m] = pending[m] /\ ~settled[m]
    /\ pc[m] \in {"acknowledge", "complete"} => pending[m] # None /\ Receipt(pending[m])
    /\ pc[m] = "acknowledge" =>
         IF settled[m] THEN completed[m] = pending[m] ELSE owners[m] = pending[m]
    /\ pc[m] = "complete" => owners[m] = pending[m] /\ published[m] = pending[m].n
    /\ pc[m] = "bury" =>
         pending[m] # None /\ completed[m] = pending[m] /\ published[m] = pending[m].n
    /\ pc[m] = "unlink" => pending[m] \in {None, tombstone[m]}
    /\ pc[m] \in {"forget", "retire"} => pending[m] = None
    /\ pc[m] = "retire" => completed[m] = None
    /\ pc[m] \in Removing <=> (tombstone[m] # None /\ pc[m] # "idle")

\* The head knows a candidate exactly once it was committed, and a candidate it
\* knows is admitted, completed or recorded as published.
Committed ==
  \A m \in Machines :
    /\ completed[m] # None => Receipt(completed[m])
    /\ tombstone[m] # None => Receipt(tombstone[m]) /\ published[m] >= tombstone[m].n
    /\ pending[m] # None /\ tombstone[m] = None /\ Receipt(pending[m]) =>
         pending[m] \in {owners[m], completed[m]}
    /\ \A i \in DOMAIN chain :
         chain[i].by = m => \/ chain[i].n <= published[m]
                            \/ pending[m] # None /\ chain[i].n = pending[m].n

\* A commit prepared on the head that is there is of a candidate the head does
\* not know, and the head is not leased.
Prepared ==
  \A m \in Machines :
    pc[m] = "commit" /\ seen[m] = head.epoch => ~Receipt(pending[m]) /\ ~head.leased

\* A write in flight is prepared on the head that is there.  A commit's owner is
\* still admitted, and its head is not one anybody has seen; a collection's leads
\* to a head it has announced.
InFlight ==
  \A p \in late :
    /\ p.match = head.epoch
    /\ p.commit # None =>
         /\ owners[p.commit.by] = p.commit /\ Source(p.commit) \in objects
         /\ ~Receipt(p.commit) /\ ~p.leased
         /\ p.epoch # head.epoch /\ \A m \in Machines : seen[m] # p.epoch
    /\ p.commit = None =>
         /\ link # None /\ head.epoch # link.released
         /\ p.epoch = IF p.leased THEN link.leased ELSE link.released

\* What completed and committed candidates refer to is there.
Claimed ==
  \A m \in Machines :
    /\ completed[m] # None => Source(completed[m]) \in objects
    /\ owners[m] # None /\ (Receipt(owners[m]) \/ pc[m] = "commit") =>
         Source(owners[m]) \in objects

\* The barrier is held by one that found nobody admitted, and a collection that
\* linked itself holds it.
Barrier ==
  /\ hold => Drained
  /\ link # None => hold
  /\ gc.pc = "link" => hold
  /\ gc.pc \in Linked => link # None
  /\ gc.pc = "lease" => gc.seen = link.prior
  /\ gc.pc \in {"mark", "sweep"} => gc.seen = link.leased
  /\ gc.pc = "release" => link.released # None /\ gc.seen \in {link.prior, link.leased}
  /\ gc.pc \in {"off", "clock", "hold", "link", "recover"} => gc.todo = {}

\* The head under a link is one of the three it announced, and leased only as
\* announced.
Announced ==
  /\ head.leased => link # None /\ head.epoch = link.leased
  /\ link # None =>
       /\ link.prior # link.leased /\ link.released \notin {link.prior, link.leased}
       /\ head.epoch \in {link.prior, link.leased, link.released}

\* While a collection marks and sweeps nothing in flight can move the head, and
\* what it will delete is of no head that its clock retains and of no receipt.
Sweeping ==
  /\ gc.pc \in {"hold", "link", "lease", "mark", "sweep"} => gc.clock <= now
  /\ gc.pc \in {"mark", "sweep"} => head.leased /\ late = {}
  /\ gc.pc = "sweep" =>
       /\ \A i \in DOMAIN chain : Retained(i, gc.clock) => Reaches(i) \intersect gc.todo = {}
       /\ \A m \in Machines : completed[m] # None => Source(completed[m]) \notin gc.todo

Types == RecordsTyped /\ PublishersTyped /\ HeadTyped /\ CollectionTyped

\* The inductive invariant.
IInv ==
  /\ Types
  /\ Journals /\ Numbered /\ Places /\ Committed /\ Prepared /\ InFlight
  /\ Claimed /\ Barrier /\ Announced /\ Sweeping
  /\ SnapshotKept /\ CommittedOnce

-----------------------------------------------------------------------------
(* Facts about the steps                                                   *)

\* A machine's step leaves what belongs to the other machines.
OthersStay(m) ==
  \A q \in Machines \ {m} :
    /\ owners'[q] = owners[q] /\ completed'[q] = completed[q]
    /\ pending'[q] = pending[q] /\ tombstone'[q] = tombstone[q]
    /\ published'[q] = published[q] /\ pc'[q] = pc[q]
    /\ seen'[q] = seen[q] /\ settled'[q] = settled[q]

\* The budget is spent on something else than a publication.
Spent == left' \in [Kinds -> Nat] /\ left'["publish"] = left["publish"]

LEMMA BoundsTyped ==
  /\ Lifetime \in Nat /\ Uncertainty \in Nat /\ Precision \in Nat /\ MaxTime \in Nat
  /\ Precision > 0 /\ Budget \in [Kinds -> Nat] /\ Budget["publish"] \in Nat
BY BoundsAssumption DEF Kinds

LEMMA UseTyped ==
  ASSUME RecordsTyped, NEW kind \in Kinds, Use(kind)
  PROVE  /\ left' \in [Kinds -> Nat] /\ left[kind] > 0 /\ left'[kind] = left[kind] - 1
         /\ kind # "publish" => Spent
BY DEF RecordsTyped, Use, Spent, Kinds

\* A machine goes on, or it stops.
LEMMA GoTyped ==
  ASSUME Types, NEW m \in Machines, NEW next \in Publishing, Go(m, next)
  PROVE  /\ pc' \in [Machines -> Publishing] /\ pc'[m] \in {next, "idle"}
         /\ \A q \in Machines \ {m} : pc'[q] = pc[q]
         /\ Spent
<1>1. CASE pc' = [pc EXCEPT ![m] = next] /\ UNCHANGED left
  BY <1>1 DEF Types, PublishersTyped, RecordsTyped, Spent
<1>2. CASE pc' = [pc EXCEPT ![m] = "idle"] /\ Use("stop")
  BY <1>2, UseTyped DEF Types, PublishersTyped, Kinds, Publishing
<1> QED  BY <1>1, <1>2 DEF Go

\* An epoch that is new is one of Epochs that nothing stored or in flight has.
LEMMA FreshEpochIsFresh ==
  ASSUME Types, FreshEpochs # {}
  PROVE  /\ FreshEpoch \in Epochs /\ FreshEpoch # None
         /\ FreshEpoch # head.epoch /\ FreshEpoch # gc.seen
         /\ \A m \in Machines : seen[m] # FreshEpoch
         /\ \A p \in late : FreshEpoch # p.epoch
         /\ link # None => FreshEpoch \notin {link.prior, link.leased, link.released}
<1>1. FreshEpoch \in FreshEpochs
  BY DEF FreshEpoch
<1>2. \A m \in Machines : seen[m] \in Range(seen)
  BY DEF Types, PublishersTyped, Range
<1> QED  BY <1>1, <1>2, NamesAssumption DEF FreshEpochs

\* A candidate has a number and a machine.
LEMMA CandidateTyped ==
  ASSUME Types, NEW m \in Machines
  PROVE  /\ pending[m] # None =>
              /\ pending[m] \in Candidates /\ pending[m].n \in Nat /\ pending[m].by \in Machines
              /\ Source(pending[m]) \in Machines \X Contents
         /\ \A p \in late : p.commit # None => p.commit.by \in Machines
BY DEF Types, RecordsTyped, HeadTyped, Puts, Candidates, Source

\* While the head stays, a write in flight stays what it was if its owner stays
\* admitted and nobody saw another head.
LEMMA InFlightKept ==
  ASSUME IInv, late' = late, head' = head, chain' = chain, link' = link,
         objects \subseteq objects',
         \A q \in Machines : seen'[q] \in {seen[q], None, head.epoch},
         \A q \in Machines : owners[q] # None /\ ~Receipt(owners[q]) => owners'[q] = owners[q]
  PROVE  InFlight'
<1> SUFFICES ASSUME NEW p \in late
             PROVE  /\ p.match = head.epoch
                    /\ p.commit # None =>
                         /\ owners'[p.commit.by] = p.commit /\ Source(p.commit) \in objects'
                         /\ ~Receipt(p.commit) /\ ~p.leased
                         /\ p.epoch # head.epoch /\ \A m \in Machines : seen'[m] # p.epoch
                    /\ p.commit = None =>
                         /\ link # None /\ head.epoch # link.released
                         /\ p.epoch = IF p.leased THEN link.leased ELSE link.released
  BY DEF InFlight, Receipt, Source
<1>1. p.epoch # None
  BY NamesAssumption DEF IInv, Types, HeadTyped, Puts
<1>2. p.commit # None => p.commit.by \in Machines
  BY DEF IInv, Types, HeadTyped, Puts, Candidates
<1> QED  BY <1>1, <1>2 DEF IInv, InFlight

\* The head's chain is a sequence of publications that is not empty.
LEMMA ChainTyped ==
  ASSUME Types
  PROVE  /\ DOMAIN chain = 1 .. Len(chain) /\ Len(chain) \in Nat /\ Len(chain) > 0
         /\ \A i \in DOMAIN chain :
              /\ chain[i] \in Entries /\ chain[i].n \in Nat /\ chain[i].at \in Nat
              /\ chain[i].at <= MaxTime /\ chain[i].roots \in [Machines -> Contents \union {None}]
<1>1. chain \in Seq(Entries) /\ chain # <<>>
  BY DEF Types, HeadTyped
<1>2. DOMAIN chain = 1 .. Len(chain) /\ Len(chain) \in Nat
  BY <1>1
<1>3. Len(chain) # 0
  BY <1>1
<1>4. \A i \in DOMAIN chain : chain[i] \in Entries
  BY <1>1
<1>5. \A i \in DOMAIN chain : chain[i].at \in 0 .. MaxTime
  BY <1>4 DEF Entries
<1>6. \A i \in DOMAIN chain : chain[i].n \in Nat /\ chain[i].roots \in [Machines -> Contents \union {None}]
  BY <1>4 DEF Entries
<1> QED  BY <1>2, <1>3, <1>4, <1>5, <1>6, BoundsTyped

\* A held barrier leaves no publisher admitted and no commit in flight.
LEMMA HeldHasNoOwner ==
  ASSUME IInv, hold
  PROVE  /\ \A m \in Machines : owners[m] = None /\ pc[m] \notin Uploading
         /\ \A p \in late : p.commit = None
<1>1. \A m \in Machines : owners[m] = None
  BY DEF IInv, Barrier, Drained
<1>2. \A m \in Machines : pc[m] \notin Uploading
  BY <1>1 DEF IInv, Places
<1>3. \A p \in late : p.commit # None => p.commit.by \in Machines /\ owners[p.commit.by] = p.commit
  BY DEF IInv, InFlight, Types, HeadTyped, Puts, Candidates
<1> QED  BY <1>1, <1>2, <1>3

\* A write of the head that commits nothing moves the epoch and the lease.
LEMMA PutMoves ==
  ASSUME Types, NEW p \in Puts, p.commit = None, Put(p)
  PROVE  /\ head.epoch = p.match /\ head' = [epoch |-> p.epoch, leased |-> p.leased]
         /\ chain' = chain /\ objects' = objects /\ late' = {}
         /\ HeadTyped'
<1>1. /\ head.epoch = p.match /\ head' = [epoch |-> p.epoch, leased |-> p.leased]
      /\ chain' = chain /\ objects' = objects /\ late' = {}
  BY DEF Put
<1>2. p.epoch \in Epochs /\ p.leased \in BOOLEAN
  BY DEF Puts
<1> QED  BY <1>1, <1>2 DEF Types, HeadTyped, Tree

\* A commit adds a publication to the chain.
LEMMA PutCommits ==
  ASSUME Types, NEW p \in Puts, p.commit # None, Put(p)
  PROVE  /\ head.epoch = p.match /\ head' = [epoch |-> p.epoch, leased |-> p.leased]
         /\ late' = {} /\ objects' = objects \union {Tree(Len(chain) + 1)}
         /\ Len(chain') = Len(chain) + 1 /\ Len(chain) + 1 \notin DOMAIN chain
         /\ DOMAIN chain' = DOMAIN chain \union {Len(chain) + 1}
         /\ \A i \in DOMAIN chain : chain'[i] = chain[i]
         /\ chain'[Len(chain) + 1].by = p.commit.by /\ chain'[Len(chain) + 1].n = p.commit.n
         /\ chain'[Len(chain) + 1].at = now
         /\ chain'[Len(chain) + 1].roots =
              [chain[Len(chain)].roots EXCEPT ![p.commit.by] = p.commit.content]
         /\ HeadTyped'
<1> DEFINE e == [by |-> p.commit.by, n |-> p.commit.n, at |-> now,
                 roots |-> [chain[Len(chain)].roots EXCEPT ![p.commit.by] = p.commit.content]]
<1>1. /\ head.epoch = p.match /\ head' = [epoch |-> p.epoch, leased |-> p.leased]
      /\ chain' = Append(chain, e) /\ late' = {}
      /\ objects' = objects \union {Tree(Len(chain) + 1)}
  BY DEF Put, Last
<1>2. /\ p.epoch \in Epochs /\ p.leased \in BOOLEAN /\ p.commit \in Candidates
  BY DEF Puts
<1>3. p.commit.by \in Machines /\ p.commit.n \in Nat /\ p.commit.content \in Contents
  BY <1>2 DEF Candidates
<1>4. chain \in Seq(Entries) /\ Len(chain) \in Nat /\ Len(chain) \in DOMAIN chain
      /\ DOMAIN chain = 1 .. Len(chain)
  BY ChainTyped DEF Types, HeadTyped
<1>5. chain[Len(chain)].roots \in [Machines -> Contents \union {None}]
  BY <1>4, ChainTyped
<1>6. [chain[Len(chain)].roots EXCEPT ![p.commit.by] = p.commit.content]
        \in [Machines -> Contents \union {None}]
  BY <1>3, <1>5
<1>7. now \in 0 .. MaxTime
  BY DEF Types, CollectionTyped
<1>8. e \in Entries
  BY <1>3, <1>6, <1>7 DEF Entries
<1>9. e.by = p.commit.by /\ e.n = p.commit.n /\ e.at = now
      /\ e.roots = [chain[Len(chain)].roots EXCEPT ![p.commit.by] = p.commit.content]
  OBVIOUS
<1> HIDE DEF e
<1>10. /\ chain' \in Seq(Entries) /\ Len(chain') = Len(chain) + 1
       /\ \A i \in DOMAIN chain : chain'[i] = chain[i]
       /\ chain'[Len(chain) + 1] = e
  BY <1>1, <1>4, <1>8
<1>11. DOMAIN chain' = 1 .. Len(chain) + 1
  BY <1>4, <1>10
<1>12. DOMAIN chain' = DOMAIN chain \union {Len(chain) + 1} /\ Len(chain) + 1 \notin DOMAIN chain
  BY <1>4, <1>11
<1>13. HeadTyped'
  <2>1. chain' # <<>>
    BY <1>4, <1>10
  <2>2. objects' \subseteq (Machines \X Contents) \union {Tree(i) : i \in DOMAIN chain'}
    BY <1>1, <1>12 DEF Types, HeadTyped
  <2> QED  BY <1>1, <1>2, <1>10, <2>1, <2>2 DEF HeadTyped, Tree
<1> QED  BY <1>1, <1>9, <1>10, <1>12, <1>13

\* The commit of an admitted candidate that the head does not know and whose
\* source is there keeps every snapshot, and the barrier is not held.
LEMMA ChainGrows ==
  ASSUME IInv, NEW p \in Puts, p.commit # None, Put(p),
         owners[p.commit.by] = p.commit, Source(p.commit) \in objects,
         ~Receipt(p.commit), ~p.leased,
         UNCHANGED <<now, hold, link, gc>>
  PROVE  /\ hold = FALSE /\ link = None
         /\ InFlight' /\ Announced' /\ Sweeping' /\ SnapshotKept' /\ CommittedOnce'
<1> DEFINE n == Len(chain)
<1>1. p.commit \in Candidates /\ p.commit.by \in Machines /\ p.commit.content \in Contents
  BY DEF Puts, Candidates
<1>2. hold = FALSE /\ link = None
  BY <1>1, HeldHasNoOwner DEF IInv, Barrier, Types, CollectionTyped
<1>3. InFlight' /\ Announced'
  <2>1. late' = {} /\ head' = [epoch |-> p.epoch, leased |-> p.leased]
    BY PutCommits DEF IInv
  <2>2. ~head'.leased
    BY <2>1
  <2> QED  BY <1>2, <2>1, <2>2 DEF InFlight, Announced
<1>4. Sweeping'
  BY <1>2 DEF IInv, Sweeping, Barrier, Linked
<1>5. /\ DOMAIN chain = 1 .. n /\ n \in Nat /\ n > 0
      /\ chain[n].roots \in [Machines -> Contents \union {None}]
  BY ChainTyped DEF IInv
<1>6. /\ objects' = objects \union {Tree(n + 1)} /\ Len(chain') = n + 1
      /\ DOMAIN chain' = DOMAIN chain \union {n + 1}
      /\ \A i \in DOMAIN chain : chain'[i] = chain[i]
      /\ chain'[n + 1].by = p.commit.by /\ chain'[n + 1].n = p.commit.n
      /\ chain'[n + 1].at = now
      /\ chain'[n + 1].roots = [chain[n].roots EXCEPT ![p.commit.by] = p.commit.content]
  BY PutCommits DEF IInv
<1> HIDE DEF n
<1>7. CommittedOnce'
  BY <1>6 DEF IInv, CommittedOnce, Receipt
<1>8. SnapshotKept'
  <2> SUFFICES ASSUME NEW i \in DOMAIN chain',
                      i = Len(chain') \/ now < chain'[i + 1].at + Lifetime
               PROVE  Reaches(i)' \subseteq objects'
    BY DEF SnapshotKept
  <2>1. Reaches(n) \subseteq objects
    BY <1>5 DEF IInv, SnapshotKept, n
  <2>2. CASE i = n + 1
    <3>1. \A m \in Machines : chain'[i].roots[m] # None => <<m, chain'[i].roots[m]>> \in objects
      BY <1>1, <1>5, <1>6, <2>1, <2>2 DEF Reaches, Source
    <3> QED  BY <1>6, <2>2, <3>1 DEF Reaches
  <2>3. CASE i = n
    BY <1>5, <1>6, <2>1, <2>3 DEF Reaches, Tree
  <2>4. CASE i \in DOMAIN chain /\ i # n
    <3>1. i + 1 \in DOMAIN chain /\ i # Len(chain)'
      BY <1>5, <1>6, <2>4
    <3>2. Reaches(i) \subseteq objects
      BY <1>6, <2>4, <3>1 DEF IInv, SnapshotKept
    <3> QED  BY <1>6, <2>4, <3>2 DEF Reaches, Tree
  <2> QED  BY <1>6, <2>2, <2>3, <2>4
<1> QED  BY <1>2, <1>3, <1>4, <1>7, <1>8

\* What an admitted machine commits.
LEMMA CommitPutTyped ==
  ASSUME IInv, NEW m \in Machines, Commit(m)
  PROVE  \E p \in Puts :
           /\ p = CommitPut(m) /\ p.match = head.epoch /\ p.epoch = FreshEpoch
           /\ ~p.leased /\ p.commit = pending[m] /\ p.commit # None /\ p.commit.by = m
<1>1. pc[m] = "commit" /\ head.epoch = seen[m] /\ FreshEpochs # {}
  BY DEF Commit
<1>2. FreshEpoch \in Epochs /\ head.epoch \in Epochs
  BY <1>1, FreshEpochIsFresh DEF IInv, Types, HeadTyped
<1>3. pending[m] # None /\ pending[m].by = m /\ pending[m] \in Candidates
  BY <1>1, CandidateTyped DEF IInv, Places, Uploading, Numbered
<1>4. CommitPut(m) =
        [match |-> head.epoch, epoch |-> FreshEpoch, leased |-> FALSE, commit |-> pending[m]]
  BY <1>1 DEF CommitPut
<1>5. CommitPut(m) \in Puts
  BY <1>2, <1>3, <1>4 DEF Puts
<1> QED  BY <1>3, <1>4, <1>5

\* The collection moves to a place it has, goes on or stops.
LEMMA AtTyped ==
  ASSUME Types, NEW place \in Collecting
  PROVE  /\ At(place) \in [pc : Collecting, clock : Nat, seen : Epochs \union {None},
                           todo : SUBSET objects]
         /\ At(place).pc = place /\ At(place).clock = gc.clock
         /\ At(place).seen = gc.seen /\ At(place).todo = gc.todo
BY DEF Types, CollectionTyped, At

LEMMA IdleTyped ==
  /\ Idle \in [pc : Collecting, clock : Nat, seen : Epochs \union {None}, todo : SUBSET objects]
  /\ Idle.pc = "off" /\ Idle.todo = {}
BY DEF Idle, Collecting

LEMMA GcGoTyped ==
  ASSUME Types, NEW next, GcGo(next)
  PROVE  gc' \in {next, Idle} /\ Spent
BY UseTyped DEF GcGo, Types, RecordsTyped, Spent, Kinds

\* Rounding a time down to its precision loses less than the precision.
LEMMA RoundedDown ==
  ASSUME NEW x \in Nat, NEW unit \in Nat, unit > 0
  PROVE  (x \div unit) * unit \in Nat /\ (x \div unit) * unit + unit > x
<1>1. x \div unit \in Nat
  OBVIOUS
<1>2. (x \div unit) * unit + unit > x
  OBVIOUS
<1>3. \A q \in Nat : q * unit \in Nat
  OBVIOUS
<1> QED  BY <1>1, <1>2, <1>3

\* A head whose lifetime is not over is retained by any clock that is not ahead.
LEMMA CoveredIsRetained ==
  ASSUME Types, NEW clock \in Nat, clock <= now, NEW i \in DOMAIN chain,
         i = Len(chain) \/ now < chain[i + 1].at + Lifetime
  PROVE  Retained(i, clock)
<1>1. CASE i = Len(chain)
  BY <1>1 DEF Retained
<1>2. CASE i # Len(chain)
  <2>1. i + 1 \in DOMAIN chain
    BY <1>2, ChainTyped
  <2>2. chain[i + 1].at \in Nat /\ now \in Nat /\ Lifetime \in Nat /\ Precision \in Nat /\ Precision > 0
    BY <2>1, ChainTyped, BoundsTyped DEF Types, CollectionTyped
  <2> DEFINE rounded == (chain[i + 1].at \div Precision) * Precision
  <2>3. rounded \in Nat /\ rounded + Precision > chain[i + 1].at
    BY <2>2, RoundedDown
  <2>4. LastModified(i + 1) = rounded
    BY DEF LastModified
  <2> HIDE DEF rounded
  <2>5. rounded + Precision + Lifetime >= clock
    BY <1>2, <2>2, <2>3
  <2> QED  BY <2>4, <2>5 DEF Retained
<1> QED  BY <1>1, <1>2

\* While a machine goes on and the head and the collection stay where they are,
\* what is known of them stays, as long as no claim is made on a held barrier.
LEMMA HeadKept ==
  ASSUME IInv, now' = now, seal' = seal, hold' = hold, link' = link, gc' = gc,
         head' = head, chain' = chain, late' = late,
         objects \subseteq objects', objects' \subseteq objects \union (Machines \X Contents),
         \A q \in Machines :
           /\ seen'[q] \in {seen[q], None, head.epoch}
           /\ owners[q] # None /\ ~Receipt(owners[q]) => owners'[q] = owners[q]
           /\ hold => owners'[q] = owners[q] /\ completed'[q] \in {None, completed[q]}
  PROVE  /\ HeadTyped' /\ CollectionTyped' /\ InFlight' /\ Barrier' /\ Announced' /\ Sweeping'
         /\ SnapshotKept' /\ CommittedOnce'
<1>1. HeadTyped'
  BY DEF IInv, Types, HeadTyped, Tree
<1>2. CollectionTyped'
  BY DEF IInv, Types, CollectionTyped
<1>3. InFlight'
  BY InFlightKept
<1>4. Barrier' /\ Announced'
  BY DEF IInv, Barrier, Announced, Drained
<1>5. SnapshotKept' /\ CommittedOnce'
  BY DEF IInv, SnapshotKept, CommittedOnce, Reaches, Tree
<1>6. gc.pc = "sweep" => hold
  BY DEF IInv, Barrier, Linked
<1>7. Sweeping'
  BY <1>6 DEF IInv, Sweeping, Retained, LastModified, Reaches, Tree, Source
<1> QED  BY <1>1, <1>2, <1>3, <1>4, <1>5, <1>7

\* While the collection goes on, what is known of the machines stays: it moves
\* the head or deletes only with the barrier held, and never what is completed.
LEMMA MachinesKept ==
  ASSUME IInv, owners' = owners, completed' = completed, pending' = pending,
         tombstone' = tombstone, published' = published, pc' = pc, seen' = seen,
         settled' = settled, chain' = chain, Spent,
         head' = head \/ hold, objects \subseteq objects' \/ hold,
         \A m \in Machines : completed[m] # None => Source(completed[m]) \in objects'
  PROVE  /\ RecordsTyped' /\ PublishersTyped' /\ Journals' /\ Numbered' /\ Places'
         /\ Committed' /\ Prepared' /\ Claimed'
<1>1. RecordsTyped' /\ PublishersTyped'
  BY DEF IInv, Types, RecordsTyped, PublishersTyped, Spent
<1>2. Journals' /\ Numbered'
  BY DEF IInv, Journals, Numbered, Spent
<1>3. Places' /\ Committed'
  BY DEF IInv, Places, Committed, Receipt
<1>4. \A m \in Machines : hold => owners[m] = None /\ pc[m] \notin Uploading
  BY HeldHasNoOwner
<1>5. Prepared'
  BY <1>4 DEF IInv, Prepared, Receipt, Uploading
<1>6. Claimed'
  BY <1>4 DEF IInv, Claimed, Receipt, Source
<1> QED  BY <1>1, <1>2, <1>3, <1>5, <1>6

\* While the collection leaves the head and its announcement alone, so do they.
LEMMA ChainKept ==
  ASSUME IInv, now' = now, head' = head, chain' = chain, late' = late, objects' = objects,
         link' = link, owners' = owners, seen' = seen
  PROVE  HeadTyped' /\ InFlight' /\ Announced' /\ SnapshotKept' /\ CommittedOnce'
<1>1. HeadTyped'
  BY DEF IInv, Types, HeadTyped, Tree
<1>2. InFlight'
  BY InFlightKept
<1>3. Announced' /\ CommittedOnce'
  BY DEF IInv, Announced, CommittedOnce
<1>4. SnapshotKept'
  BY DEF IInv, SnapshotKept, Reaches, Tree
<1> QED  BY <1>1, <1>2, <1>3, <1>4

-----------------------------------------------------------------------------
(* Every action keeps the invariant                                        *)

\* A new candidate is one the head does not know.
LEMMA PrepareInv ==
  ASSUME IInv, NEW m \in Machines, Prepare(m)
  PROVE  IInv'
<1>1. /\ now' = now /\ seal' = seal /\ hold' = hold /\ link' = link /\ gc' = gc
      /\ head' = head /\ chain' = chain /\ late' = late
      /\ objects' = objects /\ pc' = pc
      /\ owners' = owners /\ completed' = completed /\ tombstone' = tombstone
      /\ published' = published /\ seen' = seen /\ settled' = settled
  BY DEF Prepare, coordinator, bucket, disks, publishers
<1>2. /\ pc[m] = "idle" /\ pending[m] = None /\ tombstone[m] = None
      /\ left' \in [Kinds -> Nat] /\ left["publish"] > 0
      /\ left'["publish"] = left["publish"] - 1
  BY UseTyped DEF Prepare, IInv, Types, Kinds
<1>3. /\ published[m] \in Nat /\ left["publish"] \in Nat
      /\ published[m] + left["publish"] <= Budget["publish"]
  BY DEF IInv, Types, RecordsTyped, Numbered, Kinds
<1>4. published[m] + 1 \in 1 .. Budget["publish"]
  BY <1>2, <1>3, BoundsTyped
<1>5. PICK c \in Offered(published[m] + 1) :
        pending' = [pending EXCEPT ![m] = [by |-> m, n |-> published[m] + 1, content |-> c]]
  BY DEF Prepare
<1>6. c \in Contents
  BY <1>4, BoundsAssumption
<1>7. /\ pending'[m] \in Candidates /\ pending'[m] # None
      /\ pending'[m].by = m /\ pending'[m].n = published[m] + 1
      /\ pending' \in [Machines -> Candidates \union {None}]
      /\ \A q \in Machines \ {m} : pending'[q] = pending[q]
  BY <1>3, <1>5, <1>6, NamesAssumption DEF IInv, Types, RecordsTyped, Candidates
<1>8. \A i \in DOMAIN chain : ~(chain[i].by = m /\ chain[i].n = published[m] + 1)
  BY <1>2, <1>3, ChainTyped DEF IInv, Committed
<1>9. \A q \in Machines : published[q] \in Nat /\ (pending[q] # None => pending[q].n \in Nat)
  BY CandidateTyped DEF IInv, Types, RecordsTyped
<1>10. \A q \in Machines :
         /\ published'[q] \in Nat
         /\ pending'[q] # None => pending'[q].n \in Nat /\ (q # m => pending'[q] = pending[q])
  BY <1>1, <1>3, <1>7, <1>9
<1>11. OthersStay(m)
  BY <1>1, <1>2, <1>3, <1>4, <1>5, <1>6, <1>7, <1>8, <1>9, <1>10 DEF IInv, Types,
     RecordsTyped, PublishersTyped, HeadTyped, CollectionTyped, OthersStay, Prepare
<1>12. \A q \in Machines :
         /\ seen'[q] \in {seen[q], None, head.epoch}
         /\ owners[q] # None /\ ~Receipt(owners[q]) => owners'[q] = owners[q]
         /\ hold => owners'[q] = owners[q] /\ completed'[q] \in {None, completed[q]}
  BY <1>1, <1>2, <1>3, <1>4, <1>5, <1>6, <1>7, <1>8, <1>9, <1>10, <1>11 DEF OthersStay
<1>13. HeadTyped' /\ CollectionTyped' /\ InFlight' /\ Barrier' /\ Announced' /\ Sweeping'
   /\ SnapshotKept' /\ CommittedOnce'
  BY <1>1, <1>12, HeadKept
<1>14. RecordsTyped'
  BY <1>1, <1>2, <1>3, <1>4, <1>5, <1>6, <1>7, <1>8, <1>9, <1>10, <1>11, <1>12 DEF IInv,
     Types, RecordsTyped, Spent, Prepare
<1>15. PublishersTyped'
  BY <1>1, <1>2, <1>3, <1>4, <1>5, <1>6, <1>7, <1>8, <1>9, <1>10, <1>11, <1>12 DEF IInv,
     Types, PublishersTyped, Publishing, Uploading, Removing, Prepare
<1>16. Journals'
  BY <1>1, <1>2, <1>3, <1>4, <1>5, <1>6, <1>7, <1>8, <1>9, <1>10, <1>11, <1>12 DEF IInv,
     Journals, Places, Uploading, Removing, OthersStay
<1>17. Numbered'
  BY <1>1, <1>2, <1>3, <1>4, <1>5, <1>6, <1>7, <1>8, <1>9, <1>10, <1>11, <1>12,
     BoundsTyped DEF IInv, Numbered, Spent, OthersStay
<1>18. Places'
  BY <1>1, <1>2, <1>3, <1>4, <1>5, <1>6, <1>7, <1>8, <1>9, <1>10, <1>11, <1>12 DEF IInv,
     Places, Receipt, Journals, Uploading, Removing, OthersStay
<1>19. Committed'
  BY <1>1, <1>2, <1>3, <1>4, <1>5, <1>6, <1>7, <1>8, <1>9, <1>10, <1>11, <1>12 DEF IInv,
     Committed, Receipt, Journals, Places, Uploading, Removing, OthersStay
<1>20. Prepared'
  BY <1>1, <1>2, <1>3, <1>4, <1>5, <1>6, <1>7, <1>8, <1>9, <1>10, <1>11, <1>12 DEF IInv,
     Prepared, Receipt, Places, Uploading, OthersStay
<1>21. Claimed'
  BY <1>1, <1>2, <1>3, <1>4, <1>5, <1>6, <1>7, <1>8, <1>9, <1>10, <1>11, <1>12 DEF IInv,
     Claimed, Receipt, Source, OthersStay
<1> QED  BY <1>13, <1>14, <1>15, <1>16, <1>17, <1>18, <1>19, <1>20, <1>21 DEF IInv, Types

\* A completed journal has local work left only.
LEMMA BeginSettledInv ==
  ASSUME IInv, NEW m \in Machines, completed[m] = pending[m], Begin(m)
  PROVE  IInv'
<1>1. /\ now' = now /\ seal' = seal /\ hold' = hold /\ link' = link /\ gc' = gc
      /\ head' = head /\ chain' = chain /\ late' = late
      /\ objects' = objects
      /\ owners' = owners /\ completed' = completed /\ pending' = pending
      /\ tombstone' = tombstone /\ published' = published /\ seen' = seen
  BY DEF Begin, coordinator, bucket, disks, publishers
<1>2. pc[m] = "idle" /\ pending[m] # None /\ tombstone[m] = None
  BY DEF Begin
<1>3. /\ pc' \in [Machines -> Publishing] /\ pc'[m] \in {"acknowledge", "idle"}
      /\ \A q \in Machines \ {m} : pc'[q] = pc[q]
      /\ Spent
  BY GoTyped DEF IInv, Begin, Publishing, Uploading, Removing
<1>4. OthersStay(m) /\ settled'[m] = TRUE
  BY <1>1, <1>2, <1>3 DEF IInv, Types, RecordsTyped, PublishersTyped, HeadTyped,
     CollectionTyped, OthersStay, Begin
<1>5. \A q \in Machines :
        /\ seen'[q] \in {seen[q], None, head.epoch}
        /\ owners[q] # None /\ ~Receipt(owners[q]) => owners'[q] = owners[q]
        /\ hold => owners'[q] = owners[q] /\ completed'[q] \in {None, completed[q]}
  BY <1>1, <1>2, <1>3, <1>4 DEF OthersStay
<1>6. HeadTyped' /\ CollectionTyped' /\ InFlight' /\ Barrier' /\ Announced' /\ Sweeping'
   /\ SnapshotKept' /\ CommittedOnce'
  BY <1>1, <1>5, HeadKept
<1>7. RecordsTyped'
  BY <1>1, <1>2, <1>3, <1>4, <1>5 DEF IInv, Types, RecordsTyped, Spent, Begin
<1>8. PublishersTyped'
  BY <1>1, <1>2, <1>3, <1>4, <1>5 DEF IInv, Types, PublishersTyped, Publishing, Uploading,
     Removing, Begin
<1>9. Journals'
  BY <1>1, <1>2, <1>3, <1>4, <1>5 DEF IInv, Journals, Places, Uploading, Removing,
     OthersStay
<1>10. Numbered'
  BY <1>1, <1>2, <1>3, <1>4, <1>5 DEF IInv, Numbered, Spent, OthersStay
<1>11. Places'
  BY <1>1, <1>2, <1>3, <1>4, <1>5 DEF IInv, Places, Receipt, Journals, Uploading,
     Removing, Committed, OthersStay
<1>12. Committed'
  BY <1>1, <1>2, <1>3, <1>4, <1>5 DEF IInv, Committed, Receipt, Journals, Places,
     Uploading, Removing, OthersStay
<1>13. Prepared'
  BY <1>1, <1>2, <1>3, <1>4, <1>5 DEF IInv, Prepared, Receipt, Places, Uploading,
     OthersStay
<1>14. Claimed'
  BY <1>1, <1>2, <1>3, <1>4, <1>5 DEF IInv, Claimed, Receipt, Source, OthersStay
<1> QED  BY <1>6, <1>7, <1>8, <1>9, <1>10, <1>11, <1>12, <1>13, <1>14 DEF IInv, Types

\* A candidate is admitted while nobody holds the barrier.
LEMMA BeginInv ==
  ASSUME IInv, NEW m \in Machines, completed[m] # pending[m], Begin(m)
  PROVE  IInv'
<1>1. /\ now' = now /\ seal' = seal /\ hold' = hold /\ link' = link /\ gc' = gc
      /\ head' = head /\ chain' = chain /\ late' = late
      /\ objects' = objects
      /\ completed' = completed /\ pending' = pending /\ tombstone' = tombstone
      /\ published' = published /\ seen' = seen
  BY DEF Begin, coordinator, bucket, disks, publishers
<1>2. /\ pc[m] = "idle" /\ pending[m] # None /\ tombstone[m] = None
      /\ ~hold /\ link = None /\ owners[m] \in {None, pending[m]}
  BY DEF Begin
<1>3. completed[m] = None
  BY <1>2 DEF IInv, Journals
<1>4. /\ pc' \in [Machines -> Publishing] /\ pc'[m] \in {"source", "idle"}
      /\ \A q \in Machines \ {m} : pc'[q] = pc[q]
      /\ Spent
  BY GoTyped DEF IInv, Begin, Publishing, Uploading, Removing
<1>5. OthersStay(m) /\ settled'[m] = FALSE /\ owners'[m] = pending[m]
  BY <1>1, <1>2, <1>3, <1>4 DEF IInv, Types, RecordsTyped, PublishersTyped, HeadTyped,
     CollectionTyped, OthersStay, Begin
<1>6. \A q \in Machines :
        /\ seen'[q] \in {seen[q], None, head.epoch}
        /\ owners[q] # None /\ ~Receipt(owners[q]) => owners'[q] = owners[q]
        /\ hold => owners'[q] = owners[q] /\ completed'[q] \in {None, completed[q]}
  BY <1>1, <1>2, <1>3, <1>4, <1>5 DEF OthersStay
<1>7. HeadTyped' /\ CollectionTyped' /\ InFlight' /\ Barrier' /\ Announced' /\ Sweeping'
   /\ SnapshotKept' /\ CommittedOnce'
  BY <1>1, <1>6, HeadKept
<1>8. RecordsTyped'
  BY <1>1, <1>2, <1>3, <1>4, <1>5, <1>6 DEF IInv, Types, RecordsTyped, Spent, Begin
<1>9. PublishersTyped'
  BY <1>1, <1>2, <1>3, <1>4, <1>5, <1>6 DEF IInv, Types, PublishersTyped, Publishing,
     Uploading, Removing, Begin
<1>10. Journals'
  BY <1>1, <1>2, <1>3, <1>4, <1>5, <1>6 DEF IInv, Journals, Places, Uploading, Removing,
     OthersStay
<1>11. Numbered'
  BY <1>1, <1>2, <1>3, <1>4, <1>5, <1>6 DEF IInv, Numbered, Spent, OthersStay
<1>12. Places'
  BY <1>1, <1>2, <1>3, <1>4, <1>5, <1>6 DEF IInv, Places, Receipt, Journals, Uploading,
     Removing, OthersStay
<1>13. Committed'
  BY <1>1, <1>2, <1>3, <1>4, <1>5, <1>6 DEF IInv, Committed, Receipt, Journals, Places,
     Uploading, Removing, OthersStay
<1>14. Prepared'
  BY <1>1, <1>2, <1>3, <1>4, <1>5, <1>6 DEF IInv, Prepared, Receipt, Places, Uploading,
     OthersStay
<1>15. Claimed'
  BY <1>1, <1>2, <1>3, <1>4, <1>5, <1>6 DEF IInv, Claimed, Receipt, Source, Committed,
     OthersStay
<1> QED  BY <1>7, <1>8, <1>9, <1>10, <1>11, <1>12, <1>13, <1>14, <1>15 DEF IInv, Types

\* What is uploaded is there.
LEMMA PutSourceInv ==
  ASSUME IInv, NEW m \in Machines, PutSource(m)
  PROVE  IInv'
<1>1. /\ now' = now /\ seal' = seal /\ hold' = hold /\ link' = link /\ gc' = gc
      /\ head' = head /\ chain' = chain /\ late' = late
      /\ objects \subseteq objects'
      /\ owners' = owners /\ completed' = completed /\ pending' = pending
      /\ tombstone' = tombstone /\ published' = published /\ seen' = seen /\ settled' = settled
  BY DEF PutSource, coordinator, bucket, disks, publishers
<1>2. pc[m] = "source" /\ objects' = objects \union {Source(pending[m])}
  BY DEF PutSource
<1>3. Source(pending[m]) \in Machines \X Contents
  BY <1>2, CandidateTyped DEF IInv, Places, Uploading
<1>4. /\ pc' \in [Machines -> Publishing] /\ pc'[m] \in {"read", "idle"}
      /\ \A q \in Machines \ {m} : pc'[q] = pc[q]
      /\ Spent
  BY GoTyped DEF IInv, PutSource, Publishing, Uploading, Removing
<1>5. OthersStay(m)
  BY <1>1, <1>2, <1>3, <1>4 DEF IInv, Types, RecordsTyped, PublishersTyped, HeadTyped,
     CollectionTyped, OthersStay, PutSource
<1>6. /\ objects \subseteq objects' /\ objects' \subseteq objects \union (Machines \X Contents)
      /\ \A q \in Machines :
           /\ seen'[q] \in {seen[q], None, head.epoch}
           /\ owners[q] # None /\ ~Receipt(owners[q]) => owners'[q] = owners[q]
           /\ hold => owners'[q] = owners[q] /\ completed'[q] \in {None, completed[q]}
  BY <1>1, <1>2, <1>3, <1>4, <1>5 DEF OthersStay
<1>7. HeadTyped' /\ CollectionTyped' /\ InFlight' /\ Barrier' /\ Announced' /\ Sweeping'
   /\ SnapshotKept' /\ CommittedOnce'
  BY <1>1, <1>6, HeadKept
<1>8. RecordsTyped'
  BY <1>1, <1>2, <1>3, <1>4, <1>5, <1>6 DEF IInv, Types, RecordsTyped, Spent, PutSource
<1>9. PublishersTyped'
  BY <1>1, <1>2, <1>3, <1>4, <1>5, <1>6 DEF IInv, Types, PublishersTyped, Publishing,
     Uploading, Removing, PutSource
<1>10. Journals'
  BY <1>1, <1>2, <1>3, <1>4, <1>5, <1>6 DEF IInv, Journals, Places, Uploading, Removing,
     OthersStay
<1>11. Numbered'
  BY <1>1, <1>2, <1>3, <1>4, <1>5, <1>6 DEF IInv, Numbered, Spent, OthersStay
<1>12. Places'
  BY <1>1, <1>2, <1>3, <1>4, <1>5, <1>6 DEF IInv, Places, Receipt, Journals, Uploading,
     Removing, OthersStay
<1>13. Committed'
  BY <1>1, <1>2, <1>3, <1>4, <1>5, <1>6 DEF IInv, Committed, Receipt, Journals, Places,
     Uploading, Removing, OthersStay
<1>14. Prepared'
  BY <1>1, <1>2, <1>3, <1>4, <1>5, <1>6 DEF IInv, Prepared, Receipt, Places, Uploading,
     OthersStay
<1>15. Claimed'
  BY <1>1, <1>2, <1>3, <1>4, <1>5, <1>6 DEF IInv, Claimed, Receipt, Source, OthersStay
<1> QED  BY <1>7, <1>8, <1>9, <1>10, <1>11, <1>12, <1>13, <1>14, <1>15 DEF IInv, Types

\* A candidate the head knows is not committed again.
LEMMA ReadKnownInv ==
  ASSUME IInv, NEW m \in Machines, Receipt(pending[m]), ReadHead(m)
  PROVE  IInv'
<1>1. /\ now' = now /\ seal' = seal /\ hold' = hold /\ link' = link /\ gc' = gc
      /\ head' = head /\ chain' = chain /\ late' = late
      /\ objects' = objects
      /\ owners' = owners /\ completed' = completed /\ pending' = pending
      /\ tombstone' = tombstone /\ published' = published /\ seen' = seen /\ settled' = settled
  BY DEF ReadHead, coordinator, bucket, disks, publishers
<1>2. pc[m] = "read"
  BY DEF ReadHead
<1>3. /\ pc' \in [Machines -> Publishing] /\ pc'[m] \in {"acknowledge", "idle"}
      /\ \A q \in Machines \ {m} : pc'[q] = pc[q]
      /\ Spent
  BY GoTyped DEF IInv, ReadHead, Publishing, Uploading, Removing
<1>4. OthersStay(m)
  BY <1>1, <1>2, <1>3 DEF IInv, Types, RecordsTyped, PublishersTyped, HeadTyped,
     CollectionTyped, OthersStay, ReadHead
<1>5. \A q \in Machines :
        /\ seen'[q] \in {seen[q], None, head.epoch}
        /\ owners[q] # None /\ ~Receipt(owners[q]) => owners'[q] = owners[q]
        /\ hold => owners'[q] = owners[q] /\ completed'[q] \in {None, completed[q]}
  BY <1>1, <1>2, <1>3, <1>4 DEF OthersStay
<1>6. HeadTyped' /\ CollectionTyped' /\ InFlight' /\ Barrier' /\ Announced' /\ Sweeping'
   /\ SnapshotKept' /\ CommittedOnce'
  BY <1>1, <1>5, HeadKept
<1>7. RecordsTyped'
  BY <1>1, <1>2, <1>3, <1>4, <1>5 DEF IInv, Types, RecordsTyped, Spent, ReadHead
<1>8. PublishersTyped'
  BY <1>1, <1>2, <1>3, <1>4, <1>5 DEF IInv, Types, PublishersTyped, Publishing, Uploading,
     Removing, ReadHead
<1>9. Journals'
  BY <1>1, <1>2, <1>3, <1>4, <1>5 DEF IInv, Journals, Places, Uploading, Removing,
     OthersStay
<1>10. Numbered'
  BY <1>1, <1>2, <1>3, <1>4, <1>5 DEF IInv, Numbered, Spent, OthersStay
<1>11. Places'
  BY <1>1, <1>2, <1>3, <1>4, <1>5 DEF IInv, Places, Receipt, Journals, Uploading,
     Removing, OthersStay
<1>12. Committed'
  BY <1>1, <1>2, <1>3, <1>4, <1>5 DEF IInv, Committed, Receipt, Journals, Places,
     Uploading, Removing, OthersStay
<1>13. Prepared'
  BY <1>1, <1>2, <1>3, <1>4, <1>5 DEF IInv, Prepared, Receipt, Places, Uploading,
     OthersStay
<1>14. Claimed'
  BY <1>1, <1>2, <1>3, <1>4, <1>5 DEF IInv, Claimed, Receipt, Source, OthersStay
<1> QED  BY <1>6, <1>7, <1>8, <1>9, <1>10, <1>11, <1>12, <1>13, <1>14 DEF IInv, Types

\* A commit is prepared on a head that does not know its candidate.
LEMMA ReadHeadInv ==
  ASSUME IInv, NEW m \in Machines, ~Receipt(pending[m]), ReadHead(m)
  PROVE  IInv'
<1>1. /\ now' = now /\ seal' = seal /\ hold' = hold /\ link' = link /\ gc' = gc
      /\ head' = head /\ chain' = chain /\ late' = late
      /\ objects' = objects
      /\ owners' = owners /\ completed' = completed /\ pending' = pending
      /\ tombstone' = tombstone /\ published' = published /\ settled' = settled
  BY DEF ReadHead, coordinator, bucket, disks, publishers
<1>2. pc[m] = "read" /\ ~head.leased /\ Source(pending[m]) \in objects
  BY DEF ReadHead
<1>3. owners[m] = pending[m]
  BY <1>2 DEF IInv, Places, Uploading
<1>4. /\ pc' \in [Machines -> Publishing] /\ pc'[m] \in {"commit", "idle"}
      /\ \A q \in Machines \ {m} : pc'[q] = pc[q]
      /\ Spent
  BY GoTyped DEF IInv, ReadHead, Publishing, Uploading, Removing
<1>5. OthersStay(m) /\ seen'[m] = head.epoch
  BY <1>1, <1>2, <1>3, <1>4 DEF IInv, Types, RecordsTyped, PublishersTyped, HeadTyped,
     CollectionTyped, OthersStay, ReadHead
<1>6. \A q \in Machines :
        /\ seen'[q] \in {seen[q], None, head.epoch}
        /\ owners[q] # None /\ ~Receipt(owners[q]) => owners'[q] = owners[q]
        /\ hold => owners'[q] = owners[q] /\ completed'[q] \in {None, completed[q]}
  BY <1>1, <1>2, <1>3, <1>4, <1>5 DEF OthersStay
<1>7. HeadTyped' /\ CollectionTyped' /\ InFlight' /\ Barrier' /\ Announced' /\ Sweeping'
   /\ SnapshotKept' /\ CommittedOnce'
  BY <1>1, <1>6, HeadKept
<1>8. RecordsTyped'
  BY <1>1, <1>2, <1>3, <1>4, <1>5, <1>6 DEF IInv, Types, RecordsTyped, Spent, ReadHead
<1>9. PublishersTyped'
  BY <1>1, <1>2, <1>3, <1>4, <1>5, <1>6 DEF IInv, Types, PublishersTyped, Publishing,
     Uploading, Removing, ReadHead, HeadTyped
<1>10. Journals'
  BY <1>1, <1>2, <1>3, <1>4, <1>5, <1>6 DEF IInv, Journals, Places, Uploading, Removing,
     OthersStay
<1>11. Numbered'
  BY <1>1, <1>2, <1>3, <1>4, <1>5, <1>6 DEF IInv, Numbered, Spent, OthersStay
<1>12. Places'
  BY <1>1, <1>2, <1>3, <1>4, <1>5, <1>6 DEF IInv, Places, Receipt, Journals, Uploading,
     Removing, OthersStay
<1>13. Committed'
  BY <1>1, <1>2, <1>3, <1>4, <1>5, <1>6 DEF IInv, Committed, Receipt, Journals, Places,
     Uploading, Removing, OthersStay
<1>14. Prepared'
  BY <1>1, <1>2, <1>3, <1>4, <1>5, <1>6 DEF IInv, Prepared, Receipt, Places, Uploading,
     OthersStay
<1>15. Claimed'
  BY <1>1, <1>2, <1>3, <1>4, <1>5, <1>6 DEF IInv, Claimed, Receipt, Source, OthersStay
<1> QED  BY <1>7, <1>8, <1>9, <1>10, <1>11, <1>12, <1>13, <1>14, <1>15 DEF IInv, Types

\* A conflict makes it read again.
LEMMA RebaseInv ==
  ASSUME IInv, NEW m \in Machines, Rebase(m)
  PROVE  IInv'
<1>1. /\ now' = now /\ seal' = seal /\ hold' = hold /\ link' = link /\ gc' = gc
      /\ head' = head /\ chain' = chain /\ late' = late
      /\ objects' = objects
      /\ owners' = owners /\ completed' = completed /\ pending' = pending
      /\ tombstone' = tombstone /\ published' = published /\ settled' = settled
  BY DEF Rebase, coordinator, bucket, disks, publishers
<1>2. pc' = [pc EXCEPT ![m] = "read"] /\ left' = left /\ pc[m] = "commit"
  BY DEF Rebase
<1>3. OthersStay(m) /\ seen'[m] = None
  BY <1>1, <1>2 DEF IInv, Types, RecordsTyped, PublishersTyped, HeadTyped,
     CollectionTyped, OthersStay, Rebase
<1>4. \A q \in Machines :
        /\ seen'[q] \in {seen[q], None, head.epoch}
        /\ owners[q] # None /\ ~Receipt(owners[q]) => owners'[q] = owners[q]
        /\ hold => owners'[q] = owners[q] /\ completed'[q] \in {None, completed[q]}
  BY <1>1, <1>2, <1>3 DEF OthersStay
<1>5. pc'[m] = "read"
  BY <1>2 DEF IInv, Types, RecordsTyped, PublishersTyped, HeadTyped, CollectionTyped
<1>6. HeadTyped' /\ CollectionTyped' /\ InFlight' /\ Barrier' /\ Announced' /\ Sweeping'
   /\ SnapshotKept' /\ CommittedOnce'
  BY <1>1, <1>4, HeadKept
<1>7. RecordsTyped'
  BY <1>1, <1>2, <1>3, <1>4, <1>5 DEF IInv, Types, RecordsTyped, Spent, Rebase
<1>8. PublishersTyped'
  BY <1>1, <1>2, <1>3, <1>4, <1>5 DEF IInv, Types, PublishersTyped, Publishing, Uploading,
     Removing, Rebase
<1>9. Journals'
  BY <1>1, <1>2, <1>3, <1>4, <1>5 DEF IInv, Journals, Places, Uploading, Removing,
     OthersStay
<1>10. Numbered'
  BY <1>1, <1>2, <1>3, <1>4, <1>5 DEF IInv, Numbered, Spent, OthersStay
<1>11. Places'
  BY <1>1, <1>2, <1>3, <1>4, <1>5 DEF IInv, Places, Receipt, Journals, Uploading,
     Removing, OthersStay
<1>12. Committed'
  BY <1>1, <1>2, <1>3, <1>4, <1>5 DEF IInv, Committed, Receipt, Journals, Places,
     Uploading, Removing, OthersStay
<1>13. Prepared'
  BY <1>1, <1>2, <1>3, <1>4, <1>5 DEF IInv, Prepared, Receipt, Places, Uploading,
     OthersStay
<1>14. Claimed'
  BY <1>1, <1>2, <1>3, <1>4, <1>5 DEF IInv, Claimed, Receipt, Source, OthersStay
<1> QED  BY <1>6, <1>7, <1>8, <1>9, <1>10, <1>11, <1>12, <1>13, <1>14 DEF IInv, Types

\* The record moves on to the candidate the head knows.
LEMMA AcknowledgeInv ==
  ASSUME IInv, NEW m \in Machines, Acknowledge(m)
  PROVE  IInv'
<1>1. /\ now' = now /\ seal' = seal /\ hold' = hold /\ link' = link /\ gc' = gc
      /\ head' = head /\ chain' = chain /\ late' = late
      /\ objects' = objects
      /\ owners' = owners /\ completed' = completed /\ pending' = pending
      /\ tombstone' = tombstone /\ seen' = seen /\ settled' = settled
  BY DEF Acknowledge, coordinator, bucket, disks, publishers
<1>2. pc[m] = "acknowledge"
  BY DEF Acknowledge
<1>3. pending[m] # None /\ pending[m].n \in Nat /\ Receipt(pending[m])
  BY <1>2, CandidateTyped DEF IInv, Places
<1>4. /\ published[m] \in Nat /\ published[m] <= pending[m].n /\ tombstone[m] = None
      /\ \A i \in DOMAIN chain : chain[i].n \in Nat
  BY <1>2, <1>3, ChainTyped DEF IInv, Types, RecordsTyped, Numbered, Places, Removing
<1>5. /\ pc' \in [Machines -> Publishing] /\ pc'[m] \in {IF settled[m] THEN "bury" ELSE "complete", "idle"}
      /\ \A q \in Machines \ {m} : pc'[q] = pc[q]
      /\ Spent
  BY GoTyped DEF IInv, Acknowledge, Publishing, Uploading, Removing
<1>6. OthersStay(m) /\ published'[m] = pending[m].n
  BY <1>1, <1>2, <1>3, <1>4, <1>5 DEF IInv, Types, RecordsTyped, PublishersTyped,
     HeadTyped, CollectionTyped, OthersStay, Acknowledge
<1>7. \A q \in Machines :
        /\ seen'[q] \in {seen[q], None, head.epoch}
        /\ owners[q] # None /\ ~Receipt(owners[q]) => owners'[q] = owners[q]
        /\ hold => owners'[q] = owners[q] /\ completed'[q] \in {None, completed[q]}
  BY <1>1, <1>2, <1>3, <1>4, <1>5, <1>6 DEF OthersStay
<1>8. HeadTyped' /\ CollectionTyped' /\ InFlight' /\ Barrier' /\ Announced' /\ Sweeping'
   /\ SnapshotKept' /\ CommittedOnce'
  BY <1>1, <1>7, HeadKept
<1>9. RecordsTyped'
  BY <1>1, <1>2, <1>3, <1>4, <1>5, <1>6, <1>7 DEF IInv, Types, RecordsTyped, Spent,
     Acknowledge
<1>10. PublishersTyped'
  BY <1>1, <1>2, <1>3, <1>4, <1>5, <1>6, <1>7 DEF IInv, Types, PublishersTyped,
     Publishing, Uploading, Removing, Acknowledge
<1>11. Journals'
  BY <1>1, <1>2, <1>3, <1>4, <1>5, <1>6, <1>7 DEF IInv, Journals, Places, Uploading,
     Removing, OthersStay
<1>12. Numbered'
  BY <1>1, <1>2, <1>3, <1>4, <1>5, <1>6, <1>7 DEF IInv, Numbered, Spent, OthersStay
<1>13. Places'
  BY <1>1, <1>2, <1>3, <1>4, <1>5, <1>6, <1>7 DEF IInv, Places, Receipt, Journals,
     Uploading, Removing, OthersStay
<1>14. Committed'
  BY <1>1, <1>2, <1>3, <1>4, <1>5, <1>6, <1>7 DEF IInv, Committed, Receipt, Journals,
     Places, Uploading, Removing, OthersStay
<1>15. Prepared'
  BY <1>1, <1>2, <1>3, <1>4, <1>5, <1>6, <1>7 DEF IInv, Prepared, Receipt, Places,
     Uploading, OthersStay
<1>16. Claimed'
  BY <1>1, <1>2, <1>3, <1>4, <1>5, <1>6, <1>7 DEF IInv, Claimed, Receipt, Source,
     OthersStay
<1> QED  BY <1>8, <1>9, <1>10, <1>11, <1>12, <1>13, <1>14, <1>15, <1>16 DEF IInv, Types

\* A completed candidate is one the head knows.
LEMMA CompleteInv ==
  ASSUME IInv, NEW m \in Machines, Complete(m)
  PROVE  IInv'
<1>1. /\ now' = now /\ seal' = seal /\ hold' = hold /\ link' = link /\ gc' = gc
      /\ head' = head /\ chain' = chain /\ late' = late
      /\ objects' = objects
      /\ pending' = pending /\ tombstone' = tombstone /\ published' = published /\ seen' = seen
      /\ settled' = settled
  BY DEF Complete, coordinator, bucket, disks, publishers
<1>2. pc[m] = "complete" /\ owners[m] = pending[m] /\ Receipt(pending[m]) /\ link = None /\ ~hold
  BY DEF Complete, Authorized
<1>3. owners[m] # None
  BY <1>2 DEF IInv, Places
<1>4. Source(owners[m]) \in objects
  BY <1>2, <1>3 DEF IInv, Claimed
<1>5. /\ pc' \in [Machines -> Publishing] /\ pc'[m] \in {"bury", "idle"}
      /\ \A q \in Machines \ {m} : pc'[q] = pc[q]
      /\ Spent
  BY GoTyped DEF IInv, Complete, Publishing, Uploading, Removing
<1>6. OthersStay(m) /\ completed'[m] = owners[m] /\ owners'[m] = None
  BY <1>1, <1>2, <1>3, <1>4, <1>5 DEF IInv, Types, RecordsTyped, PublishersTyped,
     HeadTyped, CollectionTyped, OthersStay, Complete
<1>7. \A q \in Machines :
        /\ seen'[q] \in {seen[q], None, head.epoch}
        /\ owners[q] # None /\ ~Receipt(owners[q]) => owners'[q] = owners[q]
        /\ hold => owners'[q] = owners[q] /\ completed'[q] \in {None, completed[q]}
  BY <1>1, <1>2, <1>3, <1>4, <1>5, <1>6 DEF OthersStay
<1>8. HeadTyped' /\ CollectionTyped' /\ InFlight' /\ Barrier' /\ Announced' /\ Sweeping'
   /\ SnapshotKept' /\ CommittedOnce'
  BY <1>1, <1>7, HeadKept
<1>9. RecordsTyped'
  BY <1>1, <1>2, <1>3, <1>4, <1>5, <1>6, <1>7 DEF IInv, Types, RecordsTyped, Spent,
     Complete
<1>10. PublishersTyped'
  BY <1>1, <1>2, <1>3, <1>4, <1>5, <1>6, <1>7 DEF IInv, Types, PublishersTyped,
     Publishing, Uploading, Removing, Complete
<1>11. Journals'
  BY <1>1, <1>2, <1>3, <1>4, <1>5, <1>6, <1>7 DEF IInv, Journals, Places, Uploading,
     Removing, OthersStay
<1>12. Numbered'
  BY <1>1, <1>2, <1>3, <1>4, <1>5, <1>6, <1>7 DEF IInv, Numbered, Spent, OthersStay
<1>13. Places'
  BY <1>1, <1>2, <1>3, <1>4, <1>5, <1>6, <1>7 DEF IInv, Places, Receipt, Journals,
     Uploading, Removing, OthersStay
<1>14. Committed'
  BY <1>1, <1>2, <1>3, <1>4, <1>5, <1>6, <1>7 DEF IInv, Committed, Receipt, Journals,
     Places, Uploading, Removing, OthersStay
<1>15. Prepared'
  BY <1>1, <1>2, <1>3, <1>4, <1>5, <1>6, <1>7 DEF IInv, Prepared, Receipt, Places,
     Uploading, OthersStay
<1>16. Claimed'
  BY <1>1, <1>2, <1>3, <1>4, <1>5, <1>6, <1>7 DEF IInv, Claimed, Receipt, Source,
     OthersStay
<1> QED  BY <1>8, <1>9, <1>10, <1>11, <1>12, <1>13, <1>14, <1>15, <1>16 DEF IInv, Types

\* The tombstone is of a candidate that is recorded.
LEMMA BuryInv ==
  ASSUME IInv, NEW m \in Machines, Bury(m)
  PROVE  IInv'
<1>1. /\ now' = now /\ seal' = seal /\ hold' = hold /\ link' = link /\ gc' = gc
      /\ head' = head /\ chain' = chain /\ late' = late
      /\ objects' = objects
      /\ owners' = owners /\ completed' = completed /\ pending' = pending
      /\ published' = published /\ seen' = seen /\ settled' = settled
  BY DEF Bury, coordinator, bucket, disks, publishers
<1>2. pc[m] = "bury"
  BY DEF Bury
<1>3. pending[m] # None /\ pending[m].n \in Nat
  BY <1>2, CandidateTyped DEF IInv, Places
<1>4. /\ pc' \in [Machines -> Publishing] /\ pc'[m] \in {"unlink", "idle"}
      /\ \A q \in Machines \ {m} : pc'[q] = pc[q]
      /\ Spent
  BY GoTyped DEF IInv, Bury, Publishing, Uploading, Removing
<1>5. OthersStay(m) /\ tombstone'[m] = pending[m]
  BY <1>1, <1>2, <1>3, <1>4 DEF IInv, Types, RecordsTyped, PublishersTyped, HeadTyped,
     CollectionTyped, OthersStay, Bury
<1>6. \A q \in Machines :
        /\ seen'[q] \in {seen[q], None, head.epoch}
        /\ owners[q] # None /\ ~Receipt(owners[q]) => owners'[q] = owners[q]
        /\ hold => owners'[q] = owners[q] /\ completed'[q] \in {None, completed[q]}
  BY <1>1, <1>2, <1>3, <1>4, <1>5 DEF OthersStay
<1>7. HeadTyped' /\ CollectionTyped' /\ InFlight' /\ Barrier' /\ Announced' /\ Sweeping'
   /\ SnapshotKept' /\ CommittedOnce'
  BY <1>1, <1>6, HeadKept
<1>8. RecordsTyped'
  BY <1>1, <1>2, <1>3, <1>4, <1>5, <1>6 DEF IInv, Types, RecordsTyped, Spent, Bury
<1>9. PublishersTyped'
  BY <1>1, <1>2, <1>3, <1>4, <1>5, <1>6 DEF IInv, Types, PublishersTyped, Publishing,
     Uploading, Removing, Bury
<1>10. Journals'
  BY <1>1, <1>2, <1>3, <1>4, <1>5, <1>6 DEF IInv, Journals, Places, Uploading, Removing,
     OthersStay
<1>11. Numbered'
  BY <1>1, <1>2, <1>3, <1>4, <1>5, <1>6 DEF IInv, Numbered, Spent, OthersStay
<1>12. Places'
  BY <1>1, <1>2, <1>3, <1>4, <1>5, <1>6 DEF IInv, Places, Receipt, Journals, Uploading,
     Removing, OthersStay
<1>13. Committed'
  BY <1>1, <1>2, <1>3, <1>4, <1>5, <1>6 DEF IInv, Committed, Receipt, Journals, Places,
     Uploading, Removing, OthersStay
<1>14. Prepared'
  BY <1>1, <1>2, <1>3, <1>4, <1>5, <1>6 DEF IInv, Prepared, Receipt, Places, Uploading,
     OthersStay
<1>15. Claimed'
  BY <1>1, <1>2, <1>3, <1>4, <1>5, <1>6 DEF IInv, Claimed, Receipt, Source, OthersStay
<1> QED  BY <1>7, <1>8, <1>9, <1>10, <1>11, <1>12, <1>13, <1>14, <1>15 DEF IInv, Types

\* The journal goes after its tombstone is there.
LEMMA UnlinkInv ==
  ASSUME IInv, NEW m \in Machines, Unlink(m)
  PROVE  IInv'
<1>1. /\ now' = now /\ seal' = seal /\ hold' = hold /\ link' = link /\ gc' = gc
      /\ head' = head /\ chain' = chain /\ late' = late
      /\ objects' = objects
      /\ owners' = owners /\ completed' = completed /\ tombstone' = tombstone
      /\ published' = published /\ seen' = seen /\ settled' = settled
  BY DEF Unlink, coordinator, bucket, disks, publishers
<1>2. pc[m] = "unlink"
  BY DEF Unlink
<1>3. /\ pc' \in [Machines -> Publishing] /\ pc'[m] \in {"forget", "idle"}
      /\ \A q \in Machines \ {m} : pc'[q] = pc[q]
      /\ Spent
  BY GoTyped DEF IInv, Unlink, Publishing, Uploading, Removing
<1>4. OthersStay(m) /\ pending'[m] = None
  BY <1>1, <1>2, <1>3 DEF IInv, Types, RecordsTyped, PublishersTyped, HeadTyped,
     CollectionTyped, OthersStay, Unlink
<1>5. \A q \in Machines :
        /\ seen'[q] \in {seen[q], None, head.epoch}
        /\ owners[q] # None /\ ~Receipt(owners[q]) => owners'[q] = owners[q]
        /\ hold => owners'[q] = owners[q] /\ completed'[q] \in {None, completed[q]}
  BY <1>1, <1>2, <1>3, <1>4 DEF OthersStay
<1>6. HeadTyped' /\ CollectionTyped' /\ InFlight' /\ Barrier' /\ Announced' /\ Sweeping'
   /\ SnapshotKept' /\ CommittedOnce'
  BY <1>1, <1>5, HeadKept
<1>7. RecordsTyped'
  BY <1>1, <1>2, <1>3, <1>4, <1>5 DEF IInv, Types, RecordsTyped, Spent, Unlink
<1>8. PublishersTyped'
  BY <1>1, <1>2, <1>3, <1>4, <1>5 DEF IInv, Types, PublishersTyped, Publishing, Uploading,
     Removing, Unlink
<1>9. Journals'
  BY <1>1, <1>2, <1>3, <1>4, <1>5 DEF IInv, Journals, Places, Uploading, Removing,
     OthersStay
<1>10. Numbered'
  BY <1>1, <1>2, <1>3, <1>4, <1>5 DEF IInv, Numbered, Spent, OthersStay
<1>11. Places'
  BY <1>1, <1>2, <1>3, <1>4, <1>5 DEF IInv, Places, Receipt, Journals, Uploading,
     Removing, OthersStay
<1>12. Committed'
  BY <1>1, <1>2, <1>3, <1>4, <1>5 DEF IInv, Committed, Receipt, Journals, Places,
     Uploading, Removing, OthersStay
<1>13. Prepared'
  BY <1>1, <1>2, <1>3, <1>4, <1>5 DEF IInv, Prepared, Receipt, Places, Uploading,
     OthersStay
<1>14. Claimed'
  BY <1>1, <1>2, <1>3, <1>4, <1>5 DEF IInv, Claimed, Receipt, Source, OthersStay
<1> QED  BY <1>6, <1>7, <1>8, <1>9, <1>10, <1>11, <1>12, <1>13, <1>14 DEF IInv, Types

\* The receipt goes after the journal.
LEMMA ForgetInv ==
  ASSUME IInv, NEW m \in Machines, Forget(m)
  PROVE  IInv'
<1>1. /\ now' = now /\ seal' = seal /\ hold' = hold /\ link' = link /\ gc' = gc
      /\ head' = head /\ chain' = chain /\ late' = late
      /\ objects' = objects
      /\ owners' = owners /\ pending' = pending /\ tombstone' = tombstone
      /\ published' = published /\ seen' = seen /\ settled' = settled
  BY DEF Forget, coordinator, bucket, disks, publishers
<1>2. pc[m] = "forget" /\ tombstone[m] # None /\ ~hold /\ link = None
  BY DEF Forget
<1>3. /\ pc' \in [Machines -> Publishing] /\ pc'[m] \in {"retire", "idle"}
      /\ \A q \in Machines \ {m} : pc'[q] = pc[q]
      /\ Spent
  BY GoTyped DEF IInv, Forget, Publishing, Uploading, Removing
<1>4. OthersStay(m) /\ completed'[m] = IF completed[m] = tombstone[m] THEN None ELSE completed[m]
  BY <1>1, <1>2, <1>3 DEF IInv, Types, RecordsTyped, PublishersTyped, HeadTyped,
     CollectionTyped, OthersStay, Forget
<1>5. \A q \in Machines :
        /\ seen'[q] \in {seen[q], None, head.epoch}
        /\ owners[q] # None /\ ~Receipt(owners[q]) => owners'[q] = owners[q]
        /\ hold => owners'[q] = owners[q] /\ completed'[q] \in {None, completed[q]}
  BY <1>1, <1>2, <1>3, <1>4 DEF OthersStay
<1>6. completed'[m] \in {None, completed[m]}
  BY <1>4
<1>7. HeadTyped' /\ CollectionTyped' /\ InFlight' /\ Barrier' /\ Announced' /\ Sweeping'
   /\ SnapshotKept' /\ CommittedOnce'
  BY <1>1, <1>5, HeadKept
<1>8. RecordsTyped'
  BY <1>1, <1>2, <1>3, <1>4, <1>5, <1>6 DEF IInv, Types, RecordsTyped, Spent, Forget
<1>9. PublishersTyped'
  BY <1>1, <1>2, <1>3, <1>4, <1>5, <1>6 DEF IInv, Types, PublishersTyped, Publishing,
     Uploading, Removing, Forget
<1>10. Journals'
  BY <1>1, <1>2, <1>3, <1>4, <1>5, <1>6 DEF IInv, Journals, Places, Uploading, Removing,
     OthersStay
<1>11. Numbered'
  BY <1>1, <1>2, <1>3, <1>4, <1>5, <1>6 DEF IInv, Numbered, Spent, OthersStay
<1>12. Places'
  BY <1>1, <1>2, <1>3, <1>4, <1>5, <1>6 DEF IInv, Places, Receipt, Journals, Uploading,
     Removing, OthersStay
<1>13. Committed'
  BY <1>1, <1>2, <1>3, <1>4, <1>5, <1>6 DEF IInv, Committed, Receipt, Journals, Places,
     Uploading, Removing, OthersStay
<1>14. Prepared'
  BY <1>1, <1>2, <1>3, <1>4, <1>5, <1>6 DEF IInv, Prepared, Receipt, Places, Uploading,
     OthersStay
<1>15. Claimed'
  BY <1>1, <1>2, <1>3, <1>4, <1>5, <1>6 DEF IInv, Claimed, Receipt, Source, OthersStay
<1> QED  BY <1>7, <1>8, <1>9, <1>10, <1>11, <1>12, <1>13, <1>14, <1>15 DEF IInv, Types

\* The tombstone goes last.
LEMMA RetireInv ==
  ASSUME IInv, NEW m \in Machines, Retire(m)
  PROVE  IInv'
<1>1. /\ now' = now /\ seal' = seal /\ hold' = hold /\ link' = link /\ gc' = gc
      /\ head' = head /\ chain' = chain /\ late' = late
      /\ objects' = objects
      /\ owners' = owners /\ completed' = completed /\ pending' = pending
      /\ published' = published /\ seen' = seen /\ settled' = settled
  BY DEF Retire, coordinator, bucket, disks, publishers
<1>2. pc[m] = "retire"
  BY DEF Retire
<1>3. /\ pc' \in [Machines -> Publishing] /\ pc'[m] = "idle"
      /\ \A q \in Machines \ {m} : pc'[q] = pc[q]
      /\ Spent
  BY GoTyped DEF IInv, Retire, Publishing, Uploading, Removing
<1>4. OthersStay(m) /\ tombstone'[m] = None
  BY <1>1, <1>2, <1>3 DEF IInv, Types, RecordsTyped, PublishersTyped, HeadTyped,
     CollectionTyped, OthersStay, Retire
<1>5. \A q \in Machines :
        /\ seen'[q] \in {seen[q], None, head.epoch}
        /\ owners[q] # None /\ ~Receipt(owners[q]) => owners'[q] = owners[q]
        /\ hold => owners'[q] = owners[q] /\ completed'[q] \in {None, completed[q]}
  BY <1>1, <1>2, <1>3, <1>4 DEF OthersStay
<1>6. HeadTyped' /\ CollectionTyped' /\ InFlight' /\ Barrier' /\ Announced' /\ Sweeping'
   /\ SnapshotKept' /\ CommittedOnce'
  BY <1>1, <1>5, HeadKept
<1>7. RecordsTyped'
  BY <1>1, <1>2, <1>3, <1>4, <1>5 DEF IInv, Types, RecordsTyped, Spent, Retire
<1>8. PublishersTyped'
  BY <1>1, <1>2, <1>3, <1>4, <1>5 DEF IInv, Types, PublishersTyped, Publishing, Uploading,
     Removing, Retire
<1>9. Journals'
  BY <1>1, <1>2, <1>3, <1>4, <1>5 DEF IInv, Journals, Places, Uploading, Removing,
     OthersStay
<1>10. Numbered'
  BY <1>1, <1>2, <1>3, <1>4, <1>5 DEF IInv, Numbered, Spent, OthersStay
<1>11. Places'
  BY <1>1, <1>2, <1>3, <1>4, <1>5 DEF IInv, Places, Receipt, Journals, Uploading,
     Removing, OthersStay
<1>12. Committed'
  BY <1>1, <1>2, <1>3, <1>4, <1>5 DEF IInv, Committed, Receipt, Journals, Places,
     Uploading, Removing, OthersStay
<1>13. Prepared'
  BY <1>1, <1>2, <1>3, <1>4, <1>5 DEF IInv, Prepared, Receipt, Places, Uploading,
     OthersStay
<1>14. Claimed'
  BY <1>1, <1>2, <1>3, <1>4, <1>5 DEF IInv, Claimed, Receipt, Source, OthersStay
<1> QED  BY <1>6, <1>7, <1>8, <1>9, <1>10, <1>11, <1>12, <1>13, <1>14 DEF IInv, Types

\* A removal is taken up where it stopped.
LEMMA RecoverRemovalInv ==
  ASSUME IInv, NEW m \in Machines, RecoverRemoval(m)
  PROVE  IInv'
<1>1. /\ now' = now /\ seal' = seal /\ hold' = hold /\ link' = link /\ gc' = gc
      /\ head' = head /\ chain' = chain /\ late' = late
      /\ objects' = objects
      /\ owners' = owners /\ completed' = completed /\ pending' = pending
      /\ tombstone' = tombstone /\ published' = published /\ seen' = seen /\ settled' = settled
  BY DEF RecoverRemoval, coordinator, bucket, disks, publishers
<1>2. /\ pc' = [pc EXCEPT ![m] = IF pending[m] = tombstone[m] THEN "unlink" ELSE "forget"]
      /\ left' = left /\ pc[m] = "idle" /\ tombstone[m] # None
  BY DEF RecoverRemoval
<1>3. OthersStay(m)
  BY <1>1, <1>2 DEF IInv, Types, RecordsTyped, PublishersTyped, HeadTyped,
     CollectionTyped, OthersStay, RecoverRemoval
<1>4. \A q \in Machines :
        /\ seen'[q] \in {seen[q], None, head.epoch}
        /\ owners[q] # None /\ ~Receipt(owners[q]) => owners'[q] = owners[q]
        /\ hold => owners'[q] = owners[q] /\ completed'[q] \in {None, completed[q]}
  BY <1>1, <1>2, <1>3 DEF OthersStay
<1>5. pc'[m] \in {"unlink", "forget"}
  BY <1>2 DEF IInv, Types, RecordsTyped, PublishersTyped, HeadTyped, CollectionTyped
<1>6. pc'[m] = IF pending[m] = tombstone[m] THEN "unlink" ELSE "forget"
  BY <1>2 DEF IInv, Types, RecordsTyped, PublishersTyped, HeadTyped, CollectionTyped
<1>7. HeadTyped' /\ CollectionTyped' /\ InFlight' /\ Barrier' /\ Announced' /\ Sweeping'
   /\ SnapshotKept' /\ CommittedOnce'
  BY <1>1, <1>4, HeadKept
<1>8. RecordsTyped'
  BY <1>1, <1>2, <1>3, <1>4, <1>5, <1>6 DEF IInv, Types, RecordsTyped, Spent,
     RecoverRemoval
<1>9. PublishersTyped'
  BY <1>1, <1>2, <1>3, <1>4, <1>5, <1>6 DEF IInv, Types, PublishersTyped, Publishing,
     Uploading, Removing, RecoverRemoval
<1>10. Journals'
  BY <1>1, <1>2, <1>3, <1>4, <1>5, <1>6 DEF IInv, Journals, Places, Uploading, Removing,
     OthersStay
<1>11. Numbered'
  BY <1>1, <1>2, <1>3, <1>4, <1>5, <1>6 DEF IInv, Numbered, Spent, OthersStay
<1>12. Places'
  BY <1>1, <1>2, <1>3, <1>4, <1>5, <1>6 DEF IInv, Places, Receipt, Journals, Uploading,
     Removing, OthersStay
<1>13. Committed'
  BY <1>1, <1>2, <1>3, <1>4, <1>5, <1>6 DEF IInv, Committed, Receipt, Journals, Places,
     Uploading, Removing, OthersStay
<1>14. Prepared'
  BY <1>1, <1>2, <1>3, <1>4, <1>5, <1>6 DEF IInv, Prepared, Receipt, Places, Uploading,
     OthersStay
<1>15. Claimed'
  BY <1>1, <1>2, <1>3, <1>4, <1>5, <1>6 DEF IInv, Claimed, Receipt, Source, OthersStay
<1> QED  BY <1>7, <1>8, <1>9, <1>10, <1>11, <1>12, <1>13, <1>14, <1>15 DEF IInv, Types

\* A commit that was given up on lands.
LEMMA LandCommitInv ==
  ASSUME IInv, NEW p \in late, p.commit # None, Put(p),
         UNCHANGED <<now, coordinator, disks, publishers, gc, left>>
  PROVE  IInv'
<1>1. /\ now' = now /\ seal' = seal /\ hold' = hold /\ link' = link /\ gc' = gc /\ left' = left
      /\ owners' = owners /\ completed' = completed /\ pending' = pending
      /\ tombstone' = tombstone /\ published' = published
      /\ pc' = pc /\ seen' = seen /\ settled' = settled
  BY DEF coordinator, disks, publishers
<1>2. p \in Puts /\ p.commit \in Candidates /\ p.commit.by \in Machines
  BY DEF IInv, Types, HeadTyped, Puts, Candidates
<1>3. /\ owners[p.commit.by] = p.commit /\ Source(p.commit) \in objects /\ ~Receipt(p.commit)
      /\ ~p.leased /\ \A m \in Machines : seen[m] # p.epoch
  BY <1>2 DEF IInv, InFlight
<1>4. /\ hold = FALSE /\ link = None /\ InFlight' /\ Announced' /\ Sweeping'
      /\ SnapshotKept' /\ CommittedOnce'
  BY <1>1, <1>2, <1>3, ChainGrows
<1>5. /\ head' = [epoch |-> p.epoch, leased |-> p.leased] /\ late' = {}
      /\ objects' = objects \union {Tree(Len(chain) + 1)}
      /\ DOMAIN chain' = DOMAIN chain \union {Len(chain) + 1}
      /\ \A i \in DOMAIN chain : chain'[i] = chain[i]
      /\ chain'[Len(chain) + 1].by = p.commit.by /\ chain'[Len(chain) + 1].n = p.commit.n
      /\ HeadTyped'
  BY <1>2, PutCommits DEF IInv
<1>6. /\ \A i \in DOMAIN chain : i \in DOMAIN chain' /\ chain'[i] = chain[i]
      /\ \A i \in DOMAIN chain' : i \in DOMAIN chain \/ (chain'[i].by = p.commit.by /\ chain'[i].n = p.commit.n)
      /\ \E i \in DOMAIN chain' : chain'[i].by = p.commit.by /\ chain'[i].n = p.commit.n
      /\ objects \subseteq objects'
      /\ \A m \in Machines : seen'[m] # head'.epoch
  BY <1>1, <1>3, <1>5
<1>7. PICK m \in Machines : m = p.commit.by /\ owners[m] = p.commit /\ pending[m] = p.commit /\ tombstone[m] = None
  BY <1>2, <1>3, NamesAssumption DEF IInv, Journals
<1>8. \A q \in Machines \ {m} :
        /\ pending[q] # None => pending[q].by # m
        /\ owners[q] # None => owners[q].by # m
  BY <1>7 DEF IInv, Numbered, Journals
<1>9. Types'
  <2>1. RecordsTyped'
    BY <1>1, <1>2, <1>3, <1>4, <1>5, <1>6, <1>7, <1>8 DEF IInv, Types, RecordsTyped, Spent
  <2>2. PublishersTyped'
    BY <1>1, <1>2, <1>3, <1>4, <1>5, <1>6, <1>7, <1>8 DEF IInv, Types, Publishing,
       Uploading, Removing, PublishersTyped
  <2>3. HeadTyped'
    BY <1>1, <1>2, <1>3, <1>4, <1>5, <1>6, <1>7, <1>8
  <2>4. CollectionTyped'
    BY <1>1, <1>2, <1>3, <1>4, <1>5, <1>6, <1>7, <1>8 DEF IInv, Types, CollectionTyped
  <2> QED  BY <2>1, <2>2, <2>3, <2>4 DEF Types
<1>10. Journals'
  BY <1>1, <1>2, <1>3, <1>4, <1>5, <1>6, <1>7, <1>8 DEF IInv, Journals, Places, Uploading,
     Removing
<1>11. Numbered'
  BY <1>1, <1>2, <1>3, <1>4, <1>5, <1>6, <1>7, <1>8 DEF IInv, Numbered, Spent
<1>12. Places'
  BY <1>1, <1>2, <1>3, <1>4, <1>5, <1>6, <1>7, <1>8 DEF IInv, Places, Receipt, Journals,
     Uploading, Removing
<1>13. Committed'
  BY <1>1, <1>2, <1>3, <1>4, <1>5, <1>6, <1>7, <1>8 DEF IInv, Committed, Receipt,
     Journals, Places, Uploading, Removing
<1>14. Prepared'
  BY <1>1, <1>2, <1>3, <1>4, <1>5, <1>6, <1>7, <1>8 DEF IInv, Prepared, Receipt, Places,
     Uploading
<1>15. Claimed'
  <2>1. \A q \in Machines : Source(owners[q])' = Source(owners[q]) /\ Source(completed[q])' = Source(completed[q])
    BY <1>1 DEF Source
  <2>2. \A q \in Machines \ {m} : owners[q] # None /\ Receipt(owners[q])' => Receipt(owners[q])
    BY <1>1, <1>6, <1>7, <1>8 DEF Receipt
  <2>3. \A q \in Machines \ {m} :
          owners[q] # None /\ (Receipt(owners[q])' \/ pc[q] = "commit") => Source(owners[q]) \in objects
    BY <2>2 DEF IInv, Claimed
  <2>4. owners[m] = p.commit /\ Source(owners[m]) \in objects
    BY <1>3, <1>7
  <2> QED  BY <1>1, <1>6, <2>1, <2>3, <2>4 DEF IInv, Claimed
<1>16. InFlight'
  BY <1>1, <1>2, <1>3, <1>4, <1>5, <1>6, <1>7, <1>8
<1>17. Barrier'
  BY <1>1, <1>2, <1>3, <1>4, <1>5, <1>6, <1>7, <1>8 DEF IInv, Barrier, Drained, Linked
<1>18. Announced'
  BY <1>1, <1>2, <1>3, <1>4, <1>5, <1>6, <1>7, <1>8
<1>19. Sweeping'
  BY <1>1, <1>2, <1>3, <1>4, <1>5, <1>6, <1>7, <1>8
<1>20. SnapshotKept'
  BY <1>1, <1>2, <1>3, <1>4, <1>5, <1>6, <1>7, <1>8
<1>21. CommittedOnce'
  BY <1>1, <1>2, <1>3, <1>4, <1>5, <1>6, <1>7, <1>8
<1> QED  BY <1>9, <1>10, <1>11, <1>12, <1>13, <1>14, <1>15, <1>16, <1>17, <1>18, <1>19,
   <1>20, <1>21 DEF IInv

\* A commit adds its candidate to the head once.
LEMMA CommitInv ==
  ASSUME IInv, NEW m \in Machines, Commit(m),
         Put(CommitPut(m)), Go(m, "acknowledge")
  PROVE  IInv'
<1>1. /\ now' = now /\ seal' = seal /\ hold' = hold /\ link' = link /\ gc' = gc
      /\ owners' = owners /\ completed' = completed /\ pending' = pending
      /\ tombstone' = tombstone /\ published' = published /\ settled' = settled
      /\ seen' = [seen EXCEPT ![m] = None] /\ pc[m] = "commit" /\ owners[m] = pending[m]
      /\ head.epoch = seen[m] /\ FreshEpochs # {}
  BY DEF Commit, Authorized, coordinator, disks
<1>2. /\ pc' \in [Machines -> Publishing] /\ pc'[m] \in {"acknowledge", "idle"}
      /\ \A q \in Machines \ {m} : pc'[q] = pc[q]
      /\ Spent
  BY GoTyped DEF IInv, Publishing
<1>3. PICK p \in Puts :
        /\ p = CommitPut(m) /\ p.match = head.epoch /\ p.epoch = FreshEpoch
        /\ ~p.leased /\ p.commit = pending[m] /\ p.commit # None /\ p.commit.by = m
  BY CommitPutTyped
<1>4. Source(pending[m]) \in objects /\ ~Receipt(pending[m]) /\ tombstone[m] = None
  BY <1>1, <1>3 DEF IInv, Claimed, Prepared, Places, Removing, Uploading
<1>5. /\ hold = FALSE /\ link = None /\ InFlight' /\ Announced' /\ Sweeping'
      /\ SnapshotKept' /\ CommittedOnce'
  BY <1>1, <1>3, <1>4, ChainGrows
<1>6. /\ head' = [epoch |-> p.epoch, leased |-> p.leased] /\ late' = {}
      /\ objects' = objects \union {Tree(Len(chain) + 1)}
      /\ DOMAIN chain' = DOMAIN chain \union {Len(chain) + 1}
      /\ \A i \in DOMAIN chain : chain'[i] = chain[i]
      /\ chain'[Len(chain) + 1].by = pending[m].by /\ chain'[Len(chain) + 1].n = pending[m].n
      /\ HeadTyped'
  BY <1>3, PutCommits DEF IInv
<1>7. /\ \A i \in DOMAIN chain : i \in DOMAIN chain' /\ chain'[i] = chain[i]
      /\ \A i \in DOMAIN chain' : i \in DOMAIN chain \/ (chain'[i].by = pending[m].by /\ chain'[i].n = pending[m].n)
      /\ \E i \in DOMAIN chain' : chain'[i].by = pending[m].by /\ chain'[i].n = pending[m].n
      /\ objects \subseteq objects'
      /\ \A q \in Machines : seen'[q] # head'.epoch
  BY <1>1, <1>3, <1>6, FreshEpochIsFresh DEF IInv, Types, PublishersTyped
<1>8. /\ pending[m].by = m /\ pending[m] # None
      /\ \A q \in Machines \ {m} :
           /\ pending[q] # None => pending[q].by # m
           /\ owners[q] # None => owners[q].by # m
  BY <1>3 DEF IInv, Numbered, Journals
<1>9. Types'
  <2>1. RecordsTyped'
    BY <1>1, <1>2, <1>3, <1>4, <1>5, <1>6, <1>7, <1>8 DEF IInv, Types, RecordsTyped, Spent
  <2>2. PublishersTyped'
    BY <1>1, <1>2, <1>3, <1>4, <1>5, <1>6, <1>7, <1>8 DEF IInv, Types, Publishing,
       Uploading, Removing, PublishersTyped
  <2>3. HeadTyped'
    BY <1>1, <1>2, <1>3, <1>4, <1>5, <1>6, <1>7, <1>8
  <2>4. CollectionTyped'
    BY <1>1, <1>2, <1>3, <1>4, <1>5, <1>6, <1>7, <1>8 DEF IInv, Types, CollectionTyped
  <2> QED  BY <2>1, <2>2, <2>3, <2>4 DEF Types
<1>10. Journals'
  BY <1>1, <1>2, <1>3, <1>4, <1>5, <1>6, <1>7, <1>8 DEF IInv, Journals, Places, Uploading,
     Removing, OthersStay
<1>11. Numbered'
  BY <1>1, <1>2, <1>3, <1>4, <1>5, <1>6, <1>7, <1>8 DEF IInv, Numbered, Spent, OthersStay
<1>12. Places'
  BY <1>1, <1>2, <1>3, <1>4, <1>5, <1>6, <1>7, <1>8 DEF IInv, Places, Receipt, Journals,
     Uploading, Removing, OthersStay
<1>13. Committed'
  BY <1>1, <1>2, <1>3, <1>4, <1>5, <1>6, <1>7, <1>8 DEF IInv, Committed, Receipt,
     Journals, Places, Uploading, Removing, OthersStay
<1>14. Prepared'
  BY <1>1, <1>2, <1>3, <1>4, <1>5, <1>6, <1>7, <1>8 DEF IInv, Prepared, Receipt, Places,
     Uploading, OthersStay
<1>15. Claimed'
  <2>1. \A q \in Machines : Source(owners[q])' = Source(owners[q]) /\ Source(completed[q])' = Source(completed[q])
    BY <1>1 DEF Source
  <2>2. \A q \in Machines \ {m} : owners[q] # None /\ Receipt(owners[q])' => Receipt(owners[q])
    BY <1>1, <1>7, <1>8 DEF Receipt
  <2>3. \A q \in Machines \ {m} :
          owners[q] # None /\ (Receipt(owners[q])' \/ pc'[q] = "commit") => Source(owners[q]) \in objects
    BY <1>2, <2>2 DEF IInv, Claimed
  <2>4. Source(owners[m]) \in objects
    BY <1>1, <1>4
  <2> QED  BY <1>1, <1>7, <2>1, <2>3, <2>4 DEF IInv, Claimed
<1>16. InFlight'
  BY <1>1, <1>2, <1>3, <1>4, <1>5, <1>6, <1>7, <1>8
<1>17. Barrier'
  BY <1>1, <1>2, <1>3, <1>4, <1>5, <1>6, <1>7, <1>8 DEF IInv, Barrier, Drained, Linked,
     OthersStay
<1>18. Announced'
  BY <1>1, <1>2, <1>3, <1>4, <1>5, <1>6, <1>7, <1>8
<1>19. Sweeping'
  BY <1>1, <1>2, <1>3, <1>4, <1>5, <1>6, <1>7, <1>8
<1>20. SnapshotKept'
  BY <1>1, <1>2, <1>3, <1>4, <1>5, <1>6, <1>7, <1>8
<1>21. CommittedOnce'
  BY <1>1, <1>2, <1>3, <1>4, <1>5, <1>6, <1>7, <1>8
<1> QED  BY <1>9, <1>10, <1>11, <1>12, <1>13, <1>14, <1>15, <1>16, <1>17, <1>18, <1>19,
   <1>20, <1>21 DEF IInv

\* A commit that may still land is of an admitted candidate.
LEMMA CommitDelayedInv ==
  ASSUME IInv, NEW m \in Machines, Commit(m),
         Delayed(CommitPut(m)), pc' = [pc EXCEPT ![m] = "idle"]
  PROVE  IInv'
<1>1. /\ now' = now /\ seal' = seal /\ hold' = hold /\ link' = link /\ gc' = gc
      /\ owners' = owners /\ completed' = completed /\ pending' = pending
      /\ tombstone' = tombstone /\ published' = published /\ settled' = settled
      /\ head' = head /\ chain' = chain /\ objects' = objects
      /\ late' = late \union {CommitPut(m)}
      /\ seen' = [seen EXCEPT ![m] = None] /\ pc[m] = "commit" /\ owners[m] = pending[m]
      /\ head.epoch = seen[m] /\ FreshEpochs # {} /\ ~hold
  BY DEF Commit, Authorized, Delayed, coordinator, disks
<1>2. /\ pc' \in [Machines -> Publishing] /\ pc'[m] = "idle"
      /\ \A q \in Machines \ {m} : pc'[q] = pc[q]
      /\ Spent
  BY UseTyped DEF Delayed, IInv, Types, PublishersTyped, Publishing, Kinds
<1>3. PICK p \in Puts :
        /\ p = CommitPut(m) /\ p.match = head.epoch /\ p.epoch = FreshEpoch
        /\ ~p.leased /\ p.commit = pending[m] /\ p.commit # None /\ p.commit.by = m
  BY CommitPutTyped
<1>4. Source(pending[m]) \in objects /\ ~Receipt(pending[m])
  BY <1>1 DEF IInv, Claimed, Prepared, Places, Uploading
<1>5. OthersStay(m) /\ seen'[m] = None /\ late' = late \union {p}
  BY <1>1, <1>2, <1>3 DEF IInv, Types, PublishersTyped, OthersStay
<1>6. gc.pc \notin Linked
  BY <1>1 DEF IInv, Barrier
<1>7. Types'
  <2>1. RecordsTyped'
    BY <1>1, <1>2, <1>3, <1>4, <1>5, <1>6 DEF IInv, Types, RecordsTyped, Spent
  <2>2. PublishersTyped'
    BY <1>1, <1>2, <1>3, <1>4, <1>5, <1>6 DEF IInv, Types, Publishing, Uploading,
       Removing, PublishersTyped
  <2>3. HeadTyped'
    BY <1>1, <1>3, <1>5 DEF IInv, Types, HeadTyped, Tree
  <2>4. CollectionTyped'
    BY <1>1, <1>2, <1>3, <1>4, <1>5, <1>6 DEF IInv, Types, CollectionTyped
  <2> QED  BY <2>1, <2>2, <2>3, <2>4 DEF Types
<1>8. Journals'
  BY <1>1, <1>2, <1>3, <1>4, <1>5, <1>6 DEF IInv, Journals, Places, Uploading, Removing,
     OthersStay
<1>9. Numbered'
  BY <1>1, <1>2, <1>3, <1>4, <1>5, <1>6 DEF IInv, Numbered, Spent, OthersStay
<1>10. Places'
  BY <1>1, <1>2, <1>3, <1>4, <1>5, <1>6 DEF IInv, Places, Receipt, Journals, Uploading,
     Removing, OthersStay
<1>11. Committed'
  BY <1>1, <1>2, <1>3, <1>4, <1>5, <1>6 DEF IInv, Committed, Receipt, Journals, Places,
     Uploading, Removing, OthersStay
<1>12. Prepared'
  BY <1>1, <1>2, <1>3, <1>4, <1>5, <1>6 DEF IInv, Prepared, Receipt, Places, Uploading,
     OthersStay
<1>13. Claimed'
  BY <1>1, <1>2, <1>3, <1>4, <1>5, <1>6 DEF IInv, Claimed, Receipt, Source, OthersStay
<1>14. InFlight'
  <2> SUFFICES ASSUME NEW r \in late \union {p}
               PROVE  /\ r.match = head.epoch
                      /\ r.commit # None =>
                           /\ owners[r.commit.by] = r.commit /\ Source(r.commit) \in objects
                           /\ ~Receipt(r.commit) /\ ~r.leased
                           /\ r.epoch # head.epoch /\ \A q \in Machines : seen'[q] # r.epoch
                      /\ r.commit = None =>
                           /\ link # None /\ head.epoch # link.released
                           /\ r.epoch = IF r.leased THEN link.leased ELSE link.released
    BY <1>1, <1>5 DEF InFlight, Receipt, Source
  <2>1. \A q \in Machines : seen'[q] \in {seen[q], None}
    BY <1>5 DEF OthersStay
  <2>2. r.epoch \in Epochs /\ r.epoch # None
    BY NamesAssumption DEF IInv, Types, HeadTyped, Puts
  <2>3. CASE r = p
    BY <1>1, <1>3, <1>4, <2>1, <2>2, <2>3, FreshEpochIsFresh DEF IInv
  <2>4. CASE r \in late
    BY <2>1, <2>2, <2>4 DEF IInv, InFlight
  <2> QED  BY <2>3, <2>4
<1>15. Barrier'
  BY <1>1, <1>2, <1>3, <1>4, <1>5, <1>6 DEF IInv, Barrier, Drained, Linked, OthersStay
<1>16. Announced'
  BY <1>1, <1>2, <1>3, <1>4, <1>5, <1>6 DEF IInv, Announced, OthersStay
<1>17. Sweeping'
  BY <1>1, <1>2, <1>3, <1>4, <1>5, <1>6 DEF IInv, Sweeping, Retained, Reaches, Tree,
     LastModified, Source, Linked, OthersStay
<1>18. SnapshotKept'
  BY <1>1, <1>2, <1>3, <1>4, <1>5, <1>6 DEF IInv, SnapshotKept, Reaches, Tree, OthersStay
<1>19. CommittedOnce'
  BY <1>1, <1>2, <1>3, <1>4, <1>5, <1>6 DEF IInv, CommittedOnce, OthersStay
<1> QED  BY <1>7, <1>8, <1>9, <1>10, <1>11, <1>12, <1>13, <1>14, <1>15, <1>16, <1>17,
   <1>18, <1>19 DEF IInv

\* A seal alone changes nothing that is claimed.
LEMMA SealInv ==
  ASSUME IInv, Seal
  PROVE  IInv'
<1>1. /\ owners' = owners /\ completed' = completed /\ pending' = pending
      /\ tombstone' = tombstone /\ published' = published /\ pc' = pc /\ seen' = seen
      /\ settled' = settled /\ chain' = chain
      /\ now' = now /\ hold' = hold /\ link' = link /\ head' = head /\ late' = late
      /\ objects' = objects
  BY DEF Seal, coordinator, bucket, disks, publishers
<1>2. seal' \in BOOLEAN /\ (gc' = At("clock") \/ gc' = gc) /\ gc.pc = "off"
  BY DEF Seal
<1>3. left \in [Kinds -> Nat] /\ left["collect"] \in Nat /\ left["stop"] \in Nat
  BY DEF IInv, Types, RecordsTyped, Kinds
<1>4. \/ left["collect"] > 0 /\ left' = [left EXCEPT !["collect"] = left["collect"] - 1]
      \/ /\ left["collect"] > 0 /\ left["stop"] > 0
         /\ left' = [left EXCEPT !["collect"] = left["collect"] - 1, !["stop"] = left["stop"] - 1]
  BY DEF Seal
<1>5. Spent
  BY <1>3, <1>4 DEF Spent, Kinds
<1>6. /\ gc' \in [pc : Collecting, clock : Nat, seen : Epochs \union {None},
                  todo : SUBSET objects]
      /\ gc'.pc \in {"clock", "off"} /\ gc'.todo = gc.todo
  BY <1>2, AtTyped DEF IInv, Types, CollectionTyped, Collecting
<1>7. /\ Spent /\ (head' = head \/ hold) /\ (objects \subseteq objects' \/ hold)
      /\ \A m \in Machines : completed[m] # None => Source(completed[m]) \in objects'
  BY <1>1, <1>2, <1>3, <1>4, <1>5, <1>6 DEF IInv, Types, RecordsTyped, Spent, Claimed
<1>8. RecordsTyped' /\ PublishersTyped' /\ Journals' /\ Numbered' /\ Places' /\ Committed'
   /\ Prepared' /\ Claimed'
  BY <1>1, <1>7, MachinesKept
<1>9. HeadTyped' /\ InFlight' /\ Announced' /\ SnapshotKept' /\ CommittedOnce'
  BY <1>1, ChainKept
<1>10. CollectionTyped'
  BY <1>1, <1>2, <1>3, <1>4, <1>5, <1>6, <1>7 DEF IInv, Types, CollectionTyped, HeadTyped
<1>11. Barrier'
  BY <1>1, <1>2, <1>3, <1>4, <1>5, <1>6, <1>7 DEF IInv, Barrier, Drained, Linked
<1>12. Sweeping'
  BY <1>1, <1>2, <1>3, <1>4, <1>5, <1>6, <1>7 DEF IInv, Sweeping, Retained, Reaches, Tree,
     LastModified, Source
<1> QED  BY <1>8, <1>9, <1>10, <1>11, <1>12 DEF IInv, Types

\* The clock reads no later than now.
LEMMA ReadClockInv ==
  ASSUME IInv, ReadClock
  PROVE  IInv'
<1>1. /\ owners' = owners /\ completed' = completed /\ pending' = pending
      /\ tombstone' = tombstone /\ published' = published /\ pc' = pc /\ seen' = seen
      /\ settled' = settled /\ chain' = chain
      /\ now' = now /\ seal' = seal /\ hold' = hold /\ link' = link /\ left' = left
      /\ head' = head /\ late' = late /\ objects' = objects
  BY DEF ReadClock, coordinator, bucket, disks, publishers
<1>2. gc.pc = "clock"
  BY DEF ReadClock
<1>3. PICK e \in (IF now > Uncertainty THEN now - Uncertainty ELSE 0) .. now :
        gc' = [gc EXCEPT !.pc = "hold", !.clock = e]
  BY DEF ReadClock
<1>4. e \in Nat /\ e <= now
  BY BoundsTyped DEF IInv, Types, CollectionTyped
<1>5. /\ gc' \in [pc : Collecting, clock : Nat, seen : Epochs \union {None},
                  todo : SUBSET objects]
      /\ gc'.pc = "hold" /\ gc'.clock = e /\ gc'.todo = gc.todo
  BY <1>3, <1>4 DEF IInv, Types, CollectionTyped, Collecting
<1>6. /\ Spent /\ (head' = head \/ hold) /\ (objects \subseteq objects' \/ hold)
      /\ \A m \in Machines : completed[m] # None => Source(completed[m]) \in objects'
  BY <1>1, <1>2, <1>3, <1>4, <1>5 DEF IInv, Types, RecordsTyped, Spent, Claimed
<1>7. RecordsTyped' /\ PublishersTyped' /\ Journals' /\ Numbered' /\ Places' /\ Committed'
   /\ Prepared' /\ Claimed'
  BY <1>1, <1>6, MachinesKept
<1>8. HeadTyped' /\ InFlight' /\ Announced' /\ SnapshotKept' /\ CommittedOnce'
  BY <1>1, ChainKept
<1>9. CollectionTyped'
  BY <1>1, <1>2, <1>3, <1>4, <1>5, <1>6 DEF IInv, Types, CollectionTyped, HeadTyped
<1>10. Barrier'
  BY <1>1, <1>2, <1>3, <1>4, <1>5, <1>6 DEF IInv, Barrier, Drained, Linked
<1>11. Sweeping'
  BY <1>1, <1>2, <1>3, <1>4, <1>5, <1>6 DEF IInv, Sweeping, Retained, Reaches, Tree,
     LastModified, Source
<1> QED  BY <1>7, <1>8, <1>9, <1>10, <1>11 DEF IInv, Types

\* The barrier is held once nobody is admitted.
LEMMA HoldInv ==
  ASSUME IInv, Hold
  PROVE  IInv'
<1>1. /\ owners' = owners /\ completed' = completed /\ pending' = pending
      /\ tombstone' = tombstone /\ published' = published /\ pc' = pc /\ seen' = seen
      /\ settled' = settled /\ chain' = chain
      /\ now' = now /\ seal' = seal /\ link' = link /\ head' = head /\ late' = late
      /\ objects' = objects
  BY DEF Hold, coordinator, bucket, disks, publishers
<1>2. gc.pc = "hold"
  BY DEF Hold
<1>3. hold' \in BOOLEAN /\ (hold' => hold \/ Drained) /\ (hold => hold')
  BY DEF Hold, IInv, Types, CollectionTyped
<1>4. \/ gc' = Idle /\ left' = left
      \/ hold' = TRUE /\ GcGo([At("link") EXCEPT !.seen = head.epoch])
  BY DEF Hold
<1>5. Spent /\ (gc' = Idle \/ (gc' = [At("link") EXCEPT !.seen = head.epoch] /\ hold'))
  BY <1>4, GcGoTyped DEF IInv, Types, RecordsTyped, Spent
<1>6. [At("link") EXCEPT !.seen = head.epoch]
        \in [pc : Collecting, clock : Nat, seen : Epochs \union {None}, todo : SUBSET objects]
  BY AtTyped DEF IInv, Types, HeadTyped, Collecting
<1>7. /\ gc' \in [pc : Collecting, clock : Nat, seen : Epochs \union {None},
                  todo : SUBSET objects]
      /\ gc'.todo = {}
      /\ \/ gc'.pc = "off"
         \/ gc'.pc = "link" /\ gc'.clock = gc.clock /\ hold'
  BY <1>2, <1>5, <1>6, AtTyped, IdleTyped DEF IInv, Barrier, Collecting
<1>8. /\ Spent /\ (head' = head \/ hold) /\ (objects \subseteq objects' \/ hold)
      /\ \A m \in Machines : completed[m] # None => Source(completed[m]) \in objects'
  BY <1>1, <1>2, <1>3, <1>4, <1>5, <1>6, <1>7 DEF IInv, Types, RecordsTyped, Spent,
     Claimed
<1>9. RecordsTyped' /\ PublishersTyped' /\ Journals' /\ Numbered' /\ Places' /\ Committed'
   /\ Prepared' /\ Claimed'
  BY <1>1, <1>8, MachinesKept
<1>10. HeadTyped' /\ InFlight' /\ Announced' /\ SnapshotKept' /\ CommittedOnce'
  BY <1>1, ChainKept
<1>11. CollectionTyped'
  BY <1>1, <1>2, <1>3, <1>4, <1>5, <1>6, <1>7, <1>8 DEF IInv, Types, CollectionTyped, HeadTyped
<1>12. Barrier'
  BY <1>1, <1>2, <1>3, <1>4, <1>5, <1>6, <1>7, <1>8 DEF IInv, Barrier, Drained, Linked
<1>13. Sweeping'
  BY <1>1, <1>2, <1>3, <1>4, <1>5, <1>6, <1>7, <1>8 DEF IInv, Sweeping, Retained, Reaches,
     Tree, LastModified, Source
<1> QED  BY <1>9, <1>10, <1>11, <1>12, <1>13 DEF IInv, Types

\* What is marked is live, and the rest may go.
LEMMA MarkInv ==
  ASSUME IInv, Mark
  PROVE  IInv'
<1>1. /\ owners' = owners /\ completed' = completed /\ pending' = pending
      /\ tombstone' = tombstone /\ published' = published /\ pc' = pc /\ seen' = seen
      /\ settled' = settled /\ chain' = chain
      /\ now' = now /\ seal' = seal /\ hold' = hold /\ link' = link /\ left' = left
      /\ head' = head /\ late' = late /\ objects' = objects
  BY DEF Mark, coordinator, bucket, disks, publishers
<1>2. gc.pc = "mark" /\ link # None
  BY DEF Mark, IInv, Barrier, Linked
<1>3. gc' = Idle \/ gc' = [At("sweep") EXCEPT !.todo = objects \ Live(gc.clock)]
  BY DEF Mark
<1>4. [At("sweep") EXCEPT !.todo = objects \ Live(gc.clock)]
        \in [pc : Collecting, clock : Nat, seen : Epochs \union {None}, todo : SUBSET objects]
  BY AtTyped DEF IInv, Collecting, Linked
<1>5. /\ gc' \in [pc : Collecting, clock : Nat, seen : Epochs \union {None},
                  todo : SUBSET objects]
      /\ \/ gc'.pc = "off" /\ gc'.todo = {}
         \/ /\ gc'.pc = "sweep" /\ gc'.clock = gc.clock /\ gc'.seen = gc.seen
            /\ gc'.todo = objects \ Live(gc.clock)
  BY <1>3, <1>4, AtTyped, IdleTyped DEF IInv, Collecting, Linked
<1>6. /\ \A i \in DOMAIN chain : Retained(i, gc.clock) => Reaches(i) \subseteq Live(gc.clock)
      /\ \A m \in Machines : completed[m] # None => Source(completed[m]) \in Live(gc.clock)
  BY DEF Live, Receipts
<1>7. /\ Spent /\ (head' = head \/ hold) /\ (objects \subseteq objects' \/ hold)
      /\ \A m \in Machines : completed[m] # None => Source(completed[m]) \in objects'
  BY <1>1, <1>2, <1>3, <1>4, <1>5, <1>6 DEF IInv, Types, RecordsTyped, Spent, Claimed
<1>8. RecordsTyped' /\ PublishersTyped' /\ Journals' /\ Numbered' /\ Places' /\ Committed'
   /\ Prepared' /\ Claimed'
  BY <1>1, <1>7, MachinesKept
<1>9. HeadTyped' /\ InFlight' /\ Announced' /\ SnapshotKept' /\ CommittedOnce'
  BY <1>1, ChainKept
<1>10. CollectionTyped'
  BY <1>1, <1>2, <1>3, <1>4, <1>5, <1>6, <1>7 DEF IInv, Types, CollectionTyped, HeadTyped
<1>11. Barrier'
  BY <1>1, <1>2, <1>3, <1>4, <1>5, <1>6, <1>7 DEF IInv, Barrier, Drained, Linked
<1>12. Sweeping'
  <2>1. CASE gc'.pc = "off"
    BY <2>1 DEF Sweeping
  <2>2. CASE gc'.pc = "sweep"
    <3>1. /\ \A i \in DOMAIN chain : Retained(i, gc.clock) => Reaches(i) \intersect gc'.todo = {}
          /\ \A m \in Machines : completed[m] # None => Source(completed[m]) \notin gc'.todo
      BY <1>5, <1>6, <2>2
    <3>2. gc'.clock = gc.clock /\ gc.clock <= now /\ head.leased /\ late = {}
      BY <1>2, <1>5, <2>2 DEF IInv, Sweeping
    <3> QED  BY <1>1, <2>2, <3>1, <3>2 DEF Sweeping, Retained, Reaches, Tree, LastModified, Source
  <2> QED  BY <1>5, <2>1, <2>2
<1> QED  BY <1>8, <1>9, <1>10, <1>11, <1>12 DEF IInv, Types

\* A collection that lost its head ends.
LEMMA ConflictInv ==
  ASSUME IInv, GcConflict
  PROVE  IInv'
<1>1. /\ owners' = owners /\ completed' = completed /\ pending' = pending
      /\ tombstone' = tombstone /\ published' = published /\ pc' = pc /\ seen' = seen
      /\ settled' = settled /\ chain' = chain
      /\ now' = now /\ seal' = seal /\ hold' = hold /\ link' = link /\ left' = left
      /\ head' = head /\ late' = late /\ objects' = objects
  BY DEF GcConflict, coordinator, bucket, disks, publishers
<1>2. gc' \in [pc : Collecting, clock : Nat, seen : Epochs \union {None},
               todo : SUBSET objects] /\ gc'.pc = "off" /\ gc'.todo = {}
  BY IdleTyped DEF GcConflict
<1>3. /\ Spent /\ (head' = head \/ hold) /\ (objects \subseteq objects' \/ hold)
      /\ \A m \in Machines : completed[m] # None => Source(completed[m]) \in objects'
  BY <1>1, <1>2 DEF IInv, Types, RecordsTyped, Spent, Claimed
<1>4. RecordsTyped' /\ PublishersTyped' /\ Journals' /\ Numbered' /\ Places' /\ Committed'
   /\ Prepared' /\ Claimed'
  BY <1>1, <1>3, MachinesKept
<1>5. HeadTyped' /\ InFlight' /\ Announced' /\ SnapshotKept' /\ CommittedOnce'
  BY <1>1, ChainKept
<1>6. CollectionTyped'
  BY <1>1, <1>2, <1>3 DEF IInv, Types, CollectionTyped, HeadTyped
<1>7. Barrier'
  BY <1>1, <1>2, <1>3 DEF IInv, Barrier, Drained, Linked
<1>8. Sweeping'
  BY <1>1, <1>2, <1>3 DEF IInv, Sweeping, Retained, Reaches, Tree, LastModified, Source
<1> QED  BY <1>4, <1>5, <1>6, <1>7, <1>8 DEF IInv, Types

\* A recovery looks at the head first.
LEMMA RecoverInv ==
  ASSUME IInv, Recover
  PROVE  IInv'
<1>1. /\ owners' = owners /\ completed' = completed /\ pending' = pending
      /\ tombstone' = tombstone /\ published' = published /\ pc' = pc /\ seen' = seen
      /\ settled' = settled /\ chain' = chain
      /\ now' = now /\ seal' = seal /\ hold' = hold /\ link' = link /\ left' = left
      /\ head' = head /\ late' = late /\ objects' = objects
  BY DEF Recover, coordinator, bucket, disks, publishers
<1>2. gc.pc = "off" /\ link # None /\ gc' = [At("recover") EXCEPT !.seen = head.epoch]
  BY DEF Recover
<1>3. gc' \in [pc : Collecting, clock : Nat, seen : Epochs \union {None},
               todo : SUBSET objects] /\ gc'.pc = "recover" /\ gc'.todo = {}
  BY <1>2, AtTyped DEF IInv, Barrier, Types, HeadTyped, Collecting
<1>4. /\ Spent /\ (head' = head \/ hold) /\ (objects \subseteq objects' \/ hold)
      /\ \A m \in Machines : completed[m] # None => Source(completed[m]) \in objects'
  BY <1>1, <1>2, <1>3 DEF IInv, Types, RecordsTyped, Spent, Claimed
<1>5. RecordsTyped' /\ PublishersTyped' /\ Journals' /\ Numbered' /\ Places' /\ Committed'
   /\ Prepared' /\ Claimed'
  BY <1>1, <1>4, MachinesKept
<1>6. HeadTyped' /\ InFlight' /\ Announced' /\ SnapshotKept' /\ CommittedOnce'
  BY <1>1, ChainKept
<1>7. CollectionTyped'
  BY <1>1, <1>2, <1>3, <1>4 DEF IInv, Types, CollectionTyped, HeadTyped
<1>8. Barrier'
  BY <1>1, <1>2, <1>3, <1>4 DEF IInv, Barrier, Drained, Linked
<1>9. Sweeping'
  BY <1>1, <1>2, <1>3, <1>4 DEF IInv, Sweeping, Retained, Reaches, Tree, LastModified,
     Source
<1> QED  BY <1>5, <1>6, <1>7, <1>8, <1>9 DEF IInv, Types

\* A seal that was never held is taken off.
LEMMA RecoverSealInv ==
  ASSUME IInv, RecoverSeal
  PROVE  IInv'
<1>1. /\ owners' = owners /\ completed' = completed /\ pending' = pending
      /\ tombstone' = tombstone /\ published' = published /\ pc' = pc /\ seen' = seen
      /\ settled' = settled /\ chain' = chain
      /\ now' = now /\ hold' = hold /\ link' = link /\ gc' = gc /\ left' = left /\ head' = head
      /\ late' = late /\ objects' = objects
  BY DEF RecoverSeal, coordinator, bucket, disks, publishers
<1>2. seal' \in BOOLEAN
  BY DEF RecoverSeal
<1>3. /\ Spent /\ (head' = head \/ hold) /\ (objects \subseteq objects' \/ hold)
      /\ \A m \in Machines : completed[m] # None => Source(completed[m]) \in objects'
  BY <1>1, <1>2 DEF IInv, Types, RecordsTyped, Spent, Claimed
<1>4. RecordsTyped' /\ PublishersTyped' /\ Journals' /\ Numbered' /\ Places' /\ Committed'
   /\ Prepared' /\ Claimed'
  BY <1>1, <1>3, MachinesKept
<1>5. HeadTyped' /\ InFlight' /\ Announced' /\ SnapshotKept' /\ CommittedOnce'
  BY <1>1, ChainKept
<1>6. CollectionTyped'
  BY <1>1, <1>2, <1>3 DEF IInv, Types, CollectionTyped, HeadTyped
<1>7. Barrier'
  BY <1>1, <1>2, <1>3 DEF IInv, Barrier, Drained, Linked
<1>8. Sweeping'
  BY <1>1, <1>2, <1>3 DEF IInv, Sweeping, Retained, Reaches, Tree, LastModified, Source
<1> QED  BY <1>4, <1>5, <1>6, <1>7, <1>8 DEF IInv, Types

\* What the time that passes still covers, it covered.
LEMMA TickInv ==
  ASSUME IInv, Tick
  PROVE  IInv'
<1>1. /\ owners' = owners /\ completed' = completed /\ pending' = pending
      /\ tombstone' = tombstone /\ published' = published /\ pc' = pc /\ seen' = seen
      /\ settled' = settled /\ chain' = chain
      /\ seal' = seal /\ hold' = hold /\ link' = link /\ gc' = gc /\ left' = left
      /\ head' = head /\ late' = late /\ objects' = objects
  BY DEF Tick, coordinator, bucket, disks, publishers
<1>2. now' \in 0 .. MaxTime /\ now' = now + 1 /\ gc.pc \in {"off", "hold"}
  BY BoundsTyped DEF Tick, IInv, Types, CollectionTyped
<1>3. now \in Nat /\ gc.clock \in Nat
  BY BoundsTyped DEF IInv, Types, CollectionTyped
<1>4. \A i \in DOMAIN chain : i # Len(chain) => chain[i + 1].at + Lifetime \in Nat
  BY ChainTyped, BoundsTyped DEF IInv
<1>5. /\ \A q \in Machines : seen'[q] \in {seen[q], None, head.epoch}
      /\ \A q \in Machines : owners[q] # None /\ ~Receipt(owners[q]) => owners'[q] = owners[q]
  BY <1>1
<1>6. /\ Spent /\ (head' = head \/ hold) /\ (objects \subseteq objects' \/ hold)
      /\ \A m \in Machines : completed[m] # None => Source(completed[m]) \in objects'
  BY <1>1, <1>2, <1>3, <1>4, <1>5 DEF IInv, Types, RecordsTyped, Spent, Claimed
<1>7. RecordsTyped' /\ PublishersTyped' /\ Journals' /\ Numbered' /\ Places' /\ Committed'
   /\ Prepared' /\ Claimed'
  BY <1>1, <1>6, MachinesKept
<1>8. HeadTyped'
  BY <1>1, <1>2, <1>3, <1>4, <1>5, <1>6 DEF IInv, Types, HeadTyped, Tree
<1>9. CollectionTyped'
  BY <1>1, <1>2, <1>3, <1>4, <1>5, <1>6 DEF IInv, Types, CollectionTyped, HeadTyped
<1>10. InFlight'
  BY <1>1, <1>2, <1>3, <1>4, <1>5, <1>6, InFlightKept
<1>11. Barrier'
  BY <1>1, <1>2, <1>3, <1>4, <1>5, <1>6 DEF IInv, Barrier, Drained, Linked
<1>12. Announced'
  BY <1>1, <1>2, <1>3, <1>4, <1>5, <1>6 DEF IInv, Announced
<1>13. Sweeping'
  BY <1>1, <1>2, <1>3, <1>4, <1>5, <1>6 DEF IInv, Sweeping, Retained, Reaches, Tree,
     LastModified, Source
<1>14. SnapshotKept'
  BY <1>1, <1>2, <1>3, <1>4, <1>5, <1>6 DEF IInv, SnapshotKept, Reaches, Tree
<1>15. CommittedOnce'
  BY <1>1, <1>2, <1>3, <1>4, <1>5, <1>6 DEF IInv, CommittedOnce
<1> QED  BY <1>7, <1>8, <1>9, <1>10, <1>11, <1>12, <1>13, <1>14, <1>15 DEF IInv, Types

\* The head that will be leased is announced before.
LEMMA BindLeaseInv ==
  ASSUME IInv, BindLease
  PROVE  IInv'
<1>1. /\ owners' = owners /\ completed' = completed /\ pending' = pending
      /\ tombstone' = tombstone /\ published' = published /\ pc' = pc /\ seen' = seen
      /\ settled' = settled /\ chain' = chain
      /\ now' = now /\ seal' = seal /\ hold' = hold /\ head' = head /\ late' = late
      /\ objects' = objects
  BY DEF BindLease, coordinator, bucket, disks, publishers
<1>2. /\ gc.pc = "link" /\ head.epoch = gc.seen /\ hold /\ link = None /\ FreshEpochs # {}
      /\ link' = [prior |-> gc.seen, leased |-> FreshEpoch, released |-> None]
  BY DEF BindLease
<1>3. FreshEpoch \in Epochs /\ FreshEpoch # head.epoch
  BY <1>2, FreshEpochIsFresh DEF IInv
<1>4. /\ link' \in Links /\ link' # None
      /\ link'.prior = head.epoch /\ link'.leased = FreshEpoch /\ link'.released = None
  BY <1>2, <1>3, NamesAssumption DEF IInv, Types, HeadTyped, Links
<1>5. /\ \A m \in Machines : owners[m] = None /\ pc[m] \notin Uploading
      /\ \A r \in late : r.commit = None
  BY <1>2, HeldHasNoOwner DEF IInv, Barrier, Linked
<1>6. late = {} /\ ~head.leased
  BY <1>2, <1>5 DEF IInv, InFlight, Announced
<1>7. Spent /\ (gc' = At("lease") \/ gc' = Idle)
  BY GcGoTyped DEF BindLease, IInv
<1>8. /\ gc' \in [pc : Collecting, clock : Nat, seen : Epochs \union {None},
                  todo : SUBSET objects]
      /\ gc'.todo = {}
      /\ \/ gc'.pc = "off"
         \/ gc'.pc = "lease" /\ gc'.clock = gc.clock /\ gc'.seen = gc.seen
  BY <1>2, <1>7, AtTyped, IdleTyped DEF IInv, Barrier, Linked, Collecting
<1>9. /\ Spent /\ (head' = head \/ hold) /\ (objects \subseteq objects' \/ hold)
      /\ \A m \in Machines : completed[m] # None => Source(completed[m]) \in objects'
  BY <1>1, <1>2, <1>3, <1>4, <1>5, <1>6, <1>7, <1>8 DEF IInv, Types, RecordsTyped, Spent,
     Claimed
<1>10. RecordsTyped' /\ PublishersTyped' /\ Journals' /\ Numbered' /\ Places' /\
   Committed' /\ Prepared' /\ Claimed'
  BY <1>1, <1>9, MachinesKept
<1>11. HeadTyped'
  BY <1>1, <1>2, <1>3, <1>4, <1>5, <1>6, <1>7, <1>8, <1>9 DEF IInv, Types, HeadTyped, Tree
<1>12. CollectionTyped'
  BY <1>1, <1>2, <1>3, <1>4, <1>5, <1>6, <1>7, <1>8, <1>9 DEF IInv, Types, CollectionTyped,
     HeadTyped
<1>13. InFlight'
  BY <1>1, <1>2, <1>3, <1>4, <1>5, <1>6, <1>7, <1>8, <1>9 DEF InFlight
<1>14. Barrier'
  BY <1>1, <1>2, <1>3, <1>4, <1>5, <1>6, <1>7, <1>8, <1>9 DEF IInv, Barrier, Drained,
     Linked
<1>15. Announced'
  BY <1>1, <1>2, <1>3, <1>4, <1>5, <1>6, <1>7, <1>8, <1>9, NamesAssumption DEF IInv, Announced,
     Types, HeadTyped
<1>16. Sweeping'
  BY <1>1, <1>2, <1>3, <1>4, <1>5, <1>6, <1>7, <1>8, <1>9 DEF IInv, Sweeping, Retained,
     Reaches, Tree, LastModified, Source
<1>17. SnapshotKept'
  BY <1>1, <1>2, <1>3, <1>4, <1>5, <1>6, <1>7, <1>8, <1>9 DEF IInv, SnapshotKept, Reaches,
     Tree
<1>18. CommittedOnce'
  BY <1>1, <1>2, <1>3, <1>4, <1>5, <1>6, <1>7, <1>8, <1>9 DEF IInv, CommittedOnce
<1> QED  BY <1>10, <1>11, <1>12, <1>13, <1>14, <1>15, <1>16, <1>17, <1>18 DEF IInv, Types

\* Once the head is leased nothing else is in flight.
LEMMA LeaseInv ==
  ASSUME IInv, Lease,
         Put([match |-> gc.seen, epoch |-> link.leased, leased |-> TRUE, commit |-> None]),
         GcGo([At("mark") EXCEPT !.seen = link.leased])
  PROVE  IInv'
<1>1. /\ owners' = owners /\ completed' = completed /\ pending' = pending
      /\ tombstone' = tombstone /\ published' = published /\ pc' = pc /\ seen' = seen
      /\ settled' = settled
      /\ now' = now /\ seal' = seal /\ hold' = hold /\ link' = link
  BY DEF Lease, coordinator, bucket, disks, publishers
<1>2. /\ gc.pc = "lease" /\ head.epoch = gc.seen
  BY DEF Lease
<1>3. link # None /\ hold /\ link \in Links
      /\ head.epoch \in Epochs /\ head.epoch # link.released
  BY <1>2, NamesAssumption DEF IInv, Barrier, Announced, Types, HeadTyped,
     CollectionTyped, Linked
<1>4. [match |-> gc.seen, epoch |-> link.leased, leased |-> TRUE, commit |-> None] \in Puts
  BY <1>2, <1>3 DEF Puts, Links
<1>5. PICK p \in Puts :
        /\ p = [match |-> gc.seen, epoch |-> link.leased, leased |-> TRUE, commit |-> None]
        /\ p.match = head.epoch /\ p.epoch = link.leased /\ p.leased = TRUE /\ p.commit = None
  BY <1>2, <1>4
<1>6. /\ \A m \in Machines : owners[m] = None /\ pc[m] \notin Uploading
      /\ \A r \in late : r.commit = None
  BY <1>3, HeldHasNoOwner DEF IInv, Barrier, Linked
<1>7. Put(p) /\ Spent /\ (gc' = [At("mark") EXCEPT !.seen = link.leased] \/ gc' = Idle)
  BY <1>5, GcGoTyped DEF IInv, GcPut
<1>8. /\ head' = [epoch |-> link.leased, leased |-> TRUE] /\ chain' = chain
      /\ objects' = objects /\ late' = {} /\ HeadTyped'
  BY <1>5, <1>7, PutMoves DEF IInv
<1>9. /\ gc' \in [pc : Collecting, clock : Nat, seen : Epochs \union {None},
                  todo : SUBSET objects]
      /\ gc'.todo = gc.todo \/ gc'.todo = {}
      /\ \/ gc'.pc = "off" /\ gc'.todo = {}
         \/ /\ gc'.pc = "mark" /\ gc'.clock = gc.clock
            /\ gc'.seen = link.leased
  BY <1>3, <1>7, AtTyped, IdleTyped DEF IInv, Links, Collecting, Linked
<1>10. head'.epoch = link.leased /\ head'.leased = TRUE
  BY <1>8
<1>11. /\ chain' = chain
       /\ Spent /\ (head' = head \/ hold) /\ (objects \subseteq objects' \/ hold)
       /\ \A m \in Machines : completed[m] # None => Source(completed[m]) \in objects'
  BY <1>1, <1>2, <1>3, <1>4, <1>5, <1>6, <1>7, <1>8, <1>9, <1>10 DEF IInv, Types,
     RecordsTyped, Spent, Claimed
<1>12. RecordsTyped' /\ PublishersTyped' /\ Journals' /\ Numbered' /\ Places' /\
   Committed' /\ Prepared' /\ Claimed'
  BY <1>1, <1>11, MachinesKept
<1>13. HeadTyped'
  BY <1>8
<1>14. CollectionTyped'
  BY <1>1, <1>2, <1>3, <1>4, <1>5, <1>6, <1>7, <1>8, <1>9, <1>10, <1>11 DEF IInv, Types,
     CollectionTyped, HeadTyped
<1>15. InFlight'
  BY <1>1, <1>2, <1>3, <1>4, <1>5, <1>6, <1>7, <1>8, <1>9, <1>10, <1>11 DEF InFlight
<1>16. Barrier'
  BY <1>1, <1>2, <1>3, <1>4, <1>5, <1>6, <1>7, <1>8, <1>9, <1>10, <1>11 DEF IInv, Barrier,
     Drained, Linked
<1>17. Announced'
  BY <1>1, <1>2, <1>3, <1>4, <1>5, <1>6, <1>7, <1>8, <1>9, <1>10, <1>11 DEF IInv,
     Announced
<1>18. Sweeping'
  BY <1>1, <1>2, <1>3, <1>4, <1>5, <1>6, <1>7, <1>8, <1>9, <1>10, <1>11 DEF IInv,
     Sweeping, Retained, Reaches, Tree, LastModified, Source
<1>19. SnapshotKept'
  BY <1>1, <1>2, <1>3, <1>4, <1>5, <1>6, <1>7, <1>8, <1>9, <1>10, <1>11 DEF IInv,
     SnapshotKept, Reaches, Tree
<1>20. CommittedOnce'
  BY <1>1, <1>2, <1>3, <1>4, <1>5, <1>6, <1>7, <1>8, <1>9, <1>10, <1>11 DEF IInv,
     CommittedOnce
<1> QED  BY <1>12, <1>13, <1>14, <1>15, <1>16, <1>17, <1>18, <1>19, <1>20 DEF IInv, Types

\* A lease that may still land is the announced one.
LEMMA LeaseDelayedInv ==
  ASSUME IInv, Lease,
         Delayed([match |-> gc.seen, epoch |-> link.leased, leased |-> TRUE, commit |-> None]),
         gc' = Idle
  PROVE  IInv'
<1>1. /\ owners' = owners /\ completed' = completed /\ pending' = pending
      /\ tombstone' = tombstone /\ published' = published /\ pc' = pc /\ seen' = seen
      /\ settled' = settled
      /\ now' = now /\ seal' = seal /\ hold' = hold /\ link' = link
  BY DEF Lease, coordinator, bucket, disks, publishers
<1>2. /\ gc.pc = "lease" /\ head.epoch = gc.seen
  BY DEF Lease
<1>3. link # None /\ hold /\ link \in Links
      /\ head.epoch \in Epochs /\ head.epoch # link.released
  BY <1>2, NamesAssumption DEF IInv, Barrier, Announced, Types, HeadTyped,
     CollectionTyped, Linked
<1>4. [match |-> gc.seen, epoch |-> link.leased, leased |-> TRUE, commit |-> None] \in Puts
  BY <1>2, <1>3 DEF Puts, Links
<1>5. PICK p \in Puts :
        /\ p = [match |-> gc.seen, epoch |-> link.leased, leased |-> TRUE, commit |-> None]
        /\ p.match = head.epoch /\ p.epoch = link.leased /\ p.leased = TRUE /\ p.commit = None
  BY <1>2, <1>4
<1>6. /\ \A m \in Machines : owners[m] = None /\ pc[m] \notin Uploading
      /\ \A r \in late : r.commit = None
  BY <1>3, HeldHasNoOwner DEF IInv, Barrier, Linked
<1>7. /\ head' = head /\ chain' = chain /\ objects' = objects /\ late' = late \union {p}
      /\ gc' = Idle /\ Spent
  BY <1>5, UseTyped DEF Delayed, IInv, Types, Kinds
<1>8. /\ gc' \in [pc : Collecting, clock : Nat, seen : Epochs \union {None},
                  todo : SUBSET objects] /\ gc'.pc = "off" /\ gc'.todo = {}
  BY <1>7, IdleTyped
<1>9. /\ chain' = chain
      /\ Spent /\ (head' = head \/ hold) /\ (objects \subseteq objects' \/ hold)
      /\ \A m \in Machines : completed[m] # None => Source(completed[m]) \in objects'
  BY <1>1, <1>2, <1>3, <1>4, <1>5, <1>6, <1>7, <1>8 DEF IInv, Types, RecordsTyped, Spent,
     Claimed
<1>10. RecordsTyped' /\ PublishersTyped' /\ Journals' /\ Numbered' /\ Places' /\
   Committed' /\ Prepared' /\ Claimed'
  BY <1>1, <1>9, MachinesKept
<1>11. HeadTyped'
  BY <1>1, <1>2, <1>3, <1>4, <1>5, <1>6, <1>7, <1>8, <1>9 DEF IInv, Types, HeadTyped, Tree
<1>12. CollectionTyped'
  BY <1>1, <1>2, <1>3, <1>4, <1>5, <1>6, <1>7, <1>8, <1>9 DEF IInv, Types, CollectionTyped,
     HeadTyped
<1>13. InFlight'
  BY <1>1, <1>2, <1>3, <1>4, <1>5, <1>6, <1>7, <1>8, <1>9 DEF IInv, InFlight
<1>14. Barrier'
  BY <1>1, <1>2, <1>3, <1>4, <1>5, <1>6, <1>7, <1>8, <1>9 DEF IInv, Barrier, Drained,
     Linked
<1>15. Announced'
  BY <1>1, <1>2, <1>3, <1>4, <1>5, <1>6, <1>7, <1>8, <1>9 DEF IInv, Announced
<1>16. Sweeping'
  BY <1>1, <1>2, <1>3, <1>4, <1>5, <1>6, <1>7, <1>8, <1>9 DEF IInv, Sweeping, Retained,
     Reaches, Tree, LastModified, Source
<1>17. SnapshotKept'
  BY <1>1, <1>2, <1>3, <1>4, <1>5, <1>6, <1>7, <1>8, <1>9 DEF IInv, SnapshotKept, Reaches,
     Tree
<1>18. CommittedOnce'
  BY <1>1, <1>2, <1>3, <1>4, <1>5, <1>6, <1>7, <1>8, <1>9 DEF IInv, CommittedOnce
<1> QED  BY <1>10, <1>11, <1>12, <1>13, <1>14, <1>15, <1>16, <1>17, <1>18 DEF IInv, Types

\* The head that is released is the announced one.
LEMMA ReleaseInv ==
  ASSUME IInv, Release,
         Put([match |-> gc.seen, epoch |-> link.released, leased |-> FALSE, commit |-> None]),
         GcGo(At("finish"))
  PROVE  IInv'
<1>1. /\ owners' = owners /\ completed' = completed /\ pending' = pending
      /\ tombstone' = tombstone /\ published' = published /\ pc' = pc /\ seen' = seen
      /\ settled' = settled
      /\ now' = now /\ seal' = seal /\ hold' = hold /\ link' = link
  BY DEF Release, coordinator, bucket, disks, publishers
<1>2. /\ gc.pc = "release" /\ head.epoch = gc.seen
  BY DEF Release
<1>3. link # None /\ hold /\ link \in Links /\ link.released # None
      /\ head.epoch \in Epochs /\ head.epoch # link.released
  BY <1>2, NamesAssumption DEF IInv, Barrier, Announced, Types, HeadTyped,
     CollectionTyped, Linked
<1>4. [match |-> gc.seen, epoch |-> link.released, leased |-> FALSE, commit |-> None] \in Puts
  BY <1>2, <1>3 DEF Puts, Links
<1>5. PICK p \in Puts :
        /\ p = [match |-> gc.seen, epoch |-> link.released, leased |-> FALSE, commit |-> None]
        /\ p.match = head.epoch /\ p.epoch = link.released /\ p.leased = FALSE
        /\ p.commit = None
  BY <1>2, <1>4
<1>6. /\ \A m \in Machines : owners[m] = None /\ pc[m] \notin Uploading
      /\ \A r \in late : r.commit = None
  BY <1>3, HeldHasNoOwner DEF IInv, Barrier, Linked
<1>7. Put(p) /\ Spent /\ (gc' = At("finish") \/ gc' = Idle)
  BY <1>5, GcGoTyped DEF IInv, GcPut
<1>8. /\ head' = [epoch |-> link.released, leased |-> FALSE] /\ chain' = chain
      /\ objects' = objects /\ late' = {} /\ HeadTyped'
  BY <1>5, <1>7, PutMoves DEF IInv
<1>9. /\ gc' \in [pc : Collecting, clock : Nat, seen : Epochs \union {None},
                  todo : SUBSET objects]
      /\ gc'.todo = gc.todo \/ gc'.todo = {}
      /\ \/ gc'.pc = "off" /\ gc'.todo = {}
         \/ /\ gc'.pc = "finish" /\ gc'.clock = gc.clock
            /\ gc'.seen = gc.seen
  BY <1>3, <1>7, AtTyped, IdleTyped DEF IInv, Links, Collecting, Linked
<1>10. head'.epoch = link.released /\ head'.leased = FALSE
  BY <1>8
<1>11. /\ chain' = chain
       /\ Spent /\ (head' = head \/ hold) /\ (objects \subseteq objects' \/ hold)
       /\ \A m \in Machines : completed[m] # None => Source(completed[m]) \in objects'
  BY <1>1, <1>2, <1>3, <1>4, <1>5, <1>6, <1>7, <1>8, <1>9, <1>10 DEF IInv, Types,
     RecordsTyped, Spent, Claimed
<1>12. RecordsTyped' /\ PublishersTyped' /\ Journals' /\ Numbered' /\ Places' /\
   Committed' /\ Prepared' /\ Claimed'
  BY <1>1, <1>11, MachinesKept
<1>13. HeadTyped'
  BY <1>8
<1>14. CollectionTyped'
  BY <1>1, <1>2, <1>3, <1>4, <1>5, <1>6, <1>7, <1>8, <1>9, <1>10, <1>11 DEF IInv, Types,
     CollectionTyped, HeadTyped
<1>15. InFlight'
  BY <1>1, <1>2, <1>3, <1>4, <1>5, <1>6, <1>7, <1>8, <1>9, <1>10, <1>11 DEF InFlight
<1>16. Barrier'
  BY <1>1, <1>2, <1>3, <1>4, <1>5, <1>6, <1>7, <1>8, <1>9, <1>10, <1>11 DEF IInv, Barrier,
     Drained, Linked
<1>17. Announced'
  BY <1>1, <1>2, <1>3, <1>4, <1>5, <1>6, <1>7, <1>8, <1>9, <1>10, <1>11 DEF IInv,
     Announced
<1>18. Sweeping'
  BY <1>1, <1>2, <1>3, <1>4, <1>5, <1>6, <1>7, <1>8, <1>9, <1>10, <1>11 DEF IInv,
     Sweeping, Retained, Reaches, Tree, LastModified, Source
<1>19. SnapshotKept'
  BY <1>1, <1>2, <1>3, <1>4, <1>5, <1>6, <1>7, <1>8, <1>9, <1>10, <1>11 DEF IInv,
     SnapshotKept, Reaches, Tree
<1>20. CommittedOnce'
  BY <1>1, <1>2, <1>3, <1>4, <1>5, <1>6, <1>7, <1>8, <1>9, <1>10, <1>11 DEF IInv,
     CommittedOnce
<1> QED  BY <1>12, <1>13, <1>14, <1>15, <1>16, <1>17, <1>18, <1>19, <1>20 DEF IInv, Types

\* A release that may still land is the announced one.
LEMMA ReleaseDelayedInv ==
  ASSUME IInv, Release,
         Delayed([match |-> gc.seen, epoch |-> link.released, leased |-> FALSE,
         commit |-> None]), gc' = Idle
  PROVE  IInv'
<1>1. /\ owners' = owners /\ completed' = completed /\ pending' = pending
      /\ tombstone' = tombstone /\ published' = published /\ pc' = pc /\ seen' = seen
      /\ settled' = settled
      /\ now' = now /\ seal' = seal /\ hold' = hold /\ link' = link
  BY DEF Release, coordinator, bucket, disks, publishers
<1>2. /\ gc.pc = "release" /\ head.epoch = gc.seen
  BY DEF Release
<1>3. link # None /\ hold /\ link \in Links /\ link.released # None
      /\ head.epoch \in Epochs /\ head.epoch # link.released
  BY <1>2, NamesAssumption DEF IInv, Barrier, Announced, Types, HeadTyped,
     CollectionTyped, Linked
<1>4. [match |-> gc.seen, epoch |-> link.released, leased |-> FALSE, commit |-> None] \in Puts
  BY <1>2, <1>3 DEF Puts, Links
<1>5. PICK p \in Puts :
        /\ p = [match |-> gc.seen, epoch |-> link.released, leased |-> FALSE, commit |-> None]
        /\ p.match = head.epoch /\ p.epoch = link.released /\ p.leased = FALSE
        /\ p.commit = None
  BY <1>2, <1>4
<1>6. /\ \A m \in Machines : owners[m] = None /\ pc[m] \notin Uploading
      /\ \A r \in late : r.commit = None
  BY <1>3, HeldHasNoOwner DEF IInv, Barrier, Linked
<1>7. /\ head' = head /\ chain' = chain /\ objects' = objects /\ late' = late \union {p}
      /\ gc' = Idle /\ Spent
  BY <1>5, UseTyped DEF Delayed, IInv, Types, Kinds
<1>8. /\ gc' \in [pc : Collecting, clock : Nat, seen : Epochs \union {None},
                  todo : SUBSET objects] /\ gc'.pc = "off" /\ gc'.todo = {}
  BY <1>7, IdleTyped
<1>9. /\ chain' = chain
      /\ Spent /\ (head' = head \/ hold) /\ (objects \subseteq objects' \/ hold)
      /\ \A m \in Machines : completed[m] # None => Source(completed[m]) \in objects'
  BY <1>1, <1>2, <1>3, <1>4, <1>5, <1>6, <1>7, <1>8 DEF IInv, Types, RecordsTyped, Spent,
     Claimed
<1>10. RecordsTyped' /\ PublishersTyped' /\ Journals' /\ Numbered' /\ Places' /\
   Committed' /\ Prepared' /\ Claimed'
  BY <1>1, <1>9, MachinesKept
<1>11. HeadTyped'
  BY <1>1, <1>2, <1>3, <1>4, <1>5, <1>6, <1>7, <1>8, <1>9 DEF IInv, Types, HeadTyped, Tree
<1>12. CollectionTyped'
  BY <1>1, <1>2, <1>3, <1>4, <1>5, <1>6, <1>7, <1>8, <1>9 DEF IInv, Types, CollectionTyped,
     HeadTyped
<1>13. InFlight'
  BY <1>1, <1>2, <1>3, <1>4, <1>5, <1>6, <1>7, <1>8, <1>9 DEF IInv, InFlight
<1>14. Barrier'
  BY <1>1, <1>2, <1>3, <1>4, <1>5, <1>6, <1>7, <1>8, <1>9 DEF IInv, Barrier, Drained,
     Linked
<1>15. Announced'
  BY <1>1, <1>2, <1>3, <1>4, <1>5, <1>6, <1>7, <1>8, <1>9 DEF IInv, Announced
<1>16. Sweeping'
  BY <1>1, <1>2, <1>3, <1>4, <1>5, <1>6, <1>7, <1>8, <1>9 DEF IInv, Sweeping, Retained,
     Reaches, Tree, LastModified, Source
<1>17. SnapshotKept'
  BY <1>1, <1>2, <1>3, <1>4, <1>5, <1>6, <1>7, <1>8, <1>9 DEF IInv, SnapshotKept, Reaches,
     Tree
<1>18. CommittedOnce'
  BY <1>1, <1>2, <1>3, <1>4, <1>5, <1>6, <1>7, <1>8, <1>9 DEF IInv, CommittedOnce
<1> QED  BY <1>10, <1>11, <1>12, <1>13, <1>14, <1>15, <1>16, <1>17, <1>18 DEF IInv, Types

\* The head that releases the lease is announced once.
LEMMA BindReleaseInv ==
  ASSUME IInv, BindRelease
  PROVE  IInv'
<1>1. /\ owners' = owners /\ completed' = completed /\ pending' = pending
      /\ tombstone' = tombstone /\ published' = published /\ pc' = pc /\ seen' = seen
      /\ settled' = settled /\ chain' = chain
      /\ now' = now /\ seal' = seal /\ hold' = hold /\ head' = head /\ late' = late
      /\ objects' = objects
  BY DEF BindRelease, coordinator, bucket, disks, publishers
<1>2. /\ gc.pc \in {"sweep", "recover"} /\ link # None /\ link \in Links
      /\ link.released = None => FreshEpochs # {}
      /\ link' = IF link.released # None THEN link ELSE [link EXCEPT !.released = FreshEpoch]
  BY DEF BindRelease, IInv, Types, CollectionTyped
<1>3. gc.seen \in {link.prior, link.leased} /\ gc.todo = {} /\ hold
  BY <1>2 DEF BindRelease, IInv, Barrier
<1>4. link.released = None =>
        /\ FreshEpoch \in Epochs /\ FreshEpoch # None /\ FreshEpoch # head.epoch
        /\ FreshEpoch \notin {link.prior, link.leased}
  BY <1>2, FreshEpochIsFresh DEF IInv
<1>5. /\ link' \in Links /\ link' # None /\ link'.prior = link.prior
      /\ link'.leased = link.leased
      /\ link'.released # None
      /\ link'.released = IF link.released # None THEN link.released ELSE FreshEpoch
  BY <1>2, <1>4, NamesAssumption DEF Links
<1>6. Spent /\ (gc' = At("release") \/ gc' = Idle)
  BY GcGoTyped DEF BindRelease, IInv
<1>7. /\ gc' \in [pc : Collecting, clock : Nat, seen : Epochs \union {None},
                  todo : SUBSET objects]
      /\ gc'.todo = {}
      /\ \/ gc'.pc = "off"
         \/ gc'.pc = "release" /\ gc'.seen = gc.seen
  BY <1>3, <1>6, AtTyped, IdleTyped DEF IInv, Collecting, Linked
<1>8. /\ \A m \in Machines : owners[m] = None /\ pc[m] \notin Uploading
      /\ \A r \in late : r.commit = None
  BY <1>3, HeldHasNoOwner DEF IInv, Barrier, Linked
<1>9. head.epoch \in Epochs /\ head.epoch # None
  BY NamesAssumption DEF IInv, Types, HeadTyped
<1>10. /\ Spent /\ (head' = head \/ hold) /\ (objects \subseteq objects' \/ hold)
       /\ \A m \in Machines : completed[m] # None => Source(completed[m]) \in objects'
  BY <1>1, <1>2, <1>3, <1>4, <1>5, <1>6, <1>7, <1>8, <1>9 DEF IInv, Types, RecordsTyped,
     Spent, Claimed
<1>11. RecordsTyped' /\ PublishersTyped' /\ Journals' /\ Numbered' /\ Places' /\
   Committed' /\ Prepared' /\ Claimed'
  BY <1>1, <1>10, MachinesKept
<1>12. HeadTyped'
  BY <1>1, <1>2, <1>3, <1>4, <1>5, <1>6, <1>7, <1>8, <1>9, <1>10 DEF IInv, Types, HeadTyped,
     Tree
<1>13. CollectionTyped'
  BY <1>1, <1>2, <1>3, <1>4, <1>5, <1>6, <1>7, <1>8, <1>9, <1>10 DEF IInv, Types,
     CollectionTyped, HeadTyped
<1>14. InFlight'
  <2>1. \A r \in late : r.epoch \in Epochs /\ r.epoch # None
    BY NamesAssumption DEF IInv, Types, HeadTyped, Puts
  <2> QED  BY <1>1, <1>2, <1>3, <1>4, <1>5, <1>6, <1>7, <1>8, <1>9, <1>10, <2>1 DEF IInv, InFlight
<1>15. Barrier'
  BY <1>1, <1>2, <1>3, <1>4, <1>5, <1>6, <1>7, <1>8, <1>9, <1>10 DEF IInv, Barrier,
     Drained, Linked
<1>16. Announced'
  BY <1>1, <1>2, <1>3, <1>4, <1>5, <1>6, <1>7, <1>8, <1>9, <1>10 DEF IInv, Announced
<1>17. Sweeping'
  BY <1>1, <1>2, <1>3, <1>4, <1>5, <1>6, <1>7, <1>8, <1>9, <1>10 DEF IInv, Sweeping,
     Retained, Reaches, Tree, LastModified, Source
<1>18. SnapshotKept'
  BY <1>1, <1>2, <1>3, <1>4, <1>5, <1>6, <1>7, <1>8, <1>9, <1>10 DEF IInv, SnapshotKept,
     Reaches, Tree
<1>19. CommittedOnce'
  BY <1>1, <1>2, <1>3, <1>4, <1>5, <1>6, <1>7, <1>8, <1>9, <1>10 DEF IInv, CommittedOnce
<1> QED  BY <1>11, <1>12, <1>13, <1>14, <1>15, <1>16, <1>17, <1>18, <1>19 DEF IInv, Types

\* Once the lease is off the head, nothing of the collection is in flight.
LEMMA FinishInv ==
  ASSUME IInv, Finish
  PROVE  IInv'
<1>1. /\ owners' = owners /\ completed' = completed /\ pending' = pending
      /\ tombstone' = tombstone /\ published' = published /\ pc' = pc /\ seen' = seen
      /\ settled' = settled /\ chain' = chain
      /\ now' = now /\ head' = head /\ late' = late /\ objects' = objects
  BY DEF Finish, coordinator, bucket, disks, publishers
<1>2. link # None /\ head.epoch = link.released /\ link' = None /\ hold' = FALSE /\ seal' = FALSE
  BY DEF Finish
<1>3. Spent /\ gc' = Idle
  BY GcGoTyped DEF Finish, IInv
<1>4. /\ gc' \in [pc : Collecting, clock : Nat, seen : Epochs \union {None},
                  todo : SUBSET objects] /\ gc'.pc = "off" /\ gc'.todo = {}
  BY <1>3, IdleTyped
<1>5. /\ \A m \in Machines : owners[m] = None /\ pc[m] \notin Uploading
      /\ \A r \in late : r.commit = None
  BY <1>2, HeldHasNoOwner DEF IInv, Barrier, Linked
<1>6. late = {} /\ ~head.leased
  BY <1>2, <1>5 DEF IInv, InFlight, Announced
<1>7. /\ Spent /\ (head' = head \/ hold) /\ (objects \subseteq objects' \/ hold)
      /\ \A m \in Machines : completed[m] # None => Source(completed[m]) \in objects'
  BY <1>1, <1>2, <1>3, <1>4, <1>5, <1>6 DEF IInv, Types, RecordsTyped, Spent, Claimed
<1>8. RecordsTyped' /\ PublishersTyped' /\ Journals' /\ Numbered' /\ Places' /\ Committed'
   /\ Prepared' /\ Claimed'
  BY <1>1, <1>7, MachinesKept
<1>9. HeadTyped'
  BY <1>1, <1>2, <1>3, <1>4, <1>5, <1>6, <1>7 DEF IInv, Types, HeadTyped, Tree
<1>10. CollectionTyped'
  BY <1>1, <1>2, <1>3, <1>4, <1>5, <1>6, <1>7 DEF IInv, Types, CollectionTyped, HeadTyped
<1>11. InFlight'
  BY <1>1, <1>2, <1>3, <1>4, <1>5, <1>6, <1>7 DEF InFlight
<1>12. Barrier'
  BY <1>1, <1>2, <1>3, <1>4, <1>5, <1>6, <1>7 DEF IInv, Barrier, Drained, Linked
<1>13. Announced'
  BY <1>1, <1>2, <1>3, <1>4, <1>5, <1>6, <1>7 DEF IInv, Announced
<1>14. Sweeping'
  BY <1>1, <1>2, <1>3, <1>4, <1>5, <1>6, <1>7 DEF IInv, Sweeping, Retained, Reaches, Tree,
     LastModified, Source
<1>15. SnapshotKept'
  BY <1>1, <1>2, <1>3, <1>4, <1>5, <1>6, <1>7 DEF IInv, SnapshotKept, Reaches, Tree
<1>16. CommittedOnce'
  BY <1>1, <1>2, <1>3, <1>4, <1>5, <1>6, <1>7 DEF IInv, CommittedOnce
<1> QED  BY <1>8, <1>9, <1>10, <1>11, <1>12, <1>13, <1>14, <1>15, <1>16 DEF IInv, Types

\* What is deleted is of no snapshot that is covered.
LEMMA DeleteInv ==
  ASSUME IInv, Delete
  PROVE  IInv'
<1>1. /\ owners' = owners /\ completed' = completed /\ pending' = pending
      /\ tombstone' = tombstone /\ published' = published /\ pc' = pc /\ seen' = seen
      /\ settled' = settled /\ chain' = chain
      /\ now' = now /\ seal' = seal /\ hold' = hold /\ link' = link /\ head' = head
      /\ late' = late
  BY DEF Delete, coordinator, bucket, disks, publishers
<1>2. /\ gc.pc = "sweep" /\ link # None /\ hold /\ late = {}
  BY DEF Delete, Fenced, IInv, Sweeping
<1>3. PICK o \in gc.todo :
        objects' = objects \ {o} /\ GcGo([gc EXCEPT !.todo = @ \ {o}])
  BY DEF Delete
<1>4. Spent /\ (gc' = [gc EXCEPT !.todo = gc.todo \ {o}] \/ gc' = Idle)
  BY <1>3, GcGoTyped DEF IInv
<1>5. gc \in [pc : Collecting, clock : Nat, seen : Epochs \union {None},
              todo : SUBSET objects] /\ gc.clock <= now
  BY <1>2 DEF IInv, Types, CollectionTyped, Sweeping
<1>6. /\ gc' \in [pc : Collecting, clock : Nat, seen : Epochs \union {None},
                  todo : SUBSET objects']
      /\ \/ gc'.pc = "off" /\ gc'.todo = {}
         \/ /\ gc'.pc = "sweep" /\ gc'.clock = gc.clock /\ gc'.seen = gc.seen
            /\ gc'.todo = gc.todo \ {o}
  BY <1>2, <1>3, <1>4, <1>5, IdleTyped DEF Idle
<1>7. /\ \A i \in DOMAIN chain : Retained(i, gc.clock) => o \notin Reaches(i)
      /\ \A m \in Machines : completed[m] # None => Source(completed[m]) # o
  BY <1>2, <1>3 DEF IInv, Sweeping
<1>8. /\ \A m \in Machines : owners[m] = None /\ pc[m] \notin Uploading
      /\ \A r \in late : r.commit = None
  BY <1>2, HeldHasNoOwner DEF IInv, Barrier, Linked
<1>9. /\ Spent /\ (head' = head \/ hold) /\ (objects \subseteq objects' \/ hold)
      /\ \A m \in Machines : completed[m] # None => Source(completed[m]) \in objects'
  BY <1>1, <1>2, <1>3, <1>4, <1>5, <1>6, <1>7, <1>8 DEF IInv, Types, RecordsTyped, Spent,
     Claimed
<1>10. RecordsTyped' /\ PublishersTyped' /\ Journals' /\ Numbered' /\ Places' /\
   Committed' /\ Prepared' /\ Claimed'
  BY <1>1, <1>9, MachinesKept
<1>11. HeadTyped'
  BY <1>1, <1>2, <1>3, <1>4, <1>5, <1>6, <1>7, <1>8, <1>9 DEF IInv, Types, HeadTyped, Tree
<1>12. CollectionTyped'
  BY <1>1, <1>2, <1>3, <1>4, <1>5, <1>6, <1>7, <1>8, <1>9 DEF IInv, Types, CollectionTyped,
     HeadTyped
<1>13. InFlight'
  BY <1>1, <1>2, <1>3, <1>4, <1>5, <1>6, <1>7, <1>8, <1>9 DEF InFlight
<1>14. Barrier'
  BY <1>1, <1>2, <1>3, <1>4, <1>5, <1>6, <1>7, <1>8, <1>9 DEF IInv, Barrier, Drained,
     Linked
<1>15. Announced'
  BY <1>1, <1>2, <1>3, <1>4, <1>5, <1>6, <1>7, <1>8, <1>9 DEF IInv, Announced
<1>16. Sweeping'
  BY <1>1, <1>2, <1>3, <1>4, <1>5, <1>6, <1>7, <1>8, <1>9 DEF IInv, Sweeping, Retained,
     Reaches, Tree, LastModified, Source
<1>17. SnapshotKept'
  <2>1. \A i \in DOMAIN chain :
          (i = Len(chain) \/ now < chain[i + 1].at + Lifetime) =>
            o \notin Reaches(i) /\ Reaches(i) \subseteq objects
    BY <1>5, <1>7, CoveredIsRetained DEF IInv, SnapshotKept
  <2> QED  BY <1>1, <1>3, <2>1 DEF SnapshotKept, Reaches, Tree
<1>18. CommittedOnce'
  BY <1>1, <1>2, <1>3, <1>4, <1>5, <1>6, <1>7, <1>8, <1>9 DEF IInv, CommittedOnce
<1> QED  BY <1>10, <1>11, <1>12, <1>13, <1>14, <1>15, <1>16, <1>17, <1>18 DEF IInv, Types

\* A lease or a release that was given up on lands.
LEMMA LandInv ==
  ASSUME IInv, NEW p \in late, p.commit = None, Put(p),
         UNCHANGED <<now, coordinator, disks, publishers, gc, left>>
  PROVE  IInv'
<1>1. /\ owners' = owners /\ completed' = completed /\ pending' = pending
      /\ tombstone' = tombstone /\ published' = published /\ pc' = pc /\ seen' = seen
      /\ settled' = settled
      /\ now' = now /\ seal' = seal /\ hold' = hold /\ link' = link /\ gc' = gc /\ left' = left
  BY DEF coordinator, bucket, disks, publishers
<1>2. p \in Puts /\ link # None /\ hold /\ p.epoch = IF p.leased THEN link.leased ELSE link.released
  BY DEF IInv, InFlight, Types, HeadTyped, Barrier
<1>3. /\ head' = [epoch |-> p.epoch, leased |-> p.leased] /\ chain' = chain
      /\ objects' = objects /\ late' = {} /\ HeadTyped'
  BY <1>2, PutMoves DEF IInv
<1>4. /\ \A m \in Machines : owners[m] = None /\ pc[m] \notin Uploading
      /\ \A r \in late : r.commit = None
  BY <1>2, HeldHasNoOwner DEF IInv, Barrier, Linked
<1>5. gc.pc \notin {"mark", "sweep"}
  BY DEF IInv, Sweeping
<1>6. head'.epoch = p.epoch /\ head'.leased = p.leased
  BY <1>3
<1>7. /\ chain' = chain
      /\ Spent /\ (head' = head \/ hold) /\ (objects \subseteq objects' \/ hold)
      /\ \A m \in Machines : completed[m] # None => Source(completed[m]) \in objects'
  BY <1>1, <1>2, <1>3, <1>4, <1>5, <1>6 DEF IInv, Types, RecordsTyped, Spent, Claimed
<1>8. RecordsTyped' /\ PublishersTyped' /\ Journals' /\ Numbered' /\ Places' /\ Committed'
   /\ Prepared' /\ Claimed'
  BY <1>1, <1>7, MachinesKept
<1>9. HeadTyped'
  BY <1>3
<1>10. CollectionTyped'
  BY <1>1, <1>2, <1>3, <1>4, <1>5, <1>6, <1>7 DEF IInv, Types, CollectionTyped, HeadTyped
<1>11. InFlight'
  BY <1>1, <1>2, <1>3, <1>4, <1>5, <1>6, <1>7 DEF InFlight
<1>12. Barrier'
  BY <1>1, <1>2, <1>3, <1>4, <1>5, <1>6, <1>7 DEF IInv, Barrier, Drained, Linked
<1>13. Announced'
  BY <1>1, <1>2, <1>3, <1>4, <1>5, <1>6, <1>7 DEF IInv, Announced
<1>14. Sweeping'
  BY <1>1, <1>2, <1>3, <1>4, <1>5, <1>6, <1>7 DEF IInv, Sweeping, Retained, Reaches, Tree,
     LastModified, Source
<1>15. SnapshotKept'
  BY <1>1, <1>2, <1>3, <1>4, <1>5, <1>6, <1>7 DEF IInv, SnapshotKept, Reaches, Tree
<1>16. CommittedOnce'
  BY <1>1, <1>2, <1>3, <1>4, <1>5, <1>6, <1>7 DEF IInv, CommittedOnce
<1> QED  BY <1>8, <1>9, <1>10, <1>11, <1>12, <1>13, <1>14, <1>15, <1>16 DEF IInv, Types

\* At first there is one head, which commits nothing, and nobody does anything.
LEMMA InitInv == Init => IInv
<1> SUFFICES ASSUME Init
             PROVE  IInv
  OBVIOUS
<1>1. /\ now = 0 /\ seal = FALSE /\ hold = FALSE /\ link = None /\ late = {}
      /\ objects = {Tree(1)}
      /\ owners = [m \in Machines |-> None] /\ completed = [m \in Machines |-> None]
      /\ pending = [m \in Machines |-> None] /\ tombstone = [m \in Machines |-> None]
      /\ published = [m \in Machines |-> 0] /\ pc = [m \in Machines |-> "idle"]
      /\ seen = [m \in Machines |-> None] /\ settled = [m \in Machines |-> FALSE]
      /\ gc = Idle /\ left = Budget
  BY DEF Init
<1>2. head.leased = FALSE /\ head \in [epoch : Epochs, leased : BOOLEAN]
  BY NamesAssumption DEF Init
<1> DEFINE first == [by |-> None, n |-> 0, roots |-> [m \in Machines |-> None], at |-> 0]
<1>3. chain = <<first>> /\ first.by = None /\ \A m \in Machines : first.roots[m] = None
  BY DEF Init
<1>4. first \in Entries
  <2>1. [m \in Machines |-> None] \in [Machines -> Contents \union {None}] /\ 0 \in 0 .. MaxTime
    BY BoundsTyped
  <2> QED  BY <2>1 DEF Entries
<1> HIDE DEF first
<1>5. /\ chain \in Seq(Entries) /\ chain # <<>> /\ Len(chain) = 1 /\ DOMAIN chain = {1}
      /\ chain[1] = first
  BY <1>3, <1>4
<1>6. Types
  <2>1. RecordsTyped /\ PublishersTyped
    BY <1>1, BoundsTyped DEF RecordsTyped, PublishersTyped, Publishing
  <2>2. HeadTyped
    BY <1>1, <1>2, <1>5 DEF HeadTyped
  <2>3. CollectionTyped
    <3>1. 0 \in 0 .. MaxTime
      BY BoundsTyped
    <3>2. gc = Idle /\ Idle \in [pc : Collecting, clock : Nat, seen : Epochs \union {None},
                                 todo : SUBSET objects]
      BY <1>1, IdleTyped
    <3> QED  BY <1>1, <3>1, <3>2 DEF CollectionTyped
  <2> QED  BY <2>1, <2>2, <2>3 DEF Types
<1>7. gc.pc = "off" /\ gc.todo = {}
  BY <1>1, IdleTyped
<1>8. Journals /\ Places /\ Prepared /\ InFlight /\ Claimed
  BY <1>1 DEF Journals, Places, Prepared, InFlight, Claimed, Uploading, Removing
<1>9. Numbered
  BY <1>1, BoundsTyped DEF Numbered
<1>10. Committed
  BY <1>1, <1>3, <1>5, NamesAssumption DEF Committed
<1>11. Barrier /\ Announced /\ Sweeping
  BY <1>1, <1>2, <1>7 DEF Barrier, Announced, Sweeping, Linked
<1>12. SnapshotKept /\ CommittedOnce
  BY <1>1, <1>3, <1>5 DEF SnapshotKept, CommittedOnce, Reaches
<1> QED  BY <1>6, <1>8, <1>9, <1>10, <1>11, <1>12 DEF IInv

\* A step that changes nothing keeps it.
LEMMA StutterInv ==
  ASSUME IInv, UNCHANGED vars
  PROVE  IInv'
<1>1. /\ now' = now /\ owners' = owners /\ completed' = completed /\ seal' = seal
      /\ hold' = hold
      /\ link' = link /\ head' = head /\ chain' = chain /\ late' = late /\ objects' = objects
      /\ pending' = pending /\ tombstone' = tombstone /\ published' = published /\ pc' = pc
      /\ seen' = seen /\ settled' = settled /\ gc' = gc /\ left' = left
  BY DEF vars, coordinator, bucket, disks, publishers
<1>2. Types' /\ Journals' /\ Numbered'
  BY <1>1 DEF IInv, Types, RecordsTyped, PublishersTyped, HeadTyped, CollectionTyped, Tree,
     Journals, Numbered
<1>3. Places' /\ Committed' /\ Prepared' /\ InFlight' /\ Claimed'
  BY <1>1 DEF IInv, Places, Committed, Prepared, InFlight, Claimed, Receipt, Source
<1>4. Barrier' /\ Announced' /\ CommittedOnce'
  BY <1>1 DEF IInv, Barrier, Announced, CommittedOnce, Drained
<1>5. Sweeping' /\ SnapshotKept'
  BY <1>1 DEF IInv, Sweeping, SnapshotKept, Retained, LastModified, Reaches, Tree, Source
<1> QED  BY <1>2, <1>3, <1>4, <1>5 DEF IInv

\* A step of the specification is one of the above.
LEMMA NextInv ==
  ASSUME IInv, [Next]_vars
  PROVE  IInv'
<1>1. ASSUME NEW m \in Machines, Publish(m)
      PROVE  IInv'
  <2>1. CASE Begin(m)
    BY <2>1, BeginSettledInv, BeginInv
  <2>2. CASE ReadHead(m)
    BY <2>2, ReadKnownInv, ReadHeadInv
  <2>3. CASE Commit(m)
    <3>1. \/ Put(CommitPut(m)) /\ Go(m, "acknowledge")
          \/ Delayed(CommitPut(m)) /\ pc' = [pc EXCEPT ![m] = "idle"]
      BY <2>3 DEF Commit
    <3> QED  BY <2>3, <3>1, CommitInv, CommitDelayedInv
  <2>4. CASE PutSource(m) \/ Rebase(m) \/ Acknowledge(m) \/ Complete(m)
    BY <2>4, PutSourceInv, RebaseInv, AcknowledgeInv, CompleteInv
  <2>5. CASE Bury(m) \/ Unlink(m) \/ Forget(m) \/ Retire(m) \/ RecoverRemoval(m)
    BY <2>5, BuryInv, UnlinkInv, ForgetInv, RetireInv, RecoverRemovalInv
  <2> QED  BY <1>1, <2>1, <2>2, <2>3, <2>4, <2>5 DEF Publish
<1>2. CASE Collect
  <2>1. CASE Lease
    BY <2>1, LeaseInv, LeaseDelayedInv DEF Lease, GcPut
  <2>2. CASE Release
    BY <2>2, ReleaseInv, ReleaseDelayedInv DEF Release, GcPut
  <2>3. CASE ReadClock \/ Hold \/ BindLease \/ Mark \/ Delete
    BY <2>3, ReadClockInv, HoldInv, BindLeaseInv, MarkInv, DeleteInv
  <2>4. CASE BindRelease \/ GcConflict \/ Finish
    BY <2>4, BindReleaseInv, ConflictInv, FinishInv
  <2> QED  BY <1>2, <2>1, <2>2, <2>3, <2>4 DEF Collect
<1>3. CASE Land
  <2>1. PICK p \in late : Put(p)
    BY <1>3 DEF Land
  <2>2. UNCHANGED <<now, coordinator, disks, publishers, gc, left>>
    BY <1>3 DEF Land
  <2>3. CASE p.commit = None
    BY <2>1, <2>2, <2>3, LandInv
  <2>4. CASE p.commit # None
    BY <2>1, <2>2, <2>4, LandCommitInv
  <2> QED  BY <2>3, <2>4
<1>4. ASSUME NEW m \in Machines, Prepare(m)
      PROVE  IInv'
  BY <1>4, PrepareInv
<1>5. CASE Seal \/ Recover \/ RecoverSeal \/ Tick
  BY <1>5, SealInv, RecoverInv, RecoverSealInv, TickInv
<1>6. CASE UNCHANGED vars
  BY <1>6, StutterInv
<1> QED  BY <1>1, <1>2, <1>3, <1>4, <1>5, <1>6 DEF Next

-----------------------------------------------------------------------------
(* Theorems                                                                *)

\* Whatever is published, collected, given up on or recovered, the parts hold
\* together.
THEOREM Invariance == Spec => []IInv
<1>1. Init => IInv
  BY InitInv
<1>2. IInv /\ [Next]_vars => IInv'
  BY NextInv
<1> QED  BY <1>1, <1>2, PTL DEF Spec

\* The head, the coordinator's entries, the journals and what a collection has
\* to do keep their types.
THEOREM TypeCorrect == Spec => []TypeOK
<1>1. ASSUME IInv
      PROVE  TypeOK
  <2>1. \A i \in DOMAIN chain :
          chain[i].at \in 0 .. MaxTime /\ chain[i].roots \in [Machines -> Contents \union {None}]
    BY <1>1, ChainTyped, BoundsTyped DEF IInv
  <2>2. \A p \in late : p.match = head.epoch
    BY <1>1 DEF IInv, InFlight
  <2> QED  BY <1>1, <2>1, <2>2
           DEF IInv, Types, RecordsTyped, HeadTyped, CollectionTyped, TypeOK
<1> QED  BY <1>1, Invariance, PTL

\* A reader finds every object of the snapshots that a lifetime covers
\* (catalog/snapshot.go, markRetained).
THEOREM SnapshotsAlwaysKept == Spec => []SnapshotKept
<1>1. IInv => SnapshotKept
  BY DEF IInv
<1> QED  BY <1>1, Invariance, PTL

\* A mutation is in the head's chain once, whatever answer was lost (Commit).
THEOREM NothingCommittedTwice == Spec => []CommittedOnce
<1>1. IInv => CommittedOnce
  BY DEF IInv
<1> QED  BY <1>1, Invariance, PTL

\* A lease, a receipt and a tombstone have whoever will remove them.
THEOREM AuthorityAlwaysOwned == Spec => []AuthorityIsOwned
<1>1. IInv => AuthorityIsOwned
  BY DEF IInv, Announced, Journals, Committed, AuthorityIsOwned
<1> QED  BY <1>1, Invariance, PTL

\* No step takes away what an admitted publisher uploaded or a receipt refers
\* to, nor moves what the head commits under a lease (verifyGCSweep, Authorized).
THEOREM ClaimsAlwaysKept == Spec => ClaimsKept
<1> DEFINE Sources == \A m \in Machines :
             /\ owners[m] # None /\ Source(owners[m]) \in objects => Source(owners[m]) \in objects'
             /\ completed[m] # None => Source(completed[m]) \in objects'
<1>1. ASSUME IInv, Next
      PROVE  objects \subseteq objects' \/ Delete
  BY <1>1 DEF Next, Publish, Collect, Prepare, Begin, PutSource, ReadHead, Commit, Rebase,
     Acknowledge, Complete, Bury, Unlink, Forget, Retire, RecoverRemoval, Seal, ReadClock,
     Hold, BindLease, Lease, Mark, BindRelease, Release, GcConflict, Finish, Recover,
     RecoverSeal, Tick, Land, GcPut, Put, Delayed, bucket
<1>2. ASSUME IInv, Delete
      PROVE  Sources
  <2>1. PICK o \in gc.todo : objects' = objects \ {o}
    BY <1>2 DEF Delete
  <2>2. gc.pc = "sweep" /\ \A m \in Machines : owners[m] = None
    BY <1>2 DEF Delete, Fenced, Drained
  <2> QED  BY <1>2, <2>1, <2>2 DEF IInv, Sweeping, Claimed
<1>3. ASSUME IInv, Next
      PROVE  Sources
  BY <1>1, <1>2, <1>3 DEF IInv, Claimed
<1>4. ASSUME IInv, Next, head.leased
      PROVE  chain' = chain
  <2>1. hold
    BY <1>4 DEF IInv, Announced, Barrier
  <2>2. ASSUME NEW m \in Machines, Commit(m)
        PROVE  FALSE
    BY <2>1, <2>2 DEF Commit, Authorized
  <2>3. ASSUME NEW p \in late, Put(p)
        PROVE  chain' = chain
    BY <1>4, <2>1, <2>3, HeldHasNoOwner DEF Put
  <2> QED  BY <1>4, <2>2, <2>3
     DEF Next, Publish, Collect, Prepare, Begin, PutSource, ReadHead, Rebase,
     Acknowledge, Complete, Bury, Unlink, Forget, Retire, RecoverRemoval, Seal, ReadClock,
     Hold, BindLease, Lease, Mark, Delete, BindRelease, Release, GcConflict, Finish, Recover,
     RecoverSeal, Tick, Land, GcPut, Put, Delayed, bucket
<1>5. IInv /\ [Next]_vars =>
        [Sources /\ (head.leased => chain' = chain)]_vars
  BY <1>3, <1>4
<1> QED  BY <1>5, Invariance, PTL DEF Spec, ClaimsKept
=============================================================================
