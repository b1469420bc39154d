------------------------------- MODULE Branch -------------------------------
(***************************************************************************)
(* One branch and everything that writes it: at-rest checkpoints, sessions *)
(* and repoints, interleaved at their store calls, beside the edits other  *)
(* parties make to the ref.                                                *)
(***************************************************************************)
EXTENDS AtRestCheckpoint, SessionFlush, Repointing

vars == <<storeVars, procVars, flushVars>>

Init == StoreInit /\ ProcInit /\ FlushInit

Next ==
  \/ \E c \in Checkpointers : CheckpointNext(c) /\ UNCHANGED flushVars
  \/ \E s \in Sessions : SessionNext(s)
  \/ \E p \in Repointers : RepointNext(p) /\ UNCHANGED flushVars
  \/ Environment /\ UNCHANGED procVars /\ UNCHANGED flushVars

Spec == Init /\ [][Next]_vars

(* Checkpoint calls are interchangeable: the permutations of them.          *)
CheckpointerSymmetry ==
  {[c \in Checkpointers |-> f[c]] :
     f \in {f \in [Checkpointers -> Checkpointers] :
              \A c \in Checkpointers : \E d \in Checkpointers : f[d] = c}}

-----------------------------------------------------------------------------
(* Every value is of its type.                                              *)
TypeOK ==
  /\ StoreTypeOK
  /\ ProcTypeOK(CheckpointLabels \cup SessionLabels \cup RepointLabels)
  /\ FlushTypeOK

(* One writer per lineage and epoch: the objects of one lineage stored under*)
(* one epoch all come from one writer.  Fencing rests on it: an upload      *)
(* names its epoch, and nobody else can be writing there.                   *)
OneWriterPerEpoch ==
  \A o, p \in objs \cup committed :
    o.lineage = p.lineage /\ o.epoch = p.epoch => o.by = p.by

(* The order in which a branch's ref moves from r to n: to a later lineage, *)
(* or to a later epoch of its lineage, or within its epoch by keeping or    *)
(* dropping its lease.  No epoch ever has two holders.                      *)
Forward(r, n) ==
  \/ n.lineage > r.lineage
  \/ n.lineage = r.lineage /\ n.epoch > r.epoch
  \/ n.lineage = r.lineage /\ n.epoch = r.epoch /\ n.holder \in {r.holder, NoHolder}

(* The ref only ever moves forward, so a writer that finds another lineage, *)
(* epoch or holder on it can never find its own again: neither a takeover   *)
(* raced by a renewal or a repoint nor a write that lands late undoes the   *)
(* fence.                                                                   *)
FenceForward == [][Exists /\ ref' # Gone => Forward(ref, ref')]_vars

\* Every conditional write of the ref that may still be sent or applied, and
\* every object stored, published or yet to be.
Pending == inflight \cup UNION {write[p] : p \in Procs}

Uploads ==
  objs \cup committed \cup (UNION {plan[p] : p \in Procs})
       \cup (UNION {w.commits : w \in Pending})

\* o could have been written by r's holder, under r or before it.
Behind(o, r) ==
  \/ o.lineage < r.lineage
  \/ o.lineage = r.lineage /\ o.epoch < r.epoch
  \/ o.lineage = r.lineage /\ o.epoch = r.epoch /\ r.holder \in {o.by, NoHolder}

(* What the writers together maintain for OneWriterPerEpoch to hold: even   *)
(* of the objects not yet uploaded, those of one epoch have one writer;     *)
(* none is ahead of the ref; and every ref write on its way, sent or not,   *)
(* moves the ref forward from the ref it expects.                           *)
Fencing ==
  /\ \A o, p \in Uploads :
       o.lineage = p.lineage /\ o.epoch = p.epoch => o.by = p.by
  /\ Exists => ref.lineage <= lineages /\ \A o \in Uploads : Behind(o, ref)
  /\ \A w \in Pending : Forward(w.expect, w.new) /\ w.new.lineage <= lineages
  /\ \A c \in Checkpointers :
       pc[c] = "ckTake" => \A w \in write[c] : w.new.holder = c

(* What resolution serves for o's txid of o's lineage is o itself.          *)
Served(o) ==
  /\ o \in objs
  /\ \A p \in objs : SameState(o, p) /\ p # o => MoreLive(o, p)

(* Whatever a landed head write published stays what resolution serves at   *)
(* that txid: no later upload, retry, overwrite or clean-up by any writer,  *)
(* fenced or not, replaces, shadows or removes it.                          *)
CommittedIntact == \A o \in committed : Served(o)

(* A head write lands only under the lease its object was uploaded with:   *)
(* the holder and epoch on the ref at that moment, one txid above the head, *)
(* and for a checkpoint on a branch nobody is removing.  A write the client *)
(* gave up on is no exception.                                              *)
CommitsUnderLease ==
  [][\A o \in committed' \ committed :
       /\ Holds(ref, o.by, o.epoch)
       /\ o.lineage = ref.lineage
       /\ o.txid = ref.head + 1
       /\ o.by \in Checkpointers => ref.claims = {}]_vars

(* What the writers maintain for CommitsUnderLease to hold: each plans only *)
(* objects of its own, and a head write on its way, sent or not, expects    *)
(* the very lease, lineage and head its object was made under.              *)
PublishesOwn ==
  /\ \A p \in Procs : \A o \in plan[p] : o.by = p
  /\ \A w \in Pending : \A o \in w.commits :
       /\ Holds(w.expect, o.by, o.epoch)
       /\ o.lineage = w.expect.lineage
       /\ o.txid = w.expect.head + 1
       /\ o.by \in Checkpointers => w.expect.claims = {}

(* A live lease is never taken over: not by an acquire that read it lapsed  *)
(* before its holder renewed it, nor by one that lands late.                *)
LiveLeaseKept ==
  [][Exists /\ LeaseLive(ref, lapsed) /\ ref' # Gone
       => ref'.holder \in {ref.holder, NoHolder}]_vars

(* A call is told its state committed only if it did, and told that it did  *)
(* not only if no head write of it has landed or still can.                 *)
VerdictsTrue ==
  /\ acked \subseteq committed
  /\ denied \cap committed = {}

(* The part of the history something names: the branch's own lineage up to  *)
(* its head, and what base pointers name.                                   *)
Referenced(o) ==
  \/ Exists /\ ref.lineage = o.lineage /\ o.txid <= ref.head
  \/ \E q \in pins : q.lineage = o.lineage /\ o.txid <= q.txid

(* A flush deletes or replaces an object only when it is confirmed         *)
(* unreferenced (the comment on flush's clean-up).                          *)
ReferencedIntact == \A o \in committed : Referenced(o) => Served(o)

(* The branch's lineage has its starting point in the store, and the ref    *)
(* reports it truly: a repoint that cleans up after a failed ref write      *)
(* never removes it from under the ref.                                     *)
RefReadable ==
  Exists => /\ ref.lineage \in born
            /\ ref.base = {[lineage |-> q.lineage, txid |-> q.txid] :
                             q \in {q \in pins : q.child = ref.lineage}}

-----------------------------------------------------------------------------
(* The branch keeps the promise of BranchHistory, its log being what the    *)
(* objects in the store resolve to at the committed txids.                  *)
History == INSTANCE BranchHistory WITH
  None <- Gone,
  log  <- {o \in objs : /\ \E p \in committed : SameState(o, p)
                        /\ \A p \in objs : SameState(o, p) /\ p # o => MoreLive(o, p)},
  tip  <- IF Exists THEN <<ref.lineage, ref.head>> ELSE Gone

KeepsHistory == History!Spec
=============================================================================
