------------------------- MODULE CompositionStorage -------------------------
(* The durable half of a node's composition store (kiseki-composition,       *)
(* persistent/fjall.rs) and the staging of the hydrator (hydrator.rs), as    *)
(* operators on a record s with the keyspaces                                *)
(*   comps      id   -> the row: its content type has been set               *)
(*   names      name -> id            rev   id -> name                       *)
(*   seqs       name -> perspective seq of the bind (absent: a sync bind)    *)
(*   last       last_applied_seq      stuck (delta, retries)   halted        *)
(* A delta is [at, op, id, name, pseq]; pseq 0 is None and name NoName is    *)
(* None.  Update deltas have no emitter besides the gRPC log service, and    *)
(* MigrateChunkLocations only flips chunk locations: neither is modelled.    *)
EXTENDS Naturals, Sequences, FiniteSetsExt

CONSTANTS NoName,    \* a nameless composition (NFS, FUSE)
          Retries    \* KISEKI_HYDRATOR_TRANSIENT_RETRIES

Empty == [x \in {} |-> {}]
Bind(f, x, v) == [y \in DOMAIN f \cup {x} |-> IF y = x THEN v ELSE f[y]]
Drop(f, S) == [x \in DOMAIN f \ S |-> f[x]]

\* g over f: the puts of a batch over the rows.
Over(g, f) == [x \in DOMAIN g \cup DOMAIN f |-> IF x \in DOMAIN g THEN g[x] ELSE f[x]]

\* The value of f at x as a set: the Option the code matches on.
At(f, x) == {f[y] : y \in DOMAIN f \cap {x}}

NoStuck == [at |-> 0, n |-> 0]
EmptyStorage == [comps |-> Empty, names |-> Empty, rev |-> Empty, seqs |-> Empty,
                 last |-> 0, stuck |-> NoStuck, halted |-> FALSE]

\* Sync binds (0) always win; otherwise last writer by perspective seq.
lww_accepts_bind(stored, incoming) ==
  incoming = 0 \/ \A s \in stored : incoming >= s

put(s, x, row) == [s EXCEPT !.comps = Bind(s.comps, x, row)]

\* The row and, by the reverse index, its name binding.
remove(s, x) ==
  [s EXCEPT !.comps = Drop(s.comps, {x}), !.names = Drop(s.names, At(s.rev, x)),
            !.rev = Drop(s.rev, {x}), !.seqs = Drop(s.seqs, At(s.rev, x))]

\* A write-through create: unbinds the previous owner, clears the seq stamp.
put_with_name(s, x, k) ==
  [s EXCEPT !.comps = Bind(s.comps, x, FALSE), !.names = Bind(s.names, k, x),
            !.rev = Bind(Drop(s.rev, At(s.names, k)), x, k), !.seqs = Drop(s.seqs, {k})]

-----------------------------------------------------------------------------
(* The write batch of a poll.  Every read is of the state s before the batch, *)
(* and of several writes to one key the last one counts.                      *)

\* A keyspace f after the writes i of I, in order: the keys cut[i] are removed,
\* then key[i] is set to val[i].
Written(f, I, key, val, cut) ==
  LET W(k) == {i \in I : key[i] = k \/ k \in cut[i]}
  IN  [k \in {j \in DOMAIN f : W(j) = {}}
             \cup {j \in {key[i] : i \in I} : key[Max(W(j))] = j}
         |-> IF W(k) = {} THEN f[k] ELSE val[Max(W(k))]]

\* The binds that pass the guard: each takes its name from the owner it had and
\* gives up the other name its composition had.  A sync bind clears the stamp.
InsertNames(s, w, ins) ==
  LET I == {i \in DOMAIN ins : lww_accepts_bind(At(s.seqs, ins[i].name), ins[i].pseq)}
      bound == [i \in I |-> ins[i].name]
      owner == [i \in I |-> ins[i].id]
      stamp == [i \in I |-> ins[i].pseq]
      old == [i \in I |-> At(s.rev, ins[i].id) \ {ins[i].name}]
      prev == [i \in I |-> At(s.names, ins[i].name) \ {ins[i].id}]
      seqs == Written(w.seqs, I, bound, stamp, old)
  IN  [w EXCEPT !.names = Written(w.names, I, bound, owner, old),
                !.rev = Written(w.rev, I, owner, bound, prev),
                !.seqs = Drop(seqs, {k \in DOMAIN seqs : seqs[k] = 0})]

\* The name removes (all of sync deletes, so never refused).
RemoveNames(s, w, K) ==
  [w EXCEPT !.names = Drop(w.names, K), !.seqs = Drop(w.seqs, K),
            !.rev = Drop(w.rev, UNION {At(s.names, k) : k \in K})]

\* Puts, removes with their name cascade, name inserts, name removes and the
\* position, in this order and in one atomic, synced batch.
apply_hydration_batch(s, b) ==
  LET gone == UNION {At(s.rev, x) : x \in b.removes}
      rows == [s EXCEPT !.comps = Drop(Over(b.puts, s.comps), b.removes),
                        !.names = Drop(s.names, gone),
                        !.rev = Drop(s.rev, b.removes), !.seqs = Drop(s.seqs, gone),
                        !.last = b.last, !.stuck = b.stuck]
  IN  RemoveNames(s, InsertNames(s, rows, b.inserts), b.unbinds)

-----------------------------------------------------------------------------
(* Staging: what one poll has staged so far.  ns: a namespace was staged;     *)
(* stop: a transient skip ends the poll; skipped: given up after Retries.     *)
EmptyStaging(s) ==
  [puts |-> Empty, removes |-> {}, inserts |-> <<>>, unbinds |-> {}, ns |-> FALSE,
   last |-> s.last, stuck |-> NoStuck, stop |-> FALSE, skipped |-> {}]

view(s, g, x) == x \notin g.removes /\ x \in DOMAIN g.puts \cup DOMAIN s.comps

\* Mutant: a put does not cancel the remove staged before it.
Mut_StagePut(g, x) == [g EXCEPT !.puts = Bind(g.puts, x, FALSE)]

StagePut(g, x) == [g EXCEPT !.puts = Bind(g.puts, x, FALSE), !.removes = g.removes \ {x}]
StageRemove(g, x) == [g EXCEPT !.puts = Drop(g.puts, {x}), !.removes = g.removes \cup {x}]

\* An already visible composition is only re-bound to its name.
StageBind(g, d) ==
  IF d.name = NoName THEN g
  ELSE [g EXCEPT !.inserts = Append(g.inserts, [name |-> d.name, id |-> d.id, pseq |-> d.pseq])]

stage_create(s, g, d) == StageBind(IF view(s, g, d.id) THEN g ELSE StagePut(g, d.id), d)

\* Mutant: a row that is only staged is taken for absent.
Mut_stage_delete(s, g, d) ==
  IF d.id \in DOMAIN s.comps
  THEN StageRemove([g EXCEPT !.unbinds = g.unbinds \cup At(s.rev, d.id)], d.id)
  ELSE g

\* The name is looked up in the durable index only.
stage_delete(s, g, d) ==
  StageRemove([g EXCEPT !.unbinds = g.unbinds \cup At(s.rev, d.id)], d.id)

Advance(g, d) == [g EXCEPT !.last = d.at]

\* Mutant: one retry too many.
Mut_TransientSkip(s, g, d) ==
  LET n == (IF s.stuck.at = d.at THEN s.stuck.n ELSE 0) + 1 IN
  IF n > Retries THEN [Advance(g, d) EXCEPT !.skipped = g.skipped \cup {d.id}]
  ELSE [g EXCEPT !.stuck = [at |-> d.at, n |-> n], !.stop = TRUE]

\* Mutant: the retry counter is not part of the batch.
MutB_TransientSkip(s, g, d) == [g EXCEPT !.stop = TRUE]

\* A delta that cannot be applied yet: retried from the durable counter, and
\* given up for good at the threshold.
TransientSkip(s, g, d) ==
  LET n == (IF s.stuck.at = d.at THEN s.stuck.n ELSE 0) + 1 IN
  IF n >= Retries THEN [Advance(g, d) EXCEPT !.skipped = g.skipped \cup {d.id}]
  ELSE [g EXCEPT !.stuck = [at |-> d.at, n |-> n], !.stop = TRUE]

\* One delta of the poll; registered: the namespace is known on this node.
StageDelta(s, registered, g, d) ==
  CASE d.op = "ns" -> [Advance(g, d) EXCEPT !.ns = TRUE]
    [] d.op = "delete" -> Advance(stage_delete(s, g, d), d)
    [] d.op = "create" /\ (view(s, g, d.id) \/ registered \/ g.ns) ->
         Advance(stage_create(s, g, d), d)
    [] OTHER -> TransientSkip(s, g, d)
=============================================================================
