------------------------------ MODULE PagedKv ------------------------------
(***************************************************************************)
(* The paged KV cache with prefix sharing (rlx-runtime, paged_kv.rs):      *)
(* KvPagePool, KvBlockTable and KvPrefixCache, under sequences that are    *)
(* prefilled, decoded and released in any order.                           *)
(*                                                                         *)
(* A row of a page is named by what it was computed from: the token and    *)
(* all tokens before it.  A trie node is named by its path, the tokens     *)
(* from the root, so the trie maps paths to pages; the slots the code      *)
(* keeps nodes in are left out.  Only the order of last_use matters: it is *)
(* kept as ranks.                                                          *)
(*                                                                         *)
(* The caller is not part of the module: it is modelled from the order     *)
(* its tests call in, and it copies a PageCopy when that type's comment    *)
(* asks for it: some time before it writes to the copy's tail.             *)
(***************************************************************************)
EXTENDS Integers, Sequences, FiniteSetsExt

CONSTANTS Pages,     \* the pool's page ids
          Tpp,       \* tokens_per_page
          Seqs,      \* the sequences
          Prompts,   \* the prompts they may start with
          Tokens,    \* what decoding may sample
          MaxLen     \* bound: tokens of a sequence

ASSUME PoolAssumption ==
    /\ Pages \subseteq Nat /\ IsFiniteSet(Pages) /\ IsFiniteSet(Seqs)
    /\ Tpp \in Nat \ {0} /\ MaxLen \in Nat
    /\ Tokens \subseteq Nat
    /\ \A t \in Prompts : t \in Seq(Nat) /\ t # <<>>

VARIABLES refs,   \* KvPagePool.refs; a page with none is on the free list
          rows,   \* what is in the page's slots
          trie,   \* KvPrefixCache.nodes: path -> page
          use,    \* their last_use: path -> rank
          toks,   \* the tokens of each sequence
          table,  \* its KvBlockTable
          held,   \* how many of its tokens have their rows in the table
          plan    \* the PageCopy it has still to make

pool  == <<refs, rows>>
cache == <<trie, use>>
seqs  == <<toks, table, held, plan>>
vars  == <<pool, cache, seqs>>

Prefix(s, n) == SubSeq(s, 1, n)

\* The row of a slot copied from a page that its owners had let go of: it may be
\* anything.
Unknown == <<>>

NoPlan == [path |-> <<>>, src |-> 0, tokens |-> 0]

Init ==
    /\ refs = [p \in Pages |-> 0]
    /\ rows = [p \in Pages |-> <<>>]
    /\ trie = <<>> /\ use = <<>>
    /\ toks = [s \in Seqs |-> <<>>]
    /\ table = [s \in Seqs |-> <<>>]
    /\ held = [s \in Seqs |-> 0]
    /\ plan = [s \in Seqs |-> NoPlan]

-----------------------------------------------------------------------------
(***************************************************************************)
(* KvPagePool.  alloc takes the smallest free id.                          *)
(***************************************************************************)
Free == {p \in Pages : refs[p] = 0}

\* How often a table, or the trie, holds a page.
Times(p, s) == Cardinality({i \in DOMAIN s : s[i] = p})

\* Mutant: a page in two tables is freed by the first that lets go.
DroppedAll(r, s) == [p \in Pages |-> IF Times(p, s) > 0 THEN 0 ELSE r[p]]

\* free, for every page of s.
Dropped(r, s) == [p \in Pages |-> r[p] - Times(p, s)]

\* retain, for every page of s.
Retained(r, s) == [p \in Pages |-> r[p] + Times(p, s)]

\* Rows of a page nobody owns are nobody's.
RowsLeft(r) == [p \in Pages |-> IF r[p] = 0 THEN <<>> ELSE rows[p]]

(***************************************************************************)
(* KvPrefixCache                                                           *)
(***************************************************************************)
\* The paths with last_use set to now, renumbered.
Touched(u, paths) ==
    LET all == DOMAIN u \cup paths
        raw == [q \in all |-> IF q \in paths THEN Cardinality(all) ELSE u[q]]
    IN  [q \in all |-> Cardinality({raw[o] : o \in {o \in all : raw[o] < raw[q]}})]

Without(f, q) == [o \in DOMAIN f \ {q} |-> f[o]]

Children(q) ==
    {o \in DOMAIN trie : Len(o) = Len(q) + Tpp /\ Prefix(o, Len(q)) = q}

\* The paths of the full pages of a prompt, n tokens of it.
PathsTo(t, n) == {Prefix(t, k * Tpp) : k \in 1..(n \div Tpp)}

\* At least one token is left to compute.
Limit(t) == Len(t) - 1

\* How far the walk from the root gets, in tokens.
Walk(t) ==
    Tpp * Max({k \in 0..(Limit(t) \div Tpp) : PathsTo(t, k * Tpp) \subseteq DOMAIN trie})

\* How many tokens of t's rest the chunk of a child of the walk's end shares.
Run(t, c) ==
    Max({r \in 0..Tpp : Walk(t) + r =< Limit(t) /\ Prefix(c, Walk(t) + r) = Prefix(t, Walk(t) + r)})

\* The pages of the walk.
Matched(t) == [k \in 1..(Walk(t) \div Tpp) |-> trie[Prefix(t, k * Tpp)]]

\* match_prefix and what its caller does at once: push the pages, the copy's last.
MatchWhole(s, t) ==
    /\ table' = [table EXCEPT ![s] = Matched(t)]
    /\ refs' = Retained(refs, Matched(t))
    /\ use' = Touched(use, PathsTo(t, Walk(t)))
    /\ UNCHANGED plan

\* The page to copy from gains no owner.
MatchCopy(s, t, c) ==
    /\ table' = [table EXCEPT ![s] = Append(Matched(t), Min(Free))]
    /\ refs' = [Retained(refs, Matched(t)) EXCEPT ![Min(Free)] = 1]
    /\ use' = Touched(use, PathsTo(t, Walk(t)) \cup {c})
    /\ plan' = [plan EXCEPT ![s] = [path |-> c, src |-> trie[c], tokens |-> Run(t, c)]]

MatchPrefix(s, t) ==
    LET kin  == Children(Prefix(t, Walk(t)))
        best == {c \in kin : Run(t, c) > 0 /\ \A o \in kin : Run(t, o) =< Run(t, c)}
    IN  /\ toks[s] = <<>>
        /\ toks' = [toks EXCEPT ![s] = t]
        /\ held' = [held EXCEPT ![s] = Walk(t)]
        /\ IF best = {} \/ Free = {}
           THEN MatchWhole(s, t)
           ELSE \E c \in best : MatchCopy(s, t, c)
        /\ UNCHANGED <<rows, trie>>

\* The full pages of the sequence whose path has no node yet.
NewPaths(s) == PathsTo(toks[s], Len(toks[s])) \ DOMAIN trie

\* Mutant: a new node does not own its page.
InsertedUnowned(s) == <<>>

\* The pages that gain the cache as an owner.
Inserted(s) == [i \in {Len(q) \div Tpp : q \in NewPaths(s)} |-> table[s][i]]

Insert(s) ==
    /\ toks[s] # <<>> /\ held[s] = Len(toks[s])
    /\ trie' = [q \in DOMAIN trie \cup NewPaths(s) |->
                  IF q \in DOMAIN trie THEN trie[q] ELSE table[s][Len(q) \div Tpp]]
    /\ use' = Touched(use, PathsTo(toks[s], Len(toks[s])))
    /\ refs' = Retained(refs, Inserted(s))
    /\ UNCHANGED <<rows, seqs>>

\* Mutant: the cache's own reference keeps a page.
EvictableUnowned == {q \in DOMAIN trie : Children(q) = {} /\ refs[trie[q]] = 0}

\* The leaves whose page has no other owner.
Evictable == {q \in DOMAIN trie : Children(q) = {} /\ refs[trie[q]] = 1}

\* The least recently used of them.
Victim == CHOOSE q \in Evictable : \A o \in Evictable : use[q] =< use[o]

\* evict, one page at a time.
Evict ==
    /\ Evictable # {}
    /\ refs' = [refs EXCEPT ![trie[Victim]] = 0]
    /\ rows' = [rows EXCEPT ![trie[Victim]] = <<>>]
    /\ trie' = Without(trie, Victim)
    /\ use' = Touched(Without(use, Victim), {})
    /\ UNCHANGED seqs

-----------------------------------------------------------------------------
(***************************************************************************)
(* The caller.                                                             *)
(***************************************************************************)
NeedsPage(s) == Tpp * Len(table[s]) < Len(toks[s])

\* KvPrefixCache::alloc, from the pool or after an eviction, and push_page.
AllocPage(s) ==
    /\ NeedsPage(s)
    /\ \/ /\ Free # {}
          /\ refs' = [refs EXCEPT ![Min(Free)] = 1]
          /\ table' = [table EXCEPT ![s] = Append(@, Min(Free))]
          /\ UNCHANGED <<rows, cache>>
       \/ /\ Free = {} /\ Evictable # {}
          /\ rows' = [rows EXCEPT ![trie[Victim]] = <<>>]
          /\ table' = [table EXCEPT ![s] = Append(@, trie[Victim])]
          /\ trie' = Without(trie, Victim)
          /\ use' = Touched(Without(use, Victim), {})
          /\ UNCHANGED refs
    /\ UNCHANGED <<toks, held, plan>>

\* The page a copy goes to: the one after the pages matched whole.
Dst(s) == table[s][held[s] \div Tpp + 1]

\* What the copy's source holds now: its rows, while the cache has the page under the
\* path it was matched by.
Copied(c) ==
    IF c.path \in DOMAIN trie /\ trie[c.path] = c.src
    THEN Prefix(rows[c.src], c.tokens)
    ELSE [j \in 1..c.tokens |-> Unknown]

\* The caller makes its PageCopy.
CopyPage(s) ==
    /\ plan[s] # NoPlan
    /\ rows' = [rows EXCEPT ![Dst(s)] = Copied(plan[s])]
    /\ held' = [held EXCEPT ![s] = @ + plan[s].tokens]
    /\ plan' = [plan EXCEPT ![s] = NoPlan]
    /\ UNCHANGED <<refs, cache, toks, table>>

\* The rows page i of s gets when its tokens from held[s] on are computed.
Computed(s, i) ==
    [j \in 1..Min({Tpp, Len(toks[s]) - Tpp * (i - 1)}) |->
        LET t == Tpp * (i - 1) + j
        IN  IF t =< held[s] THEN rows[table[s][i]][j] ELSE Prefix(toks[s], t)]

\* The forward pass over the tokens that have no rows yet, after the copy.
Forward(s) ==
    /\ held[s] < Len(toks[s]) /\ ~NeedsPage(s) /\ plan[s] = NoPlan
    /\ rows' = [p \in Pages |->
          IF \E i \in DOMAIN table[s] : i > held[s] \div Tpp /\ table[s][i] = p
          THEN Computed(s, CHOOSE i \in DOMAIN table[s] : table[s][i] = p)
          ELSE rows[p]]
    /\ held' = [held EXCEPT ![s] = Len(toks[s])]
    /\ UNCHANGED <<refs, cache, toks, table, plan>>

\* Decode: one more token to compute.
Sample(s, t) ==
    /\ toks[s] # <<>> /\ held[s] = Len(toks[s]) /\ Len(toks[s]) < MaxLen
    /\ toks' = [toks EXCEPT ![s] = Append(@, t)]
    /\ UNCHANGED <<pool, cache, table, held, plan>>

\* KvBlockTable::release: the sequence ended, or gave up for want of a page.
Release(s) ==
    /\ toks[s] # <<>>
    /\ refs' = Dropped(refs, table[s])
    /\ rows' = RowsLeft(refs')
    /\ toks' = [toks EXCEPT ![s] = <<>>]
    /\ table' = [table EXCEPT ![s] = <<>>]
    /\ held' = [held EXCEPT ![s] = 0]
    /\ plan' = [plan EXCEPT ![s] = NoPlan]
    /\ UNCHANGED cache

Next ==
    \/ \E s \in Seqs : \/ \E t \in Prompts : MatchPrefix(s, t)
                       \/ \E t \in Tokens : Sample(s, t)
                       \/ AllocPage(s) \/ CopyPage(s) \/ Forward(s)
                       \/ Insert(s) \/ Release(s)
    \/ Evict

Spec == Init /\ [][Next]_vars

-----------------------------------------------------------------------------
\* The places of the tables in which a page is.
Slots(tables, p) ==
    UNION {{<<s, i>> : i \in {i \in DOMAIN tables[s] : tables[s][i] = p}} : s \in Seqs}

\* Every page has exactly the owners its count says: its places in the tables and the
\* nodes that index it.  A count too low frees a page that is in use; one too high leaks it.
RefsExact ==
    \A p \in Pages :
        refs[p] = Cardinality(Slots(table, p)) + Times(p, trie)

\* Attention reads what the sequence computed or would have computed: the row of every
\* token a sequence holds, shared, copied or its own, comes from exactly the tokens
\* before it, whatever was evicted, reused or written since.  Excepted are the rows of a
\* PageCopy made after the cache gave its source up, which match_prefix does not retain,
\* and rows shared or copied from those.
RowsRight ==
    \A s \in Seqs : \A t \in 1..held[s] :
        LET p == table[s][((t - 1) \div Tpp) + 1]
            j == ((t - 1) % Tpp) + 1
        IN  j \in DOMAIN rows[p] /\ rows[p][j] \in {Prefix(toks[s], t), Unknown}

\* A sequence is refused a page only for pages in use: when the pool is dry and nothing
\* can be evicted, every page is in some table or is the cached ancestor of one that is.
DryMeansPinned ==
    Free = {} /\ Evictable = {} =>
        \A p \in Pages : \E s \in Seqs : \E i \in DOMAIN table[s] :
            \/ table[s][i] = p
            \/ \E q, o \in DOMAIN trie : /\ trie[q] = p /\ trie[o] = table[s][i]
                                         /\ q \in PathsTo(o, Len(o))

=============================================================================
