------------------------------- MODULE ListPage -------------------------------
(***************************************************************************)
(* What the two list pages of the web application (Workflows.tsx and       *)
(* State.tsx) share: the list of state stores and its dropdown, the cache  *)
(* of list answers the pages read through TanStack Query, and the pages of *)
(* keys the server hands out.  A query is a record q: "cache" holds the    *)
(* last answer of every key asked for, "last" the key whose answer was     *)
(* last on screen, "fetching" whether an answer for the current key is     *)
(* awaited.  A superseded fetch is dropped: only the current key's answer  *)
(* lands.                                                                  *)
(***************************************************************************)
EXTENDS Naturals, Sequences, FiniteSets, SequencesExt

CONSTANTS None,       \* no value: null and undefined in the code
          KeyOrder,   \* every record key, in the order of the server's cursor
          PageSize,   \* keys in a page of the server's scan
          Identity    \* [store id -> what dedupeStores compares]

ASSUME ListPageAssumption ==
  /\ PageSize \in Nat \ {0}
  /\ IsInjective(KeyOrder)

Keys == Range(KeyOrder)

-----------------------------------------------------------------------------
(* The store list: its ids in order, and the one marked active (or None). *)

activeStore(list) == IF list.active # None THEN list.active ELSE list.ids[1]

(* One id per identity: the active one, else the first. *)
dedupeStores(list) ==
  LET twins(s) == SelectSeq(list.ids, LAMBDA t : Identity[t] = Identity[s])
      shown(s) == IF list.active \in Range(twins(s)) THEN list.active ELSE twins(s)[1]
  IN  {shown(s) : s \in Range(list.ids)}

(* The store a page settles on when its store list changes: the present one *)
(* while it is offered, else the one remembered, else the active one.       *)
resolveStore(store, list, remembered) ==
  LET offered == dedupeStores(list) IN
  IF offered = {} \/ store \in offered THEN store
  ELSE IF remembered \in offered THEN remembered
  ELSE activeStore(list)

-----------------------------------------------------------------------------
(* The query cache. *)

Nothing == [has |-> FALSE, error |-> FALSE, rows |-> <<>>, next |-> None]

NoQuery == [cache |-> <<>>, last |-> None, fetching |-> FALSE]

entry(q, k) == IF k \in DOMAIN q.cache THEN q.cache[k] ELSE Nothing

put(q, k, answer) == [x \in DOMAIN q.cache \cup {k} |-> IF x = k THEN answer ELSE q.cache[x]]

(* A fetch of key k begins; a failure without data is forgotten.  The query *)
(* is disabled until a store is chosen.                                     *)
startFetch(q, k) ==
  IF k.store = None THEN [q EXCEPT !.fetching = FALSE]
  ELSE [q EXCEPT !.fetching = TRUE,
                 !.last = IF entry(q, k).has THEN k ELSE @,
                 !.cache = [x \in {y \in DOMAIN @ : y # k \/ @[y].has} |-> @[x]]]

(* The page asks for k1 instead of k0. *)
observe(q, k0, k1) == IF k0 = k1 THEN q ELSE startFetch(q, k1)

(* The answer for k: a page of rows. *)
land(q, k, page) ==
  [cache |-> put(q, k, [has |-> TRUE, error |-> FALSE, rows |-> page.rows, next |-> page.next]),
   last |-> k, fetching |-> FALSE]

(* No answer for k: data it had is kept beside the error. *)
fail(q, k) ==
  [q EXCEPT !.cache = put(q, k, [entry(q, k) EXCEPT !.error = TRUE]), !.fetching = FALSE]

-----------------------------------------------------------------------------
(* The server scans its keys page by page from a cursor, at least one page *)
(* and, when a filter can reject keys, until enough of them passed.        *)
KeysFrom(there, token) ==
  SelectSeq(SubSeq(KeyOrder, (IF token = None THEN 0 ELSE token) + 1, Len(KeyOrder)),
            LAMBDA k : k \in there)

ServerPage(there, hits, token) ==
  LET keys  == KeysFrom(there, token)
      Upto(n) == SubSeq(keys, 1, IF n > Len(keys) THEN Len(keys) ELSE n)
      Found(n) == SelectSeq(Upto(n), LAMBDA k : k \in hits)
      Enough(i) == \/ there \subseteq hits
                   \/ Len(Found(i * PageSize)) >= PageSize
                   \/ i * PageSize >= Len(keys)
      n == PageSize * (CHOOSE i \in 1..(Len(KeyOrder) + 1) :
                         Enough(i) /\ \A j \in 1..(i - 1) : ~Enough(j))
  IN  [rows |-> Found(n),
       next |-> IF n < Len(keys)
                THEN CHOOSE p \in DOMAIN KeyOrder : KeyOrder[p] = keys[n]
                ELSE None]
=============================================================================
