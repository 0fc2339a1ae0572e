------------------------------ MODULE PageMan -------------------------------
(***************************************************************************)
(* The page cache that objects, requests and buffers are allocated from    *)
(* (common/util/memory.h, memory.cc).  A pageman keeps a chain of pages; a *)
(* page has room for PageSize items of the size of the first one, and a    *)
(* stack of the indexes of those that are free.  Pages are never given     *)
(* back.  Each call runs within the mutex of the pageman.                  *)
(*                                                                         *)
(* The callers of pmfree are delete expressions: they give back what they  *)
(* were given, once.                                                       *)
(***************************************************************************)
EXTENDS Integers, Sequences

CONSTANTS PageSize,       \* items in a page: 100 in the code
          ItemSizes,      \* the sizes of the classes that share the cache
          MaxPages        \* bound: pages

ASSUME PageAssumption == PageSize \in Nat \ {0} /\ MaxPages \in Nat

VARIABLES pages,          \* the chain: itemsize, and index[0 .. available - 1] as free
          held,           \* history: what the program holds, <<page, index, size>>
          gave            \* the answer of the last call: an item, or NULL

pageVars == <<pages, held, gave>>

NULL == <<0, 0, 0>>

PageInit == pages = << >> /\ held = {} /\ gave = NULL

\* The first page that has a free item.
Roomy(k) == /\ k \in 1 .. Len(pages) /\ pages[k].free # << >>
            /\ \A j \in 1 .. k - 1 : pages[j].free = << >>
Full     == \A k \in 1 .. Len(pages) : pages[k].free = << >>

\* Faulty: the index stays on the stack.
Unpopped(s) == s

Popped(s) == SubSeq(s, 1, Len(s) - 1)

\* pagehead::pagehead: every item is free.
AllFree == [n \in 1 .. PageSize |-> n - 1]

\* pagehead::alloc.  Another size than that of the page is refused, although
\* pages of that size may follow.
Alloc(k, size) ==
  /\ Roomy(k)
  /\ IF size # pages[k].itemsize THEN gave' = NULL /\ UNCHANGED <<pages, held>>
     ELSE LET item == <<k, pages[k].free[Len(pages[k].free)], size>> IN
          /\ pages' = [pages EXCEPT ![k].free = Popped(@)]
          /\ held' = held \cup {item} /\ gave' = item

\* pmalloc, when no page has a free item: a new one, or no memory.
Extend(size) ==
  /\ Full
  /\ \/ /\ Len(pages) < MaxPages
        /\ LET item == <<Len(pages) + 1, AllFree[PageSize], size>> IN
           /\ pages' = Append(pages, [itemsize |-> size, free |-> Popped(AllFree)])
           /\ held' = held \cup {item} /\ gave' = item
     \/ gave' = NULL /\ UNCHANGED <<pages, held>>

\* pmfree
Pmfree(item) ==
  /\ item \in held
  /\ pages' = [pages EXCEPT ![item[1]].free = Append(@, item[2])]
  /\ held' = held \ {item}
  /\ UNCHANGED gave

PageNext == \/ \E size \in ItemSizes : Extend(size) \/ \E k \in 1 .. Len(pages) : Alloc(k, size)
            \/ \E item \in held : Pmfree(item)

PageSpec == PageInit /\ [][PageNext]_pageVars

----------------------------------------------------------------------------
Indexes == 0 .. PageSize - 1

\* The indexes of a page that the program holds.
Out(k) == {n \in Indexes : \E item \in held : item[1] = k /\ item[2] = n}

\* An item is free or held by one owner, never both, after any sequence of
\* allocations and releases: the stack of a page names each free item once.
\* And whoever holds an item asked for the size it has.
PageOwned ==
  /\ \A k \in 1 .. Len(pages) :
       LET free == pages[k].free IN
       /\ \A n \in 1 .. Len(free) : free[n] \in Indexes \ Out(k)
       /\ \A m, n \in 1 .. Len(free) : free[m] = free[n] => m = n
       /\ \A n \in Indexes \ Out(k) : \E m \in 1 .. Len(free) : free[m] = n
  /\ \A item \in held : /\ item[1] \in 1 .. Len(pages) /\ item[2] \in Indexes
                        /\ item[3] = pages[item[1]].itemsize
  /\ \A a, b \in held : a[1] = b[1] /\ a[2] = b[2] => a = b
=============================================================================
