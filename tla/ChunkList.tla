----------------------------- MODULE ChunkList ------------------------------
(***************************************************************************)
(* List<Item> (dynlist/include/list.hpp): a chain of pages, each with a    *)
(* count and room for ItemsPerPage items.  A list is the sequence of its   *)
(* pages.  A removal closes the gap inside its page and never frees a      *)
(* page, an insertion goes to the first page that has room.                *)
(***************************************************************************)
EXTENDS Naturals, Sequences, SequencesExt

CONSTANT ItemsPerPage

ASSUME ChunkListAssumption == ItemsPerPage \in Nat \ {0}

EmptyList == <<>>

(* getCount()                                                              *)
GetCount(list) == FoldLeft(LAMBDA n, p : n + Len(p.items), 0, list)

(* The page that holds item index, counted from 0.                         *)
PageOf(list, index) ==
  Min({i \in DOMAIN list : index < GetCount(SubSeq(list, 1, i))})

\* The position in that page.
InPage(list, index) == index - GetCount(SubSeq(list, 1, PageOf(list, index) - 1)) + 1

(* operator[]                                                              *)
ItemAt(list, index) == list[PageOf(list, index)].items[InPage(list, index)]

(* insert() needs a page: there is none with room.                         *)
IsFull(list) == \A i \in DOMAIN list : Len(list[i].items) = ItemsPerPage

(* insert(); page is the one it allocates if the list is full.             *)
InsertItem(list, item, page) ==
  IF IsFull(list) THEN Append(list, [page |-> page, items |-> <<item>>])
  ELSE LET i == Min({j \in DOMAIN list : Len(list[j].items) < ItemsPerPage})
       IN  [list EXCEPT ![i].items = Append(@, item)]

\* A mistake: the gap is not closed.
RemoveIndexOpen(list, index) ==
  IF index >= GetCount(list) THEN list
  ELSE [list EXCEPT ![PageOf(list, index)].items = Front(@)]

(* remove()                                                                *)
RemoveIndex(list, index) ==
  IF index >= GetCount(list) THEN list
  ELSE [list EXCEPT ![PageOf(list, index)].items = RemoveAt(@, InPage(list, index))]

(* The items in the order of their indices, and the pages of the list.     *)
Items(list) == FlattenSeq([i \in DOMAIN list |-> list[i].items])
ListPages(list) == [i \in DOMAIN list |-> list[i].page]
=============================================================================
