------------------------------ MODULE RamPage ------------------------------
(***************************************************************************)
(* One page of a list held in memory (RamPageUtil and Pagination), for the *)
(* list requests of the console.  A list is the set of its elements, which *)
(* are numbered in the order of the list; pages are numbered from 1.       *)
(***************************************************************************)
EXTENDS Integers, FiniteSets

(* The index of an element in the list, from 0.                            *)
IndexOf(ids, i) == Cardinality({j \in ids : j < i})

(* subList(from, to): empty for a page beyond the last one.                *)
OnPage(ids, pageNo, pageSize) ==
    {i \in ids : IndexOf(ids, i) \div pageSize = pageNo - 1}

(* An empty list has no page: page() returns before buildTotalPage().      *)
TotalPage(ids, pageSize) == (Cardinality(ids) + pageSize - 1) \div pageSize
============================================================================
