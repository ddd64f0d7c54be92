--------------------------- MODULE HcfFailProofs ---------------------------
(***************************************************************************)
(* A work item that dies for want of memory takes nothing from lookups: the *)
(* specification with failing allocations implements the one without, whose *)
(* safety properties it therefore has.                                     *)
(***************************************************************************)
EXTENDS HcfFail, HcfTreeOwners

\* Every step with failing allocations is a step without, or changes nothing
\* that HcfTree has.
LEMMA FailStep == [FailNext]_failVars => [Next]_vars
<1>1. ASSUME NEW t \in Task, work_no_memory(t) PROVE UNCHANGED vars
  BY <1>1 DEF work_no_memory
<1>2. ASSUME FailNext, \A t \in Task : ~work_no_memory(t) PROVE Next
  BY <1>2 DEF FailNext, Next
<1>3. CASE UNCHANGED failVars
  BY <1>3 DEF failVars
<1>. QED
  BY <1>1, <1>2, <1>3 DEF FailNext

\* hcf.c without its tests for failed allocations is still, until the mutex is
\* lost, the program that HcfTree describes.
THEOREM FailImplements == FailSpec => Spec
<1>1. FailInit => Init
  BY DEF FailInit
<1>. QED
  BY <1>1, FailStep, PTL DEF FailSpec, Spec

\* Lookups are never at freed or reused memory, whatever allocation of a work
\* item failed (hcf.c:139, 151, 162).
THEOREM FailLookupsAreSafe == FailSpec => []ReaderSafe
  BY FailImplements, LookupsAreSafe, PTL

\* No step changes what readers may be at, failed allocations included.
THEOREM FailNoWritesToPublished == FailSpec => PublishedImmutable
  BY FailImplements, NoWritesToPublished, PTL

\* A work item that dies half way through its clone leaves no node with two
\* owners: nobody frees what it held, and what it had cloned from stays in the
\* trie.
THEOREM FailNodesHaveOneOwner == FailSpec => []OneOwner
  BY FailImplements, NodesHaveOneOwner, PTL

\* It still holds what it had cloned and would have freed: memory is lost with
\* the work item, none apart from it.
THEOREM FailNothingLeaks == FailSpec => []NoLeak
  BY FailImplements, NothingLeaks, PTL

=============================================================================
