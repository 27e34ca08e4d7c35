------------------------------ MODULE MCProcess ------------------------------
(* Requests for pages, and the sizes of the records of a MADT with four     *)
(* entries and of one I/O APIC.                                             *)
EXTENDS Process

Boot == <<9, 3>>

Small == [code |-> 1, mapping |-> 1, stack |-> 1]
Large == [code |-> 2, mapping |-> 1, stack |-> 3]
Infos == {Small, Large}
OneInfo == {Large}
=============================================================================
