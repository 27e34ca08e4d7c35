------------------------------ MODULE MCPaging ------------------------------
(* Memory maps with and without a region at address 0, with a gap between   *)
(* regions that is or is not aligned, with too little memory for the heap,  *)
(* and (High) with memory at 2 GiB.                                         *)
EXTENDS Paging

Low == {<<>>, << <<0, 1>> >>}
Middle == {<< <<2, n>> >> : n \in {7, 9, 12, 20, 23}}
Last == {<<>>} \cup {<< <<n, e>> >> : n \in {25, 27}, e \in {38, 45}}
Maps == {a \o b \o c : a \in Low, b \in Middle, c \in Last}
High == {<< <<0, 1>>, <<2, 28>>, <<50, 55>> >>}

Kernel == 2..3
\* Registers, and an ACPI table in the last large page of a region.
Devices == {<<>>, <<60>>, <<24, 60, 66, 60>>}
OneDevice == {<<60>>}
=============================================================================
