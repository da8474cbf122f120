------------------------------- MODULE MCCodegen -------------------------------
(***************************************************************************)
(* Instances of CodegenCoordinator for TLC.  Two codegen units of          *)
(* different cost and the allocator shim are the least with which the      *)
(* queue holds several items, the implicit token is lent while another     *)
(* worker runs on a token, and a unit is translated meanwhile.             *)
(***************************************************************************)
EXTENDS CodegenCoordinator

CONSTANTS c1, c2, c3, alloc, up

TwoCgus  == {c1, c2}
ThreeCgus == {c1, c2, c3}
OneUpstream == {up}

\* The first unit is the expensive one, the shim is free.
UnitCost == [m \in SUBSET (Cgus \cup {alloc} \cup Upstream) |->
               IF m = {alloc} THEN 0 ELSE IF m = {c1} THEN 2 ELSE 1]

Base == [lto |-> "No", rlib |-> FALSE, linkerLto |-> FALSE, combine |-> FALSE,
         noParallel |-> FALSE, allocator |-> TRUE, cgus |-> {c1, c2},
         upstream |-> {up}]

\* The LTO modes, fat LTO without an upstream module (whose cache can be of
\* use), the serial backend, linking into one module, an rlib (which puts LTO
\* off), LTO left to the linker, a session without code, and three units, of
\* which the queue can hold two while two workers run.
SafetyConfigs ==
  {[Base EXCEPT !.lto = l] : l \in {"No", "ThinLocal", "Thin", "Fat"}}
    \cup {[Base EXCEPT !.lto = "Fat", !.upstream = {}, !.allocator = FALSE],
          [Base EXCEPT !.noParallel = TRUE, !.lto = "ThinLocal"],
          [Base EXCEPT !.combine = TRUE],
          [Base EXCEPT !.cgus = {c1}, !.rlib = TRUE, !.lto = "Fat"],
          [Base EXCEPT !.cgus = {c1}, !.allocator = FALSE, !.lto = "Fat",
                       !.linkerLto = TRUE],
          [Base EXCEPT !.cgus = {}, !.allocator = FALSE],
          [Base EXCEPT !.cgus = {c1, c2, c3}, !.allocator = FALSE,
                       !.lto = "ThinLocal"]}

LivenessConfigs ==
  {[Base EXCEPT !.lto = l, !.allocator = FALSE] : l \in {"No", "Thin"}}
    \cup {[Base EXCEPT !.combine = TRUE, !.cgus = {c1}]}

CombineConfigs == {[Base EXCEPT !.combine = TRUE, !.allocator = FALSE]}

ThinConfigs == {[Base EXCEPT !.lto = "ThinLocal"]}
================================================================================
