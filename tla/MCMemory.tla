------------------------------- MODULE MCMemory -------------------------------
(***************************************************************************)
(* The memory stage of a core: the load/store unit with two warps that run *)
(* one of three programs, and a texture cache with two lines for three     *)
(* blocks.  The two share no variable, so a behaviour runs one of them and *)
(* leaves the other alone.                                                 *)
(***************************************************************************)
EXTENDS LdstUnit, TexCache, TLC

(* A load of two registers with three accesses and the store of one of     *)
(* them, against an atomic without destination (red), which nothing but    *)
(* its count holds back, and a memory barrier; a load that an atomic waits *)
(* for, against shared memory and constants; an atomic of shared memory,   *)
(* against a texture and what bypasses the L1D.                            *)
A(op, space, bypass, n, dst, src) ==
  [op |-> op, space |-> space, bypass |-> bypass, n |-> n, dst |-> dst, src |-> src]

MCPrograms ==
  {0 :> <<A("load", "global", FALSE, 3, {1, 2}, {}), A("store", "global", FALSE, 1, {}, {2})>>
   @@ 1 :> <<A("load", "global", TRUE, 2, {1}, {}), A("membar", "global", FALSE, 0, {}, {}),
             A("atomic", "global", TRUE, 1, {}, {})>>,
   0 :> <<A("load", "global", FALSE, 2, {1}, {}), A("atomic", "global", TRUE, 1, {}, {1})>>
   @@ 1 :> <<A("load", "shared", FALSE, 1, {1}, {}), A("load", "const", FALSE, 1, {2}, {}),
             A("store", "shared", FALSE, 2, {}, {1, 2})>>,
   0 :> <<A("atomic", "shared", FALSE, 2, {2}, {})>>
   @@ 1 :> <<A("load", "tex", FALSE, 1, {1}, {}), A("load", "global", TRUE, 1, {2}, {}),
             A("store", "global", TRUE, 1, {}, {2})>>}

VARIABLE part

MemoryInit ==
  /\ LdstInit /\ TexInit
  /\ part \in {"unit", "texture"}
  /\ part = "texture" => prog = CHOOSE p \in MCPrograms : TRUE

MemoryNext ==
  \/ part = "unit" /\ LdstNext /\ UNCHANGED <<part, texVars>>
  \/ part = "texture" /\ TexNext /\ UNCHANGED <<part, ldstVars>>

(* The part that runs is fair. *)
MemoryFairness ==
  /\ []<>(part # "unit") \/ LdstFairness
  /\ []<>(part # "texture") \/ TexFairness

MemorySpec == MemoryInit /\ [][MemoryNext]_<<part, ldstVars, texVars>> /\ MemoryFairness

(* All warps of the unit end (see LdstUnit). *)
EveryWarpIsRetired == part = "unit" => EveryWarpRetires
===============================================================================
