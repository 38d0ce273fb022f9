------------------------------ MODULE MCCaches ------------------------------
(***************************************************************************)
(* The caches of the simulator: an instance of HistProtocol, the L1Ds and  *)
(* the HIST between them, and one of DataCache, a single cache under six   *)
(* configurations.  The two share no variable, so a behaviour runs one of  *)
(* them and leaves the other alone.                                        *)
(***************************************************************************)
EXTENDS MCHistProtocol, DataCache

Policy(write, alloc, allocate_on_write, withAtomics) ==
  [write |-> write, alloc |-> alloc, allocate_on_write |-> allocate_on_write,
   atomics |-> withAtomics]

(* Constants and instructions, an L2 with atomics, one that writes         *)
(* through, and two L1Ds.                                                  *)
MCConfigs ==
  {Policy("READ_ONLY", "ON_FILL", FALSE, FALSE),
   Policy("READ_ONLY", "ON_MISS", FALSE, FALSE),
   Policy("WRITE_BACK", "ON_MISS", TRUE, TRUE),
   Policy("WRITE_THROUGH", "ON_MISS", TRUE, FALSE),
   Policy("WRITE_EVICT", "ON_FILL", FALSE, FALSE),
   Policy("LOCAL_WB_GLOBAL_WT", "ON_MISS", FALSE, FALSE)}

VARIABLE part

CachesInit ==
  /\ Init /\ CacheInit
  /\ part \in {"protocol", "cache"}
  /\ part = "protocol" => conf = CHOOSE c \in MCConfigs : TRUE

CachesNext ==
  \/ part = "protocol" /\ Next /\ UNCHANGED <<part, dataCacheVars>>
  \/ part = "cache" /\ CacheNext /\ UNCHANGED <<part, vars>>

CachesSpec == CachesInit /\ [][CachesNext]_<<part, vars, dataCacheVars>>
=============================================================================
