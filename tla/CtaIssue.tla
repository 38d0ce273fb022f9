------------------------------ MODULE CtaIssue ------------------------------
(***************************************************************************)
(* How the CTAs of the kernels that are launched get to the cores, and how *)
(* the end of a kernel is found: a core counts the warps of each CTA, a    *)
(* kernel counts the cores that run it, and the last warp of the last CTA  *)
(* on the last core reports the kernel as finished.                        *)
(*                                                                         *)
(* kernel_info_t is not part of the repository; what the code uses of it   *)
(* is the number of CTAs that are left and the number of cores that run    *)
(* it.                                                                     *)
(***************************************************************************)
EXTENDS Integers, Sequences, FiniteSets

CONSTANTS
  Kernel,    (* the kernels, each launched once                            *)
  NCta,      (* CTAs of each kernel                                        *)
  NWarp,     (* warps of a CTA of each kernel                              *)
  MaxCta,    (* max_cta: CTAs of each kernel that fit on a core            *)
  NCluster,  (* n_simt_clusters                                            *)
  NCore,     (* n_simt_cores_per_cluster                                   *)
  NSlot,     (* max_concurrent_kernel                                      *)
  None       (* no kernel                                                  *)

ASSUME IssueAssumption ==
  /\ NCta \in [Kernel -> Nat \ {0}]
  /\ NWarp \in [Kernel -> Nat \ {0}]
  /\ MaxCta \in [Kernel -> Nat \ {0}]
  /\ {NCluster, NCore, NSlot} \subseteq Nat \ {0}
  /\ \E k \in Kernel : \A j \in Kernel : MaxCta[j] <= MaxCta[k]
  /\ None \notin Kernel

Cluster == 0 .. NCluster - 1
CoreNo  == 0 .. NCore - 1
Core    == Cluster \X CoreNo
Slot    == 0 .. NSlot - 1

VARIABLES
  running,     (* m_running_kernels                                        *)
  lastKernel,  (* m_last_issued_kernel                                     *)
  lastCluster, (* m_last_cluster_issue                                     *)
  nextCore,    (* m_cta_issue_next_core of each cluster                    *)
  kernel,      (* m_kernel of each core                                    *)
  status,      (* m_cta_status of each core: warps left, by context        *)
  issued,      (* CTAs of each kernel that were issued                     *)
  users,       (* cores that run each kernel, as the kernel counts them    *)
  finished,    (* m_finished_kernel                                        *)
  reported     (* kernels that finished_kernel has returned                *)

issueVars == <<running, lastKernel, lastCluster, nextCore, kernel, status, issued, users>>
vars == <<issueVars, finished, reported>>

NoMoreCtas(issuedNow, k) == issuedNow[k] = NCta[k]
Done(k) == NoMoreCtas(issued, k) /\ users[k] = 0

(* m_n_active_cta. *)
ActiveCtas(statusNow, c) == {x \in DOMAIN statusNow[c] : statusNow[c][x] > 0}

Contexts == 0 .. (CHOOSE n \in {MaxCta[k] : k \in Kernel} :
                    \A k \in Kernel : MaxCta[k] <= n) - 1

Init ==
  /\ running = [n \in Slot |-> None]
  /\ lastKernel = 0 /\ lastCluster = 0
  /\ nextCore = [l \in Cluster |-> NCore - 1]
  /\ kernel = [c \in Core |-> None]
  /\ status = [c \in Core |-> [x \in Contexts |-> 0]]
  /\ issued = [k \in Kernel |-> 0] /\ users = [k \in Kernel |-> 0]
  /\ finished = <<>> /\ reported = {}

-----------------------------------------------------------------------------
(* gpgpu_sim::launch, into the first slot that is free.                    *)
Free(n) == running[n] # None => Done(running[n])

Launched == {running[n] : n \in Slot} \union {finished[n] : n \in 1 .. Len(finished)}
              \union reported

Launch(k) ==
  /\ k \notin Launched /\ issued[k] = 0
  /\ \E n \in Slot : /\ Free(n)
                     /\ \A m \in Slot : Free(m) => n <= m
                     /\ running' = [running EXCEPT ![n] = k]
  /\ UNCHANGED <<lastKernel, lastCluster, nextCore, kernel, status, issued, users,
                 finished, reported>>

-----------------------------------------------------------------------------
(* gpgpu_sim::issue_block2core: every cluster in turn may issue one CTA.   *)
(* What the handler reads and writes is passed along in g.                 *)

(* The first of n, counted from the one after last, that passes the test.  *)
FirstAfter(last, n, passes) ==
  LET at(i) == (last + 1 + i) % n
      hits  == {i \in 0 .. n - 1 : at(i) \in passes}
  IN  at(CHOOSE i \in hits : \A j \in hits : i <= j)

(* gpgpu_sim::select_kernel *)
Selectable(g) ==
  {n \in Slot : g.running[n] # None /\ ~NoMoreCtas(g.issued, g.running[n])}

(* simt_core_cluster::issue_block2core: a core that runs a kernel takes a  *)
(* CTA of it, an idle one is given a kernel.                               *)
TakesOwn(g, c) ==
  /\ g.kernel[c] # None
  /\ ~NoMoreCtas(g.issued, g.kernel[c])
  /\ Cardinality(ActiveCtas(g.status, c)) < MaxCta[g.kernel[c]]

TakesNew(g, c) ==
  g.kernel[c] = None /\ ActiveCtas(g.status, c) = {} /\ Selectable(g) # {}

(* shader_core_ctx::issue_block2core, into the first free context.         *)
FreeContext(g, c) ==
  CHOOSE x \in Contexts : /\ g.status[c][x] = 0
                          /\ \A y \in Contexts : g.status[c][y] = 0 => x <= y

IssueTo(g, c, k) ==
  [g EXCEPT !.status[c][FreeContext(g, c)] = NWarp[k],
            !.issued[k] = @ + 1,
            !.nextCore[c[1]] = c[2],
            !.lastCluster = c[1]]

(* Faulty: the kernel does not count the core.                             *)
Bind_NotCounted(g, c, n) ==
  [g EXCEPT !.kernel[c] = g.running[n], !.lastKernel = n]

(* set_kernel, for the kernel that select_kernel has found.                *)
Bind(g, c, n) ==
  [g EXCEPT !.kernel[c] = g.running[n],
            !.users[g.running[n]] = @ + 1,
            !.lastKernel = n]

ClusterIssue(g, l) ==
  LET takers == {i \in CoreNo : TakesOwn(g, <<l, i>>) \/ TakesNew(g, <<l, i>>)}
      c      == <<l, FirstAfter(g.nextCore[l], NCore, takers)>>
      slot   == FirstAfter(g.lastKernel, NSlot, Selectable(g))
      bound  == IF g.kernel[c] = None THEN Bind(g, c, slot) ELSE g
  IN  IF takers = {} THEN g ELSE IssueTo(bound, c, bound.kernel[c])

(* The one outcome of the loop over the clusters. *)
AfterIssue ==
  LET before == [running |-> running, lastKernel |-> lastKernel,
                 lastCluster |-> lastCluster, nextCore |-> nextCore, kernel |-> kernel,
                 status |-> status, issued |-> issued, users |-> users]
      after[i \in 0 .. NCluster] ==
        IF i = 0 THEN {before}
        ELSE {ClusterIssue(g, (lastCluster + i) % NCluster) : g \in after[i - 1]}
  IN  after[NCluster]

IssueBlock2Core ==
  /\ \E g \in AfterIssue :
       /\ lastKernel' = g.lastKernel /\ lastCluster' = g.lastCluster
       /\ nextCore' = g.nextCore /\ kernel' = g.kernel /\ status' = g.status
       /\ issued' = g.issued /\ users' = g.users
  /\ UNCHANGED <<running, finished, reported>>

-----------------------------------------------------------------------------
(* Faulty: the first core that runs out of CTAs ends the kernel.           *)
EndsWith_AnyCore(k) == NoMoreCtas(issued, k)

(* Faulty: the core looks before the kernel has stopped counting it.       *)
EndsWith_TooEarly(k) == NoMoreCtas(issued, k) /\ users[k] = 0

(* The core that leaves k ends it.                                         *)
EndsWith(k) == NoMoreCtas(issued, k) /\ users[k] = 1

(* shader_core_ctx::register_cta_thread_exit for the threads of a warp.    *)
RegisterExit(c, x) ==
  LET k     == kernel[c]
      empty == status[c][x] = 1 /\ ActiveCtas(status, c) = {x}
  IN  /\ status[c][x] > 0
      /\ status' = [status EXCEPT ![c][x] = @ - 1]
      /\ kernel' = IF empty THEN [kernel EXCEPT ![c] = None] ELSE kernel
      /\ users' = IF empty THEN [users EXCEPT ![k] = @ - 1] ELSE users
      /\ IF empty /\ EndsWith(k)
         THEN /\ finished' = Append(finished, k)
              /\ running' = [n \in Slot |-> IF running[n] = k THEN None ELSE running[n]]
         ELSE UNCHANGED <<finished, running>>
      /\ UNCHANGED <<lastKernel, lastCluster, nextCore, issued, reported>>

(* gpgpu_sim::finished_kernel, called by the runtime.                      *)
FinishedKernel ==
  /\ finished # <<>>
  /\ reported' = reported \union {Head(finished)}
  /\ finished' = Tail(finished)
  /\ UNCHANGED issueVars

Next ==
  \/ \E k \in Kernel : Launch(k)
  \/ IssueBlock2Core
  \/ \E c \in Core, x \in Contexts : RegisterExit(c, x)
  \/ FinishedKernel

(* The simulation loop issues in every core cycle; the warps of a CTA end; *)
(* the runtime asks for finished kernels.                                  *)
Fairness ==
  /\ WF_vars(IssueBlock2Core)
  /\ \A c \in Core, x \in Contexts : WF_vars(RegisterExit(c, x))
  /\ WF_vars(FinishedKernel)

Spec == Init /\ [][Next]_vars /\ Fairness

-----------------------------------------------------------------------------
(* The counters stay within what the configuration allows.                 *)
TypeOK ==
  /\ running \in [Slot -> Kernel \union {None}]
  /\ lastKernel \in Slot /\ lastCluster \in Cluster /\ nextCore \in [Cluster -> CoreNo]
  /\ kernel \in [Core -> Kernel \union {None}]
  /\ \A c \in Core, x \in Contexts :
       status[c][x] \in 0 .. IF kernel[c] = None THEN 0 ELSE NWarp[kernel[c]]
  /\ \A k \in Kernel : issued[k] \in 0 .. NCta[k] /\ users[k] \in 0 .. Cardinality(Core)
  /\ finished \in Seq(Kernel) /\ reported \subseteq Kernel

(* The count of cores by which a kernel is found finished is right: a core *)
(* is bound to a kernel as long as it has a CTA of it, and counted once.   *)
UsersCounted ==
  /\ \A k \in Kernel : users[k] = Cardinality({c \in Core : kernel[c] = k})
  /\ \A c \in Core : kernel[c] = None <=> ActiveCtas(status, c) = {}
  /\ \A c \in Core : kernel[c] # None =>
       Cardinality(ActiveCtas(status, c)) <= MaxCta[kernel[c]]

(* A kernel that is reported has run all its CTAs, and is reported once    *)
(* (set_kernel_done and its assertion).                                    *)
FinishedIsComplete ==
  LET ended == reported \union {finished[n] : n \in 1 .. Len(finished)}
  IN  /\ \A k \in ended : /\ NoMoreCtas(issued, k)
                          /\ \A c \in Core : kernel[c] # k
                          /\ \A n \in Slot : running[n] # k
      /\ Cardinality(ended) = Cardinality(reported) + Len(finished)

(* The end of a kernel is counted right and told once.                     *)
KernelsCounted == TypeOK /\ UsersCounted /\ FinishedIsComplete

(* One kernel does not keep another from the cores for ever: every kernel  *)
(* that is launched is reported.                                           *)
EveryKernelReported ==
  \A k \in Kernel : (\E n \in Slot : running[n] = k) ~> k \in reported

=============================================================================
