----------------------------- MODULE ClusterPorts -----------------------------
(***************************************************************************)
(* The way of the answers into the cores of a cluster (simt_core_cluster): *)
(* the response FIFO of the cluster, fed by the interconnect, by HIST, or  *)
(* by the perfect memory, and behind it the instruction cache and the      *)
(* response FIFO of the load/store unit of each core.                      *)
(***************************************************************************)
EXTENDS Integers, Sequences, FiniteSets

CONSTANTS
  Resp,         (* the answers to come, each of them once                  *)
  Kind,         (* "inst" or "data" (get_access_type)                      *)
  CoreOf,       (* sid_to_cid(mf->get_sid())                               *)
  From,         (* "icnt", "hist" (a fetch granted) or "perfect"           *)
  Cid,          (* the cores of the cluster                                *)
  EjectionSize, (* n_simt_ejection_buffer_size                             *)
  ResponseSize  (* ldst_unit_response_queue_size                           *)

ASSUME PortsAssumption ==
  /\ EjectionSize \in Nat \ {0} /\ ResponseSize \in Nat \ {0}
  /\ Kind \in [Resp -> {"inst", "data"}]
  /\ CoreOf \in [Resp -> Cid]
  /\ From \in [Resp -> {"icnt", "hist", "perfect"}]
  /\ \A m \in Resp : From[m] = "hist" => Kind[m] = "data"

VARIABLES
  out,     (* not arrived: in the interconnect, at HIST, at the core       *)
  fifo,    (* m_response_fifo of the cluster                               *)
  ldst,    (* m_response_fifo of each ldst_unit                            *)
  done     (* taken by the caches                                          *)

portVars == <<out, fifo, ldst, done>>

PortsInit ==
  /\ out = Resp
  /\ fifo = <<>>
  /\ ldst = [c \in Cid |-> <<>>]
  /\ done = {}

ejection_buffer_full(f) == Len(f) >= EjectionSize

(* Faulty: the FIFO of the load/store unit always has room. *)
Accepts_Always(m) == TRUE

(* Faulty: off by one. *)
Accepts_LastKept(m) == Kind[m] = "inst" \/ Len(ldst[CoreOf[m]]) + 1 < ResponseSize

(* fetch_unit_response_buffer_full is never true. *)
Accepts(m) == Kind[m] = "inst" \/ Len(ldst[CoreOf[m]]) < ResponseSize

(* gpgpu_sim::fill_respond_queue, from the hist_cycle of any core, of this *)
(* cluster or another one: no limit is looked at.                          *)
fill_respond_queue(m) ==
  /\ m \in out /\ From[m] = "hist"
  /\ fifo' = Append(fifo, m)
  /\ out' = out \ {m}
  /\ UNCHANGED <<ldst, done>>

(* perfect_memory_interface::push, after full. *)
PerfectPush(m) ==
  /\ m \in out /\ From[m] = "perfect" /\ ~ejection_buffer_full(fifo)
  /\ fifo' = Append(fifo, m)
  /\ out' = out \ {m}
  /\ UNCHANGED <<ldst, done>>

(* Faulty: the front leaves the FIFO before its core is asked. *)
Rest_Popped == IF fifo # <<>> THEN Tail(fifo) ELSE fifo

(* The front of the FIFO is handed over, if its core has room for it.      *)
Rest == IF fifo # <<>> /\ Accepts(Head(fifo)) THEN Tail(fifo) ELSE fifo

Accepted ==
  IF fifo = <<>> \/ ~Accepts(Head(fifo)) THEN UNCHANGED <<ldst, done>>
  ELSE LET m == Head(fifo)
       IN  IF Kind[m] = "inst"
           THEN done' = done \union {m} /\ UNCHANGED ldst
           ELSE ldst' = [ldst EXCEPT ![CoreOf[m]] = Append(@, m)] /\ UNCHANGED done

(* What icnt_pop may return: nothing is asked for when the FIFO is full. *)
Popped == IF ejection_buffer_full(Rest) THEN {} ELSE {m \in out : From[m] = "icnt"}

(* simt_core_cluster::icnt_cycle *)
icnt_cycle ==
  /\ Accepted
  /\ \/ /\ fifo' = Rest /\ UNCHANGED out
     \/ \E m \in Popped : fifo' = Append(Rest, m) /\ out' = out \ {m}

(* ldst_unit::cycle takes the front of its FIFO. *)
LdstTakes(c) ==
  /\ ldst[c] # <<>>
  /\ done' = done \union {Head(ldst[c])}
  /\ ldst' = [ldst EXCEPT ![c] = Tail(@)]
  /\ UNCHANGED <<out, fifo>>

PortsNext ==
  \/ icnt_cycle
  \/ \E m \in Resp : fill_respond_queue(m) \/ PerfectPush(m)
  \/ \E c \in Cid : LdstTakes(c)

(* The cluster and the units are cycled for ever; a packet for the cluster *)
(* comes out of the interconnect when it is asked for often enough.        *)
PortsFairness ==
  /\ WF_portVars(icnt_cycle)
  /\ SF_portVars(icnt_cycle /\ out' # out)
  /\ \A c \in Cid : WF_portVars(LdstTakes(c))
  /\ \A m \in Resp : SF_portVars(PerfectPush(m)) /\ WF_portVars(fill_respond_queue(m))

PortsSpec == PortsInit /\ [][PortsNext]_portVars /\ PortsFairness

-----------------------------------------------------------------------------
(* Each answer is in one place: none is delivered twice, none gets lost    *)
(* between two buffers, and each core takes its own.                       *)
Places(m) ==
  <<IF m \in out THEN 1 ELSE 0, IF m \in done THEN 1 ELSE 0,
    Cardinality({n \in DOMAIN fifo : fifo[n] = m}),
    Cardinality({n \in DOMAIN ldst[CoreOf[m]] : ldst[CoreOf[m]][n] = m})>>
OnePlace ==
  \A m \in Resp : \E k \in 1 .. 4 : Places(m) = [n \in 1 .. 4 |-> IF n = k THEN 1 ELSE 0]

(* "number of response packets in ld/st unit ejection buffer", and of the  *)
(* packets of the interconnect and of the perfect memory never more than   *)
(* the ejection buffer has room for, whatever HIST adds to it: a burst of  *)
(* grants holds the interconnect back.                                     *)
Limits ==
  /\ \A c \in Cid : Len(ldst[c]) <= ResponseSize
  /\ Cardinality({n \in DOMAIN fifo : From[fifo[n]] # "hist"}) <= EjectionSize

(* The answers on their way: each in one place, in buffers that hold them. *)
PortsHold == OnePlace /\ Limits

(* Instructions and data, granted or not, all arrive, although the front   *)
(* of the FIFO may have to wait for a load/store unit that does not have   *)
(* room, and the others behind it: no core keeps another one waiting for   *)
(* ever.                                                                   *)
EveryAnswerArrives == <>(done = Resp)
===============================================================================
