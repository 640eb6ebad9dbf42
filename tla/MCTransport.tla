----------------------------- MODULE MCTransport -----------------------------
(***************************************************************************)
(* What travels between the client's processes and the node, for model     *)
(* checking: the bytes of a connection (NetConnect), the ids of requests   *)
(* (RpcClient), and the transactions pyth_tx forwards (TxSvr).  The three  *)
(* share no state; a behaviour is one of one of them.                      *)
(***************************************************************************)
EXTENDS NetConnect

CONSTANTS
    MaxSend, MaxNull, MaxReset,
    Node, Leader(_), PC_LEADER_MAX, PC_LEADER_MIN, Ahead, Client, MaxSlot, MaxJump, Timely, MaxBack

\* A schedule is asked for PC_LEADER_MIN slots before it ends, and the answer
\* comes before the next one does; 256, 32 and 5 in the code.
ASSUME ScheduleAssumption ==
    /\ PC_LEADER_MAX \in Nat /\ PC_LEADER_MIN \in Nat \ {0} /\ Ahead \in Nat \ {0}
    /\ Timely \in Nat /\ PC_LEADER_MIN + Timely < PC_LEADER_MAX
    /\ MaxSlot \in Nat /\ MaxJump \in Nat /\ MaxBack \in Nat

VARIABLES
    part,
    id_, reuse_, rv_, smap_, ntok, wire, subs, last, nulls, resets,
    has_conn_, slot_, avec_, lslot_, rslot_, lvec_, lrecv, nmap_, crecv, chain, txWire,
    olist_, dlist_, covered, sentTo, ended, txBreaks

\* The peer's frames: whole messages, messages in several frames with control
\* frames in between, long headers and empty payloads.
MCFrame(op, fin, hdr, pay) == [op |-> op, fin |-> fin, hdr |-> hdr, pay |-> pay]
MCScript == << MCFrame("text", TRUE, 2, 1), MCFrame("text", FALSE, 4, 1),
               MCFrame("ping", TRUE, 2, 0), MCFrame("cont", TRUE, 2, 1),
               MCFrame("text", FALSE, 2, 0), MCFrame("close", TRUE, 2, 0),
               MCFrame("cont", TRUE, 2, 1) >>
MCReply == [status |-> 2, hdr |-> 4]

\* A leader has several slots in a row, as on the cluster.
MCLeader(s) == IF (s \div 2) % 3 = 0 THEN "a" ELSE "b"

Rpc == INSTANCE RpcClient
Tx == INSTANCE TxSvr WITH wire <- txWire, breaks <- txBreaks

rpcVars == <<id_, reuse_, rv_, smap_, ntok, wire, subs, last, nulls, resets>>
txVars == <<has_conn_, slot_, avec_, lslot_, rslot_, lvec_, lrecv, nmap_, crecv, chain, txWire,
            olist_, dlist_, covered, sentTo, ended, txBreaks>>

-----------------------------------------------------------------------------
TransportInit == Init /\ Rpc!Init /\ Tx!Init /\ part \in {"bytes", "requests", "transactions"}

TransportNext ==
    \/ part = "bytes" /\ Next /\ UNCHANGED <<part, rpcVars, txVars>>
    \/ part = "requests" /\ Rpc!Next /\ UNCHANGED <<part, vars, txVars>>
    \/ part = "transactions" /\ Tx!Next /\ UNCHANGED <<part, vars, rpcVars>>

TransportSpec == TransportInit /\ [][TransportNext]_<<part, vars, rpcVars, txVars>>

-----------------------------------------------------------------------------
(* The properties of the instances *)

\* rpc_client: replies and notifications reach the requests they are for.
RepliesRight == Rpc!RepliesRight

\* tx_svr: a transaction is sent to the leader of the current slot.
LeadersKnown == Tx!LeadersKnown
=============================================================================
