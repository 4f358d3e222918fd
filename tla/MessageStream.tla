---------------------------- MODULE MessageStream ----------------------------
(***************************************************************************)
(* What a ConnectionHandler promises its owner (connection_handler.h): on  *)
(* each connection the messages the server sent are handed over one by     *)
(* one, whole and in order, the first of them completes the handshake, and *)
(* a connection ends with at most one report of an error, after which it   *)
(* says nothing more.                                                      *)
(***************************************************************************)
EXTENDS Naturals, Sequences

CONSTANT Streams  \* what a server may send on a connection: records with field msgs

VARIABLES phase, stream, delivered, reports

streamVars == <<phase, stream, delivered, reports>>

StreamInit ==
    /\ phase = "closed"
    /\ stream \in Streams
    /\ delivered = << >>
    /\ reports = 0

\* Init: a new connection.
OpenStream ==
    /\ phase = "closed"
    /\ phase' = "login"
    /\ stream' \in Streams
    /\ delivered' = << >>
    /\ reports' = 0

\* read_callback_ with the next message.
Deliver ==
    /\ phase # "closed"
    /\ Len(delivered) < Len(stream.msgs)
    /\ phase' = "open"
    /\ delivered' = Append(delivered, stream.msgs[Len(delivered) + 1])
    /\ UNCHANGED <<stream, reports>>

\* connection_callback_ with an error.
ReportFailure ==
    /\ phase # "closed"
    /\ phase' = "closed"
    /\ reports' = reports + 1
    /\ UNCHANGED <<stream, delivered>>

\* Reset: the owner closes the connection.
CloseStream ==
    /\ phase # "closed"
    /\ phase' = "closed"
    /\ UNCHANGED <<stream, delivered, reports>>

StreamNext == OpenStream \/ Deliver \/ ReportFailure \/ CloseStream

StreamSpec == StreamInit /\ [][StreamNext]_streamVars

==============================================================================
