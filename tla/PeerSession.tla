----------------------------- MODULE PeerSession -----------------------------
(***************************************************************************)
(* The two sessions of src/crates/tap-ldk-core/src/live_peer.rs: a client  *)
(* and a server thread exchange frames over one TCP connection.  After the *)
(* hello, in which they negotiate, the client sends the session's messages *)
(* one by one and waits for each acknowledgement.  The smoke session is of *)
(* one message, and ends there; in the payment session the server feeds    *)
(* the proof chunks to two reassemblers, and a completion and its          *)
(* acknowledgement end it.                                                 *)
(* Any error ends the thread that meets it and drops its stream.  A read   *)
(* waits three seconds at most; accept and join wait for ever.  After its  *)
(* last write the server has yet to return, and the client to join it.     *)
(*                                                                         *)
(* Both ends compute the same messages.  A digest is what it is taken of:  *)
(* the payload, and for the session's payment id the list of messages.     *)
(***************************************************************************)
EXTENDS PeerMessages, ChannelNegotiation, TLC

CONSTANTS InputProof, OutputProof   \* as sequences of their chunks' bytes

VARIABLES
  session,    \* "smoke" or "payment", for the whole behaviour
  client,     \* [pc, next message, connected]
  server,     \* [pc, next message, the reassemblers and what they returned]
  toServer, toClient,   \* frames on their way
  disturbed   \* a connection failed or a peer was slower than the timeout

vars == <<session, client, server, toServer, toClient, disturbed>>

------------------------------------------------------------------------------
(* Messages and frames *)

ProofMessages(kind, proof) ==
  [i \in 1 .. Len(proof) |->
     [kind |-> kind, channel |-> "pending", asset |-> "A", amount |-> "amount"]
       @@ Chunk(proof, i - 1)]

(* sample_custom_message *)
SampleMessage ==
  [kind |-> "RfqRequest", rfq |-> "r", asset |-> "A", amount |-> "amount", context |-> "c"]

(* sample_asset_payment_session_messages *)
PaymentMessages ==
  ProofMessages("TxAssetInputProof", InputProof)
    \o ProofMessages("TxAssetOutputProof", OutputProof)
    \o <<[kind |-> "AssetFundingCreated", channel |-> "pending", fundingBlob |-> "funding"],
         [kind |-> "AssetFundingAccepted", channel |-> "pending", accept |-> TRUE],
         SampleMessage,
         [kind |-> "RfqAccept", rfq |-> "r", quote |-> "q", msat |-> "10 * amount",
          expiry |-> "expiry", alias |-> "alias"],
         [kind |-> "AssetHtlcBlob", asset |-> "A", amount |-> "amount", rfq |-> "r",
          context |-> "c", htlcBlob |-> "htlc"]>>

Messages == IF session = "payment" THEN PaymentMessages ELSE <<SampleMessage>>

(* The client advertises the feature and the server requires it. *)
Hello == [type |-> "Hello", bits |-> FeatureBits(AdvertiseOptional)]
HelloAck(outcome) == [type |-> "HelloAck", outcome |-> outcome]
CustomMessage(m) == [type |-> "CustomMessage", kind |-> m.kind, payload |-> Encode(m)]
CustomMessageAck(frame) ==
  [type |-> "CustomMessageAck", kind |-> frame.kind, digest |-> frame.payload]
SessionComplete == [type |-> "SessionComplete", messages |-> Messages]
SessionCompleteAck(accepted) ==
  [type |-> "SessionCompleteAck", messages |-> Messages, accepted |-> accepted]

Ended(peer) == peer.pc \in {"done", "failed"}

Init ==
  /\ session \in {"smoke", "payment"}
  /\ client = [pc |-> "connect", next |-> 1, connected |-> FALSE]
  /\ server = [pc |-> "accept", next |-> 1, input |-> Fresh, output |-> Fresh,
               inputProof |-> <<>>, outputProof |-> <<>>]
  /\ toServer = <<>> /\ toClient = <<>>
  /\ disturbed = FALSE

(* How a read may end when no frame comes from the peer: the stream is at   *)
(* its end, or the timeout of configure_stream passes.                     *)
OnlyEndOfStream(peer) == Ended(peer)
ReadGivesUp(peer) == TRUE

Disturb(peer) == disturbed' = (disturbed \/ ~Ended(peer))

------------------------------------------------------------------------------
(* The client: run_live_peer_smoke and run_live_asset_payment_session_smoke *)

ClientConnects ==
  /\ client.pc = "connect"
  /\ client' = [client EXCEPT !.pc = "hello", !.connected = TRUE]
  /\ UNCHANGED <<session, server, toServer, toClient, disturbed>>

ClientCannotConnect ==
  /\ client.pc = "connect"
  /\ client' = [client EXCEPT !.pc = "failed"]
  /\ disturbed' = TRUE
  /\ UNCHANGED <<session, server, toServer, toClient>>

ClientSends(frame, pc) ==
  /\ client' = [client EXCEPT !.pc = pc]
  /\ toServer' = Append(toServer, frame)
  /\ UNCHANGED <<session, server, toClient, disturbed>>

ClientHello == client.pc = "hello" /\ ClientSends(Hello, "await_hello")

ClientMessage ==
  /\ client.pc = "send" /\ client.next <= Len(Messages)
  /\ ClientSends(CustomMessage(Messages[client.next]), "await_ack")

ClientComplete ==
  /\ client.pc = "send" /\ client.next > Len(Messages) /\ session = "payment"
  /\ ClientSends(SessionComplete, "await_complete")

(* The frames the client goes on with; any other is a protocol error.  The *)
(* smoke session goes on with any acknowledgement and reports whether it   *)
(* was the right one.                                                      *)
ClientTakes(frame) ==
  CASE client.pc = "await_hello" -> frame.type = "HelloAck"
    [] client.pc = "await_ack" ->
         /\ frame.type = "CustomMessageAck"
         /\ session = "payment" => frame = CustomMessageAck(CustomMessage(Messages[client.next]))
    [] client.pc = "await_complete" -> frame = SessionCompleteAck(TRUE)

AfterRead ==
  IF \/ client.pc = "await_complete"
     \/ session = "smoke" /\ client.pc = "await_ack"
  THEN "join" ELSE "send"

ClientWaits == client.pc \in {"await_hello", "await_ack", "await_complete"}

ClientReads ==
  /\ ClientWaits
  /\ toClient # <<>> /\ ClientTakes(Head(toClient))
  /\ toClient' = Tail(toClient)
  /\ client' =
       [client EXCEPT
          !.pc = AfterRead,
          !.next = IF client.pc = "await_ack" THEN @ + 1 ELSE @]
  /\ UNCHANGED <<session, server, toServer, disturbed>>

ClientFails ==
  /\ ClientWaits
  /\ toClient = <<>> => ReadGivesUp(server)
  /\ toClient # <<>> => ~ClientTakes(Head(toClient))
  /\ client' = [client EXCEPT !.pc = "failed"]
  /\ Disturb(server)
  /\ UNCHANGED <<session, server, toServer, toClient>>

(* server.join() and the server's result *)
ClientJoins ==
  /\ client.pc = "join" /\ Ended(server)
  /\ client' = [client EXCEPT !.pc = server.pc]
  /\ UNCHANGED <<session, server, toServer, toClient, disturbed>>

(* write_frame after the server has dropped the stream may succeed or not. *)
ClientCannotWrite ==
  /\ client.pc \in {"hello", "send"} /\ Ended(server)
  /\ client' = [client EXCEPT !.pc = "failed"]
  /\ UNCHANGED <<session, server, toServer, toClient, disturbed>>

ClientStep ==
  \/ ClientConnects \/ ClientCannotConnect \/ ClientHello \/ ClientMessage
  \/ ClientComplete \/ ClientReads \/ ClientFails \/ ClientJoins
  \/ ClientCannotWrite

------------------------------------------------------------------------------
(* The server: run_live_peer_server, run_live_asset_payment_session_server *)

ServerAccepts ==
  /\ server.pc = "accept" /\ client.connected
  /\ server' = [server EXCEPT !.pc = "hello"]
  /\ UNCHANGED <<session, client, toServer, toClient, disturbed>>

ServerReads(pc, reply, next) ==
  /\ server.pc = pc
  /\ toServer # <<>>
  /\ toServer' = Tail(toServer)
  /\ toClient' = Append(toClient, reply)
  /\ server' = next
  /\ UNCHANGED <<session, client, disturbed>>

(* feature_set_from_bits *)
FeaturesOf(bits) ==
  CASE <<"taproot_asset", "required">> \in bits -> Require
    [] <<"taproot_asset", "optional">> \in bits -> AdvertiseOptional
    [] OTHER -> Disabled

(* The server goes on after a hello. *)
HelloTaken(frame) ==
  /\ frame.type = "Hello"
  /\ Negotiates(Require, FeaturesOf(frame.bits))
  /\ AssetMessageAllowed(Outcome(Require, FeaturesOf(frame.bits)).channel)

ServerHello ==
  /\ toServer # <<>> /\ HelloTaken(Head(toServer))
  /\ ServerReads("hello", HelloAck(Outcome(Require, FeaturesOf(Head(toServer).bits))),
                 [server EXCEPT !.pc = "messages"])

(* The proof that push returns with this chunk, or what was returned before. *)
Returned(r, c, before) ==
  IF Completes(r, c) THEN Assembled(Stored(r, c)) ELSE before

ReceivedNoOutput(s, m) ==
  CASE m.kind = "TxAssetInputProof" ->
         [s EXCEPT !.input = Pushed(@, ChunkOf(m)),
                   !.inputProof = Returned(s.input, ChunkOf(m), @)]
    [] OTHER -> s
Received(s, m) ==
  CASE m.kind = "TxAssetInputProof" ->
         [s EXCEPT !.input = Pushed(@, ChunkOf(m)),
                   !.inputProof = Returned(s.input, ChunkOf(m), @)]
    [] m.kind = "TxAssetOutputProof" ->
         [s EXCEPT !.output = Pushed(@, ChunkOf(m)),
                   !.outputProof = Returned(s.output, ChunkOf(m), @)]
    [] OTHER -> s

(* push returns Ok. *)
Pushable(s, m) ==
  CASE m.kind = "TxAssetInputProof" ->
         Completes(s.input, ChunkOf(m)) \/ Incomplete(s.input, ChunkOf(m))
    [] m.kind = "TxAssetOutputProof" ->
         Completes(s.output, ChunkOf(m)) \/ Incomplete(s.output, ChunkOf(m))
    [] OTHER -> TRUE

(* The server goes on after a custom message: in the smoke session any     *)
(* message that decodes, in the payment session the next one.              *)
MessageTaken(frame) ==
  /\ frame.type = "CustomMessage"
  /\ Decodable(frame.payload)
  /\ LET m == Decode(frame.payload)
     IN  /\ m.kind = frame.kind
         /\ session = "payment" => /\ server.next <= Len(Messages)
                                   /\ m = Messages[server.next]
         /\ Pushable(server, m)

ServerMessage ==
  /\ toServer # <<>> /\ MessageTaken(Head(toServer))
  /\ ServerReads("messages", CustomMessageAck(Head(toServer)),
                 [Received(server, Decode(Head(toServer).payload)) EXCEPT
                    !.next = @ + 1,
                    !.pc = IF session = "smoke" THEN "finish" ELSE @])

ServerComplete ==
  /\ server.next > Len(Messages)
  /\ toServer # <<>> /\ Head(toServer) = SessionComplete
  /\ ServerReads("messages",
                 SessionCompleteAck(/\ server.inputProof # <<>>
                                    /\ server.outputProof # <<>>),
                 [server EXCEPT !.pc = "finish"])

(* The report is built and the thread returns, which drops its stream. *)
ServerReturns ==
  /\ server.pc = "finish"
  /\ server' = [server EXCEPT !.pc = "done"]
  /\ UNCHANGED <<session, client, toServer, toClient, disturbed>>

ServerTakes(frame) ==
  CASE server.pc = "hello" -> HelloTaken(frame)
    [] server.next > Len(Messages) -> frame = SessionComplete
    [] OTHER -> MessageTaken(frame)

ServerFails ==
  /\ server.pc \in {"hello", "messages"}
  /\ toServer = <<>> => ReadGivesUp(client)
  /\ toServer # <<>> => ~ServerTakes(Head(toServer))
  /\ server' = [server EXCEPT !.pc = "failed"]
  /\ Disturb(client)
  /\ UNCHANGED <<session, client, toServer, toClient>>

(* write_frame after the client has dropped the stream may succeed or not. *)
ServerCannotWrite ==
  /\ server.pc \in {"hello", "messages"} /\ Ended(client)
  /\ toServer # <<>> /\ ServerTakes(Head(toServer))
  /\ toServer' = Tail(toServer)
  /\ server' = [server EXCEPT !.pc = "failed"]
  /\ UNCHANGED <<session, client, toClient, disturbed>>

ServerStep ==
  \/ ServerAccepts \/ ServerHello \/ ServerMessage \/ ServerComplete
  \/ ServerReturns \/ ServerFails \/ ServerCannotWrite

------------------------------------------------------------------------------

Next == ClientStep \/ ServerStep

(* A thread may hang; the liveness properties name the threads that the    *)
(* operating system must keep scheduling.                                  *)
Spec == Init /\ [][Next]_vars

(* Properties *)

(* The server's state is consistent with the messages it has taken. *)
TypeOK ==
  /\ client.next \in 1 .. Len(Messages) + 1
  /\ server.next \in 1 .. Len(Messages) + 1
  /\ server.inputProof \in {<<>>, InputProof}
  /\ server.outputProof \in {<<>>, OutputProof}
  /\ Len(toServer) <= 1 /\ Len(toClient) <= 1

(* The client waits for ever on nothing but a server that hangs after its  *)
(* last write: join has no timeout, and every read before it has one.      *)
JoinsHungServer == client.pc = "join" /\ server.pc = "finish"

(* The read timeout frees each thread from the other.  The server ends,    *)
(* once the client has connected, even if the client's thread hangs.  The  *)
(* client ends even if the server's hangs, except in the join after the    *)
(* server's last write; with both threads running it always ends.          *)
ThreadsEnd ==
  /\ WF_vars(ClientStep) => <>[](Ended(client) \/ JoinsHungServer)
  /\ WF_vars(ServerStep) => (client.connected ~> Ended(server))
  /\ WF_vars(ClientStep) /\ WF_vars(ServerStep) => <>Ended(client)

(* An undisturbed session of two running threads completes on both sides;  *)
(* the payment session with both proofs reassembled, for which the server  *)
(* looks at nothing but whether each reassembler has ever completed.       *)
SessionCompletes ==
  LET complete == /\ client.pc = "done" /\ server.pc = "done"
                  /\ session = "payment" => /\ server.inputProof = InputProof
                                            /\ server.outputProof = OutputProof
  IN  WF_vars(ClientStep) /\ WF_vars(ServerStep) => <>(disturbed \/ complete)

==============================================================================
