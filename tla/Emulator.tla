------------------------------- MODULE Emulator -------------------------------
(***************************************************************************)
(* The emulator of a device: the state machine in Erlang                   *)
(* (emulator/freemcan_emulator.erl), and the program that connects it to   *)
(* clients at a socket (emulator/erl_unix_port.c).  Pipes and sockets keep *)
(* bytes in order and know no messages: a command, and each half of a      *)
(* frame, is an atom.                                                      *)
(***************************************************************************)
EXTENDS Integers, Sequences

CONSTANTS
  MaxClients, \* bound: programs that connect, at once or one after the other
  Periods,    \* seconds they may ask to measure
  MaxCommands \* bound: commands sent

ASSUME EmulatorAssumption ==
  Periods \subseteq Nat /\ Periods # {} /\ MaxClients \in Nat /\ MaxCommands \in Nat

Clients == 1 .. MaxClients
None == 0

Command == ({"a", "r", "i"} \X {0}) \cup ({"m"} \X Periods)

VARIABLES
  state,    \* the state machine's, with the seconds done and those in total
  timeout,  \* whether the machine awaits one
  mailbox,  \* what the port has read, read by read
  rest,     \* the half of a reply that is not sent yet
  replies,  \* replies so far
  toErlang, \* in the pipe WRITE_FILENO
  toPort,   \* in the pipe READ_FILENO
  at,       \* where the port program is
  in_fdset, \* what select() found ready
  connfd,   \* the client connected
  backlog,  \* clients the listening socket holds
  client,   \* of each client: its socket and what it sent; history: the last
            \* half it received, whether one is missing before it, and the
            \* replies there were when it sent
  commands, \* commands sent so far
  drained   \* history: the client select() found gone, with nothing to read

erlang == <<state, timeout, mailbox, rest, replies>>
port   == <<at, in_fdset, connfd, drained>>
users  == <<backlog, client, commands>>
emulatorVars == <<erlang, port, users, toErlang, toPort>>

In(name) == [name |-> name, done |-> 0, total |-> 0]

EmulatorInit ==
  /\ state = In("boot") /\ timeout = TRUE /\ mailbox = <<>> /\ rest = <<>> /\ replies = 0
  /\ toErlang = <<>> /\ toPort = <<>>
  /\ at = "select" /\ in_fdset = {} /\ connfd = None /\ drained = None
  /\ backlog = <<>> /\ commands = 0
  /\ client = [c \in Clients |-> [socket |-> "new", out |-> <<>>, last |-> None,
                              torn |-> FALSE, asked |-> -1]]

Crashed == state.name = "crashed"
Dead == at \in {"aborted", "killed"}

-----------------------------------------------------------------------------
(* The state machine.  A frame is split where chance will have it, and its *)
(* halves are two messages to the port.                                    *)
\* Mutant: the second half is sent first.
send_reply_Swapped ==
  /\ replies' = replies + 1
  /\ toPort' = Append(toPort, 2 * replies + 2) /\ rest' = <<2 * replies + 1>>

send_reply ==
  /\ replies' = replies + 1
  /\ toPort' = Append(toPort, 2 * replies + 1) /\ rest' = <<2 * replies + 2>>

NoReply == UNCHANGED <<replies, rest, toPort>>

SendRest ==
  /\ rest # <<>> /\ rest' = <<>> /\ toPort' = toPort \o rest
  /\ UNCHANGED <<state, timeout, mailbox, replies, port, users, toErlang>>

(* decode_cmd() and fsm(): commands read together are none of the known.   *)
Measure(command) == /\ state.name = "ready" /\ command[1] = "m"
                    /\ state' = [name |-> "measuring", done |-> 0, total |-> command[2]]
                    /\ timeout' = TRUE /\ send_reply

ResetCommand(command) ==
  /\ state.name = "ready" /\ command[1] = "r"
  /\ state' = In("reset") /\ timeout' = TRUE /\ NoReply

\* Mutant: no reply, as to a reset.
StayReady_Silent(command) ==
  /\ state.name = "ready" /\ command[1] \in {"a", "i"}
  /\ timeout' = FALSE /\ NoReply /\ UNCHANGED state

StayReady(command) ==
  /\ state.name = "ready" /\ command[1] \in {"a", "i"}
  /\ timeout' = FALSE /\ send_reply /\ UNCHANGED state

AbortCommand(command) ==
  /\ state.name = "measuring" /\ command[1] = "a"
  /\ state' = In("reset") /\ timeout' = TRUE /\ send_reply

\* Mutant: no timeout, as for a device that is ready.
Intermediate_NoTimeout(command) ==
  /\ state.name = "measuring" /\ command[1] = "i"
  /\ timeout' = FALSE /\ send_reply /\ UNCHANGED state

Intermediate(command) ==
  /\ state.name = "measuring" /\ command[1] = "i"
  /\ timeout' = TRUE /\ send_reply /\ UNCHANGED state

Served(command) ==
  \/ Measure(command) \/ ResetCommand(command) \/ StayReady(command)
  \/ AbortCommand(command) \/ Intermediate(command)

Known(command) ==
  \/ state.name = "ready"
  \/ state.name = "measuring" /\ command[1] \in {"a", "i"}

(* No clause of fsm() matches: the process ends, and its end of the pipes  *)
(* is closed.                                                              *)
Crash == state' = In("crashed") /\ timeout' = FALSE /\ NoReply

HandleCommand ==
  /\ ~Crashed /\ rest = <<>> /\ mailbox # <<>>
  /\ mailbox' = Tail(mailbox)
  /\ LET chunk == Head(mailbox) IN
       IF Len(chunk) = 1 /\ Known(chunk[1]) THEN Served(chunk[1]) ELSE Crash
  /\ UNCHANGED <<port, users, toErlang>>

Second ==
  /\ state.name = "measuring" /\ timeout' = TRUE /\ send_reply
  /\ state' = IF state.done = state.total THEN In("reset") ELSE [state EXCEPT !.done = @ + 1]

Booted == state.name = "boot" /\ state' = In("ready") /\ timeout' = FALSE /\ send_reply
Reset == state.name = "reset" /\ state' = In("boot") /\ timeout' = TRUE /\ send_reply

Timeout ==
  /\ ~Crashed /\ rest = <<>> /\ mailbox = <<>> /\ timeout
  /\ Booted \/ Second \/ Reset
  /\ UNCHANGED <<mailbox, port, users, toErlang>>

PortRead ==
  /\ ~Crashed /\ toErlang # <<>>
  /\ mailbox' = Append(mailbox, toErlang) /\ toErlang' = <<>>
  /\ UNCHANGED <<state, timeout, rest, replies, toPort, port, users>>

-----------------------------------------------------------------------------
(* The port program: main_loop().                                          *)
Hung(c) == client[c].socket = "closed"

Ready ==
  (IF toPort # <<>> \/ Crashed THEN {"port"} ELSE {})
    \cup (IF connfd # None /\ (client[connfd].out # <<>> \/ Hung(connfd)) THEN {"conn"} ELSE {})
    \cup (IF backlog # <<>> THEN {"listen"} ELSE {})

Select ==
  /\ at = "select" /\ Ready # {}
  /\ in_fdset' = Ready /\ at' = "port"
  /\ drained' = IF connfd # None /\ Hung(connfd) /\ client[connfd].out = <<>> THEN connfd ELSE None
  /\ UNCHANGED <<connfd, users, erlang, toErlang, toPort>>

Go(next) == at' = next /\ UNCHANGED <<in_fdset, drained>>

Again == at' = "select" /\ in_fdset' = {} /\ drained' = None

Torn(c) ==
  \/ client[c].last # None /\ Head(toPort) # client[c].last + 1
  \/ \E k \in 1 .. Len(toPort) - 1 : toPort[k + 1] # toPort[k] + 1

(* Writing to a client that has hung up, or to an Erlang that has crashed, *)
(* raises a signal nobody catches.                                         *)
port_select_do_io ==
  /\ at = "port"
  /\ \/ "port" \notin in_fdset /\ Go("conn") /\ UNCHANGED <<client, toPort>>
     \/ /\ "port" \in in_fdset /\ toPort # <<>> /\ toPort' = <<>>
        /\ \/ connfd = None /\ Go("conn") /\ UNCHANGED client
           \/ connfd # None /\ Hung(connfd) /\ Go("killed") /\ UNCHANGED client
           \/ /\ connfd # None /\ ~Hung(connfd) /\ Go("conn")
              /\ client' = [client EXCEPT ![connfd].last = toPort[Len(toPort)],
                                          ![connfd].torn = @ \/ Torn(connfd)]
     \/ "port" \in in_fdset /\ toPort = <<>> /\ Go("aborted") /\ UNCHANGED <<client, toPort>>
  /\ UNCHANGED <<connfd, backlog, commands, erlang, toErlang>>

\* Mutant: the connection is closed, but taken for open.
conn_select_do_io_NoFini ==
  /\ at = "conn" /\ Go("listen") /\ UNCHANGED connfd
  /\ \/ /\ "conn" \in in_fdset /\ ~Crashed
        /\ client' = [client EXCEPT ![connfd].out = <<>>]
        /\ toErlang' = toErlang \o client[connfd].out
     \/ "conn" \notin in_fdset /\ UNCHANGED <<client, toErlang>>
  /\ UNCHANGED <<backlog, commands, erlang, toPort>>

conn_select_do_io ==
  /\ at = "conn"
  /\ \/ "conn" \notin in_fdset /\ Go("listen") /\ UNCHANGED <<connfd, client, toErlang>>
     \/ /\ "conn" \in in_fdset /\ client[connfd].out # <<>>
        /\ client' = [client EXCEPT ![connfd].out = <<>>]
        /\ IF Crashed THEN Go("killed") /\ UNCHANGED toErlang
                      ELSE Go("listen") /\ toErlang' = toErlang \o client[connfd].out
        /\ UNCHANGED connfd
     \/ /\ "conn" \in in_fdset /\ client[connfd].out = <<>>
        /\ connfd' = None /\ Go("listen") /\ UNCHANGED <<client, toErlang>>
  /\ UNCHANGED <<backlog, commands, erlang, toPort>>

(* conn_init() asserts that nobody is connected.                           *)
listen_select_do_io ==
  /\ at = "listen"
  /\ \/ "listen" \notin in_fdset /\ Again /\ UNCHANGED <<connfd, backlog>>
     \/ /\ "listen" \in in_fdset /\ backlog' = Tail(backlog)
        /\ IF connfd = None THEN connfd' = Head(backlog) /\ Again
                            ELSE Go("aborted") /\ UNCHANGED connfd
  /\ UNCHANGED <<client, commands, erlang, toErlang, toPort>>

-----------------------------------------------------------------------------
(* The clients.  The socket holds one that has not been accepted.          *)
Connect(c) ==
  /\ client[c].socket = "new" /\ backlog = <<>> /\ \A b \in 1 .. c - 1 : client[b].socket # "new"
  /\ backlog' = <<c>> /\ client' = [client EXCEPT ![c].socket = "open"]
  /\ UNCHANGED <<commands, erlang, port, toErlang, toPort>>

SendCommand(c) ==
  /\ client[c].socket = "open" /\ commands < MaxCommands
  /\ \E command \in Command :
       client' = [client EXCEPT ![c].out = Append(@, command), ![c].asked = replies]
  /\ commands' = commands + 1
  /\ UNCHANGED <<backlog, erlang, port, toErlang, toPort>>

CloseSocket(c) ==
  /\ client[c].socket = "open"
  /\ client' = [client EXCEPT ![c].socket = "closed", ![c].last = None, ![c].asked = -1]
  /\ UNCHANGED <<backlog, commands, erlang, port, toErlang, toPort>>

(* Without the port program nothing is modelled any more.                  *)
ErlangStep == ~Dead /\ (SendRest \/ HandleCommand \/ Timeout \/ PortRead)
PortStep == Select \/ port_select_do_io \/ conn_select_do_io \/ listen_select_do_io
UserStep == ~Dead /\ \E c \in Clients : Connect(c) \/ SendCommand(c) \/ CloseSocket(c)

EmulatorNext == ErlangStep \/ PortStep \/ UserStep

EmulatorSpec == EmulatorInit /\ [][EmulatorNext]_emulatorVars

(* Erlang and the port program run.                                        *)
EmulatorFairSpec == EmulatorSpec /\ WF_emulatorVars(ErlangStep) /\ WF_emulatorVars(PortStep)

-----------------------------------------------------------------------------

(***************************************************************************)
(* What a client receives is what the emulator sent, without a gap, from   *)
(* some half of a frame on.  Clients may follow each other: the port       *)
(* program aborts when it accepts a second one, but one that was gone, its *)
(* last command read, when select() returned is no longer the first.       *)
(***************************************************************************)
ClientsTakeTurns ==
  /\ \A c \in Clients : ~client[c].torn
  /\ at = "aborted" /\ ~Crashed => drained = None

(***************************************************************************)
(* A measurement ends, and the machine is ready again, unless a command    *)
(* ends the process or commands never cease: every intermediate result     *)
(* begins the second anew (FIXME: "Use the proper timeout here"), so that  *)
(* a client asking more often than once a second stops the count.  A       *)
(* command in the middle of a second, or as it elapses, only delays it.    *)
(* (In an instance commands do cease, after MaxCommands.)                  *)
(***************************************************************************)
CommandsCease == <>[][~HandleCommand]_emulatorVars

MeasurementEnds ==
  CommandsCease => (state.name = "measuring" ~> (state.name \in {"ready", "crashed"} \/ Dead))

(***************************************************************************)
(* A client that is connected and stays hears of its command: something    *)
(* the emulator sends later than it, even if it is the boot after a reset, *)
(* or the end of the program.                                              *)
(***************************************************************************)
Heard(c) == client[c].last > 2 * client[c].asked

CommandIsAnswered == []<>(Dead \/ \A c \in Clients : connfd = c => Heard(c) \/ Hung(c))

=============================================================================
