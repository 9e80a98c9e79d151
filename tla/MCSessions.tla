----------------------------- MODULE MCSessions -----------------------------
(***************************************************************************)
(* Sessions: SSH sessions that share transports, and telnet with its       *)
(* negotiation and automatic login. A behaviour is one of one of these, so *)
(* the run explores one after the other; the SSH sessions are this         *)
(* module's own variables and constants, and rest while another instance   *)
(* runs.                                                                   *)
(***************************************************************************)
EXTENDS SshSession, TLC

VARIABLES
  which,  \* the instance that a behaviour is one of
  \* its variables, in the order of its module
  v1, v2, v3, v4, v5, v6, v7, v8, v9, v10, v11, v12, v13, v14, v15, v16, v17, v18

Prompts == {"user", "pass", "cmd", "cont", "last"}

Negotiation == INSTANCE TelnetSession WITH
  Options <- {"NAWS", "ECHO"}, Lines <- {}, MaxAsks <- 3, MaxTexts <- 0, MaxInputs <- 0,
  MaxResizes <- 2, MaxFrame <- 2, OutCapacity <- 4, CmdCapacity <- 1, Username <- FALSE,
  Password <- FALSE, Startup <- FALSE, actor <- v1, stop <- v2, listens <- v3,
  commands <- v4, codec <- v5, login <- v6, late <- v7, busy <- v8, toPeer <- v9,
  toUs <- v10, peer <- v11, shown <- v12, read <- v13, wrote <- v14, dropped <- v15,
  asks <- v16, texts <- v17, inputs <- v18
TypeAndOther == INSTANCE TelnetSession WITH
  Options <- {"TTYPE", "OTHER"}, Lines <- {}, MaxAsks <- 4, MaxTexts <- 0, MaxInputs <- 0,
  MaxResizes <- 0, MaxFrame <- 2, OutCapacity <- 4, CmdCapacity <- 1, Username <- FALSE,
  Password <- FALSE, Startup <- FALSE, actor <- v1, stop <- v2, listens <- v3,
  commands <- v4, codec <- v5, login <- v6, late <- v7, busy <- v8, toPeer <- v9,
  toUs <- v10, peer <- v11, shown <- v12, read <- v13, wrote <- v14, dropped <- v15,
  asks <- v16, texts <- v17, inputs <- v18
Echo == INSTANCE TelnetSession WITH
  Options <- {"ECHO"}, Lines <- {"text"}, MaxAsks <- 3, MaxTexts <- 2, MaxInputs <- 1,
  MaxResizes <- 0, MaxFrame <- 3, OutCapacity <- 2, CmdCapacity <- 1, Username <- FALSE,
  Password <- FALSE, Startup <- FALSE, actor <- v1, stop <- v2, listens <- v3,
  commands <- v4, codec <- v5, login <- v6, late <- v7, busy <- v8, toPeer <- v9,
  toUs <- v10, peer <- v11, shown <- v12, read <- v13, wrote <- v14, dropped <- v15,
  asks <- v16, texts <- v17, inputs <- v18
Login == INSTANCE TelnetSession WITH
  Options <- {}, Lines <- Prompts, MaxAsks <- 0, MaxTexts <- 3, MaxInputs <- 1,
  MaxResizes <- 0, MaxFrame <- 2, OutCapacity <- 2, CmdCapacity <- 1, Username <- TRUE,
  Password <- TRUE, Startup <- TRUE, actor <- v1, stop <- v2, listens <- v3, commands <- v4,
  codec <- v5, login <- v6, late <- v7, busy <- v8, toPeer <- v9, toUs <- v10, peer <- v11,
  shown <- v12, read <- v13, wrote <- v14, dropped <- v15, asks <- v16, texts <- v17,
  inputs <- v18

ASSUME InstancesAreSound ==
  /\ SessionAssumption
  /\ Negotiation!TelnetSessionAssumption
  /\ TypeAndOther!TelnetSessionAssumption
  /\ Echo!TelnetSessionAssumption
  /\ Login!TelnetSessionAssumption
  /\ Negotiation!TelnetCodecAssumption
  /\ TypeAndOther!TelnetCodecAssumption
  /\ Echo!TelnetCodecAssumption
  /\ Login!TelnetCodecAssumption

instanceVars ==
  <<v1, v2, v3, v4, v5, v6, v7, v8, v9, v10, v11, v12, v13, v14, v15, v16, v17, v18>>

\* The SSH sessions use none of them.
Unused ==
  /\ v1 = "" /\ v2 = "" /\ v3 = "" /\ v4 = "" /\ v5 = "" /\ v6 = "" /\ v7 = "" /\ v8 = ""
  /\ v9 = "" /\ v10 = "" /\ v11 = "" /\ v12 = "" /\ v13 = "" /\ v14 = "" /\ v15 = ""
  /\ v16 = "" /\ v17 = "" /\ v18 = ""

SuiteInit ==
  /\ Init
  /\ \/ which = "ssh" /\ Unused
     \/ which = "negotiation" /\ Negotiation!Init
     \/ which = "options" /\ TypeAndOther!Init
     \/ which = "echo" /\ Echo!Init
     \/ which = "login" /\ Login!Init

\* A step of the instance x.
Moves(x) == which = x /\ UNCHANGED <<which, vars>>

SuiteNext ==
  \/ which = "ssh" /\ Next /\ UNCHANGED <<which, instanceVars>>
  \/ Moves("negotiation") /\ Negotiation!Next
  \/ Moves("options") /\ TypeAndOther!Next
  \/ Moves("echo") /\ Echo!Next
  \/ Moves("login") /\ Login!Next

SuiteSpec == SuiteInit /\ [][SuiteNext]_<<which, vars, instanceVars>>

Symmetry == Permutations(Sessions)

-----------------------------------------------------------------------------
\* When no negotiation is under way both ends of a telnet connection agree on
\* every option, also when offers cross; a peer that accepted the window size
\* knows the size the terminal has; and the terminal gets the text of a read
\* after it was told of the echo that the read brought.
Agreement ==
  /\ which = "negotiation" => 
       /\ Negotiation!TypeOK
       /\ Negotiation!Agreement
       /\ Negotiation!SizeKnown
  /\ which = "echo" => 
       /\ Echo!TypeOK
       /\ Echo!Agreement
       /\ Echo!TerminalIsTold
  /\ which = "options" => TypeAndOther!Agreement

\* The automatic login keeps to its order and its time: each of its lines is
\* written once, the startup command only after something of the login, nothing
\* once the user has typed, and after the deadline no name, password or command
\* is sent to a prompt that comes too late.
NoLateLogin ==
  [][which = "login" => Login!NoLateLoginStep /\ Login!LoginOrder']_<<which, vars, instanceVars>>

=============================================================================
