------------------------------- MODULE Telnet -------------------------------
(***************************************************************************)
(* PTelnetSocket (ptclib/telnet.cxx): two ends that negotiate an option    *)
(* while one of them writes data.  The option is TransmitBinary, the one   *)
(* that decides how data is written (a CR is followed by a NUL unless the  *)
(* writer is in binary mode) and read (the byte after a CR is dropped when *)
(* it is a NUL, unless the writer is known to be in binary mode).  The     *)
(* wires carry bytes; the code of TransmitBinary is the byte NUL.          *)
(*                                                                         *)
(* A command is one Write of the TCP socket, a CR or an IAC of the data    *)
(* is two of them.  With OneThread an end reads only between the calls of  *)
(* Write; without it the thread that reads answers commands at any time.   *)
(***************************************************************************)
EXTENDS Naturals, Sequences, SequencesExt, FiniteSets

CONSTANTS Writer, Reader,    \* the two ends, named for the data
          Willing,           \* the ends that SetOurOption and SetTheirOption
          OneThread,
          MaxAsks, MaxWrites \* bounds on what the application asks for

EndsAssumption == Writer # Reader

Ends      == {Writer, Reader}
Peer(e)   == IF e = Writer THEN Reader ELSE Writer
Data      == {"x", "CR", "NUL", "IAC"}
Requests  == {"DO", "DONT", "WILL", "WONT"}
Option    == {"IsNo", "IsYes", "WantNo", "WantNoQueued", "WantYes", "WantYesQueued"}

VARIABLES ourState, theirState,   \* OptionInfo::ourState, theirState of TransmitBinary
          state,                  \* m_state of each end
          wire,                   \* the bytes on their way to each end
          second,                 \* what Write has still to send of its byte
          written, received,      \* the data of the application
          asked                   \* the calls of SendDo .. SendWont made so far, each with
                                  \* the state it found

telnetVars == <<ourState, theirState, state, wire, second, written, received, asked>>

TelnetInit == /\ ourState   = [e \in Ends |-> "IsNo"]
              /\ theirState = [e \in Ends |-> "IsNo"]
              /\ state = [e \in Ends |-> "Normal"]
              /\ wire  = [e \in Ends |-> << >>]
              /\ second = << >> /\ written = << >> /\ received = << >>
              /\ asked = << >>

-----------------------------------------------------------------------------
(* The negotiation.  Each side of an option is the same automaton: ourState *)
(* driven by WILL and WONT of ours and DO and DONT of theirs, theirState    *)
(* with the two pairs exchanged.  An automaton's answer is the new state    *)
(* and the command to send, << >> for none.                                 *)

\* SendWill, SendDo: ask that the option be enabled.
AskYes(s, yes) ==
  CASE s = "IsNo"          -> <<"WantYes", <<yes>>>>
    [] s = "WantNo"        -> <<"WantNoQueued", << >>>>
    [] s = "WantYesQueued" -> <<"WantYes", << >>>>
    [] s = "IsYes"         -> <<"IsYes", << >>>>
    [] OTHER               -> <<"IsNo", << >>>>      \* WantYes, WantNoQueued

\* SendWont, SendDont: ask that it be disabled.
AskNo(s, no) ==
  CASE s = "IsYes"         -> <<"WantNo", <<no>>>>
    [] s = "WantYes"       -> <<"WantYesQueued", << >>>>
    [] s = "WantNoQueued"  -> <<"WantNo", << >>>>
    [] s = "WantYesQueued" -> <<"IsYes", << >>>>
    [] OTHER               -> <<"IsNo", << >>>>      \* IsNo, WantNo

\* OnDo, OnWill: the other end enables it.
OnYes(s, willing, yes, no) ==
  CASE s = "IsNo" /\ willing  -> <<"IsYes", <<yes>>>>
    [] s = "IsNo" /\ ~willing -> <<"IsNo", <<no>>>>
    [] s = "WantNo"           -> <<"IsNo", << >>>>
    [] s = "WantYesQueued"    -> <<"WantNo", <<no>>>>
    [] OTHER                  -> <<"IsYes", << >>>>

\* OnDont, OnWont: the other end disables it.  Both send DO for a queued
\* request, OnDont too, where it is our side that was to be enabled.
OnNo(s, no) ==
  CASE s = "IsYes"        -> <<"IsNo", <<no>>>>
    [] s = "WantNoQueued" -> <<"WantYes", <<"DO">>>>
    [] OTHER              -> <<"IsNo", << >>>>

\* The command goes out before the state changes.  The end does not read in between
\* when it has one thread, so that the two are one step here.
Asking(e, c) ==
  CASE c = "WILL" -> AskYes(ourState[e], "WILL")
    [] c = "WONT" -> AskNo(ourState[e], "WONT")
    [] c = "DO"   -> AskYes(theirState[e], "DO")
    [] c = "DONT" -> AskNo(theirState[e], "DONT")

Answering(e, c) ==
  CASE c = "DO"   -> OnYes(ourState[e], e \in Willing, "WILL", "WONT")
    [] c = "DONT" -> OnNo(ourState[e], "WONT")
    [] c = "WILL" -> OnYes(theirState[e], e \in Willing, "DO", "DONT")
    [] c = "WONT" -> OnNo(theirState[e], "DONT")

\* SendCommand: one Write of three bytes.  No handler sends more than one command.
Sent(commands, option) == IF commands = << >> THEN << >> ELSE <<"IAC", commands[1], option>>

SetOption(e, ours, new) ==
  /\ ourState'   = IF ours THEN [ourState EXCEPT ![e] = new] ELSE ourState
  /\ theirState' = IF ours THEN theirState ELSE [theirState EXCEPT ![e] = new]

-----------------------------------------------------------------------------
(* Reading: PTelnetSocket::Read looks at one byte.                          *)

Deliver(e, b) == received' = IF e = Reader THEN Append(received, b) ELSE received
Keep          == UNCHANGED <<ourState, theirState>>
Take(e)       == wire' = [wire EXCEPT ![e] = Tail(@)]

\* A reader that takes out the NUL after a CR in binary mode too.
MutReadData(e, b) ==
  /\ state[e] \in {"Normal", "CarriageReturn"} /\ <<state[e], b>> # <<"CarriageReturn", "NUL">>
  /\ state' = [state EXCEPT ![e] =
        IF b = "IAC" THEN "IAC" ELSE IF b = "CR" THEN "CarriageReturn" ELSE "Normal"]
  /\ IF b = "IAC" THEN UNCHANGED received ELSE Deliver(e, b)
  /\ Take(e) /\ Keep

\* StateNormal, and StateCarriageReturn when its byte is not the NUL dropped.
ReadData(e, b) ==
  /\ state[e] \in {"Normal", "CarriageReturn"} /\ <<state[e], b>> # <<"CarriageReturn", "NUL">>
  /\ state' = [state EXCEPT ![e] =
        IF b = "IAC" THEN "IAC"
        ELSE IF b = "CR" /\ theirState[e] # "IsYes" THEN "CarriageReturn" ELSE "Normal"]
  /\ IF b = "IAC" THEN UNCHANGED received ELSE Deliver(e, b)
  /\ Take(e) /\ Keep

DropNull(e, b) ==
  /\ state[e] = "CarriageReturn" /\ b = "NUL"
  /\ state' = [state EXCEPT ![e] = "Normal"]
  /\ Take(e) /\ Keep /\ UNCHANGED received

\* StateIAC: an escaped IAC, a command with an option to follow, or one that
\* OnCommand ignores.
ReadAfterIAC(e, b) ==
  /\ state[e] = "IAC"
  /\ state' = [state EXCEPT ![e] = IF b \in Requests THEN b ELSE "Normal"]
  /\ IF b = "IAC" THEN Deliver(e, b) ELSE UNCHANGED received
  /\ Take(e) /\ Keep

\* StateDo .. StateWont: OnDo, OnDont, OnWill or OnWont for the option b names;
\* an option other than TransmitBinary is one this end neither can nor wants.
ReadOption(e, b) ==
  LET c == state[e]
      answer == IF b = "NUL" THEN Answering(e, c)
                ELSE <<"none", CASE c = "DO" -> <<"WONT">> [] c = "WILL" -> <<"DONT">>
                                 [] OTHER -> << >> >>
  IN /\ c \in Requests
     /\ state' = [state EXCEPT ![e] = "Normal"]
     /\ IF b = "NUL" THEN SetOption(e, c \in {"DO", "DONT"}, answer[1]) ELSE Keep
     /\ wire' = [wire EXCEPT ![e] = Tail(@),
                                  ![Peer(e)] = @ \o Sent(answer[2], b)]
     /\ UNCHANGED received

ReadByte(e) ==
  /\ wire[e] # << >>
  /\ (OneThread /\ e = Writer) => second = << >>
  /\ LET b == Head(wire[e]) IN
       ReadData(e, b) \/ DropNull(e, b) \/ ReadAfterIAC(e, b) \/ ReadOption(e, b)
  /\ UNCHANGED <<second, written, asked>>

-----------------------------------------------------------------------------
(* The application.                                                         *)

Ask(e, c) ==
  LET ours == c \in {"WILL", "WONT"}
      answer == Asking(e, c)
  IN /\ Len(asked) < MaxAsks
     /\ (OneThread /\ e = Writer) => second = << >>
     /\ SetOption(e, ours, answer[1])
     /\ wire' = [wire EXCEPT ![Peer(e)] = @ \o Sent(answer[2], "NUL")]
     /\ asked' = Append(asked, [by |-> e, what |-> c,
                                found |-> IF ours THEN ourState[e] ELSE theirState[e]])
     /\ UNCHANGED <<state, second, written, received>>

\* Write of one byte: a CR that is not in binary mode and an IAC are sent as two.
Write(b) ==
  /\ second = << >> /\ Len(written) < MaxWrites
  /\ second' = IF b = "IAC" THEN <<"IAC">>
               ELSE IF b = "CR" /\ ourState[Writer] # "IsYes" THEN <<"NUL">> ELSE << >>
  /\ written' = Append(written, b)
  /\ wire' = [wire EXCEPT ![Reader] = Append(@, b)]
  /\ UNCHANGED <<ourState, theirState, state, received, asked>>

WriteSecond ==
  /\ second # << >>
  /\ wire' = [wire EXCEPT ![Reader] = @ \o second]
  /\ second' = << >>
  /\ UNCHANGED <<ourState, theirState, state, written, received, asked>>

TelnetNext == \/ \E e \in Ends : ReadByte(e) \/ \E c \in Requests : Ask(e, c)
              \/ \E b \in Data : Write(b)
              \/ WriteSecond

TelnetFairness == (\A e \in Ends : WF_telnetVars(ReadByte(e))) /\ WF_telnetVars(WriteSecond)

TelnetSpec == TelnetInit /\ [][TelnetNext]_telnetVars /\ TelnetFairness

-----------------------------------------------------------------------------
TypeOK == /\ ourState \in [Ends -> Option] /\ theirState \in [Ends -> Option]
          /\ state \in [Ends -> {"Normal", "CarriageReturn", "IAC"} \cup Requests]
          /\ wire \in [Ends -> Seq(Data \cup Requests)]

Quiet == second = << >> /\ \A e \in Ends : wire[e] = << >>

\* What is read is what was written, in order and no byte more or less: an IAC of
\* the data is escaped, a NUL added to a CR is taken out again.
DataIntact == IsPrefix(received, written) /\ (Quiet => received = written)

\* Who asks decides whether the two ends change over at the same byte: a reader
\* that asks to enable and a writer that asks to disable leave the change to the
\* end whose command travels with the data.
InStep == \A i \in DOMAIN asked : <<asked[i].by, asked[i].what>> \in {<<Reader, "DO">>, <<Writer, "WONT">>}

\* The data is intact as long as the mode is changed by those two.
IntactInStep == InStep => DataIntact

\* A request to enable made while a request to disable was unanswered: OnDont
\* answers it for the wrong side (telnet.cxx:739).
Requeued == \E i \in DOMAIN asked : asked[i].what = "WILL" /\ asked[i].found = "WantNo"

\* When nothing is on its way no end still waits for an answer, and the two ends
\* have the same idea of each side of the option.
QuietIsAgreed ==
  (Quiet /\ ~Requeued) =>
     \A e \in Ends : /\ ourState[e] \in {"IsNo", "IsYes"} /\ theirState[e] \in {"IsNo", "IsYes"}
                     /\ ourState[e] = theirState[Peer(e)]

\* A request repeated while it is negotiated: the state forgets that an answer
\* is due (telnet.cxx:306).
Repeated == \E i \in DOMAIN asked :
  asked[i].found \in IF asked[i].what \in {"DO", "WILL"} THEN {"WantYes", "WantNoQueued"}
                                                      ELSE {"WantNo", "WantYesQueued"}

\* The ends do not answer each other for ever.
NegotiationEnds == ~Quiet ~> (Quiet \/ Repeated)
=============================================================================
