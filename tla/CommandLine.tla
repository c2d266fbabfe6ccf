----------------------------- MODULE CommandLine -----------------------------
(* What the program makes of its arguments, the code it exits with, and the *)
(* message by which it hands a command to another instance.                 *)
(* src/desktop/src/app/command_line.cpp, application.cpp, src/main.cpp      *)
(*                                                                          *)
(* A result that may be an error is a set of at most one value.             *)
EXTENDS Integers, Sequences, TLC

Flags ==
    "--help" :> "help" @@ "-h" :> "help" @@ "--version" :> "version" @@ "-v" :> "version" @@
    "--quit" :> "quit" @@ "--hide" :> "hide"
Sinks == {"auto", "null", "alsa", "wasapi", "pulse"}
NoCommand ==
    [help |-> FALSE, version |-> FALSE, play |-> FALSE, enqueue |-> FALSE,
     quit |-> FALSE, hide |-> FALSE, path |-> "", playlist |-> "", sink |-> "auto"]

Accepts(option, value) ==
    \/ option \in {"--play", "--enqueue", "--playlist"} /\ value # ""
    \/ option = "--sink" /\ value \in Sinks
WithAnyPath(c, option, value) ==   \* mutant: the name of the playlist kept as the path
    CASE option = "--play" -> [c EXCEPT !.play = TRUE, !.path = value]
      [] option = "--enqueue" -> [c EXCEPT !.enqueue = TRUE, !.path = value]
      [] option = "--playlist" -> [c EXCEPT !.path = value]
      [] OTHER -> [c EXCEPT !.sink = value]
With(c, option, value) ==
    CASE option = "--play" -> [c EXCEPT !.play = TRUE, !.path = value]
      [] option = "--enqueue" -> [c EXCEPT !.enqueue = TRUE, !.path = value]
      [] option = "--playlist" -> [c EXCEPT !.playlist = value]
      [] OTHER -> [c EXCEPT !.sink = value]

\* A value is whatever follows its option, another option too.
RECURSIVE Options(_, _)
Options(c, args) ==
    IF args = <<>> THEN {c}
    ELSE IF args[1] \in DOMAIN Flags
    THEN Options([c EXCEPT ![Flags[args[1]]] = TRUE], Tail(args))
    ELSE IF Len(args) > 1 /\ Accepts(args[1], args[2])
    THEN Options(With(c, args[1], args[2]), SubSeq(args, 3, Len(args)))
    ELSE {}

Excluded(c) ==
    \/ c.help /\ (c.play \/ c.enqueue \/ c.quit \/ c.hide)
    \/ c.version /\ (c.play \/ c.enqueue \/ c.help \/ c.quit \/ c.hide \/ c.playlist # "")
    \/ (c.play \/ c.enqueue) /\ (c.quit \/ c.hide)
    \/ ~c.play /\ ~c.enqueue /\ c.playlist # "" /\ c.sink # "auto"

ParseCommandLine(args) == {c \in Options(NoCommand, args) : ~Excluded(c)}

-----------------------------------------------------------------------------
(* main()                                                                   *)

ExitOk == 0
ExitStartupFailed == 70
ExitUnavailable == 69
ExitCodeFor(error) ==
    IF error = "Ok" THEN ExitOk
    ELSE IF error \in {"DeviceNotFound", "DeviceInUse", "PermissionDenied", "NetworkDisabled",
                       "NetworkUnreachable"}
    THEN ExitUnavailable ELSE ExitStartupFailed

\* The sink that --play asks the factory for.
Preference(sink) == IF sink \in {"null", "alsa"} THEN sink ELSE "auto"

\* What the program does: [does, exit]. The world says how playing and starting
\* the subsystems end, whether this is a smoke test and what the UI returns:
\* without the UI, ExitUnavailable.
Main(args, world) ==
    LET parsed == ParseCommandLine(args)
        c == CHOOSE x \in parsed : TRUE
        Does(what, exit) == [does |-> what, exit |-> exit]
    IN CASE parsed = {} -> Does("nothing", ExitCodeFor("InvalidArgument"))
         [] parsed # {} /\ (c.help \/ c.version) -> Does("nothing", ExitOk)
         [] parsed # {} /\ ~c.help /\ ~c.version /\ c.play ->
              Does("play", ExitCodeFor(world.play))
         [] OTHER -> IF world.start # "Ok" THEN Does("start", ExitCodeFor(world.start))
                     ELSE Does("start", IF world.smoke THEN ExitOk ELSE world.ui)

-----------------------------------------------------------------------------
(* The message                                                              *)

LengthBytes(n) == [i \in 1 .. 4 |-> (n \div (256 ^ (i - 1))) % 256]
LengthOf(data) == data[2] + 256 * (data[3] + 256 * (data[4] + 256 * data[5]))
SerialiseMessage(msg) == <<msg.tag>> \o LengthBytes(Len(msg.payload)) \o msg.payload

PayloadAnyLength(data) ==   \* mutant: the header not counted
    IF Len(data) >= 5 /\ Len(data) > LengthOf(data) THEN SubSeq(data, 6, Len(data)) ELSE <<>>
Payload(data) ==
    IF Len(data) >= 5 /\ Len(data) >= 5 + LengthOf(data)
    THEN SubSeq(data, 6, 5 + LengthOf(data)) ELSE <<>>
\* An empty message reads as Quit.
Quit == 5
DeserialiseMessage(data) ==
    IF data = <<>> THEN [tag |-> Quit, payload |-> <<>>]
    ELSE [tag |-> data[1], payload |-> Payload(data)]

-----------------------------------------------------------------------------

\* The options of a line may come in any order, where none is given twice and
\* only one of --play and --enqueue: a value is never read as anything but
\* the value of its own option, and what the program does is the same. A line
\* with --help or --version never plays, starts or stops anything, one that
\* plays never starts the subsystems, and only a command that did what it
\* said exits with 0. Whether a line of a --sink alone is a command is left
\* open: see README.md.
CommandsMeanTheSame(groups, world) ==
    LET Flat(gs) == IF Len(gs) = 0 THEN <<>> ELSE IF Len(gs) = 1 THEN gs[1]
                    ELSE IF Len(gs) = 2 THEN gs[1] \o gs[2] ELSE gs[1] \o gs[2] \o gs[3]
        Turned == [i \in DOMAIN groups |-> groups[Len(groups) + 1 - i]]
        Keys == [i \in DOMAIN groups |-> IF groups[i][1] = "--enqueue" THEN "--play" ELSE groups[i][1]]
        Named(n) == \E i \in DOMAIN groups : groups[i][1] \in n
        done == Main(Flat(groups), world)
    IN /\ (\A i, j \in DOMAIN Keys : Keys[i] = Keys[j] => i = j) =>
            /\ ParseCommandLine(Flat(Turned)) = ParseCommandLine(Flat(groups))
            /\ Main(Flat(Turned), world) = done
       /\ Named({"--help", "-h", "--version"}) => done.does = "nothing"
       /\ done.does = "play" => Named({"--play"}) /\ (done.exit = ExitOk <=> world.play = "Ok")
       /\ done.does = "start" => ~Named({"--play"}) /\ (done.exit = ExitOk => world.start = "Ok")

\* A message comes through as it was sent; one that is cut short keeps at most
\* its tag, never a part of its payload.
MessagesComeWhole(msg) ==
    LET data == SerialiseMessage(msg)
    IN \A n \in 0 .. Len(data) :
        LET got == DeserialiseMessage(SubSeq(data, 1, n))
        IN /\ n = Len(data) => got = msg
           /\ got.payload \in {<<>>, msg.payload}
           /\ n > 0 => got.tag = msg.tag
==============================================================================
