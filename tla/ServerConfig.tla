---------------------------- MODULE ServerConfig ----------------------------
(* server/src/app/ServerConfig.cpp: the command line, the configuration file *)
(* and the configuration built from both, as main() uses them.  A token is a string; Number says  *)
(* which tokens are decimal numbers and what they denote.  A line of the     *)
(* file is what trim() and find('=') make of it: blank or a comment, without *)
(* a separator, or a key and a value, each possibly empty.                   *)
EXTENDS Integers, SequencesExt

CONSTANTS Number,                               \* numeric tokens -> Nat
          kDefaultPort, kMinPort, kMaxPort,
          kMinChunkSize, kMaxChunkSize, kDefaultChunkSize,
          kMinSendBufferSize, kMaxSendBufferSize,
          NoValue

ASSUME ServerConfigAssumption ==
    /\ kDefaultPort \in kMinPort..kMaxPort
    /\ kDefaultChunkSize \in kMinChunkSize..kMaxChunkSize
    /\ 0 < kMinSendBufferSize /\ kMinSendBufferSize <= kMaxSendBufferSize

Defaults == [port |-> kDefaultPort, daemonize |-> FALSE, chunkSize |-> kDefaultChunkSize,
             sendBufferSize |-> 0, logPath |-> "./server.log"]

CommandLine == [configPath |-> "./server.conf", daemonize |-> FALSE, hasPort |-> FALSE,
                port |-> 0, helpRequested |-> FALSE]

Fail(out) == [ok |-> FALSE, out |-> out]
Good(out) == [ok |-> TRUE, out |-> out]

validPort(value) == value \in DOMAIN Number /\ Number[value] \in kMinPort..kMaxPort

applyPort(value, out) ==
    IF validPort(value) THEN Good([out EXCEPT !.port = Number[value]]) ELSE Fail(out)

\* allowZero: 0 leaves the size to the kernel.
validSize(value, min, max, allowZero) ==
    /\ value \in DOMAIN Number
    /\ Number[value] \in min..max \/ (allowZero /\ Number[value] = 0)

-----------------------------------------------------------------------------
\* parseCommandLine(): the arguments from position i on.
RECURSIVE parseArguments(_, _, _)
parseArguments(argv, i, out) ==
    LET hasValue == i < Len(argv)
        port == applyPort(argv[i + 1], out)
    IN  CASE i > Len(argv) -> Good(out)
          [] i <= Len(argv) /\ argv[i] \in {"-h", "--help"} ->
                Good([out EXCEPT !.helpRequested = TRUE])
          [] i <= Len(argv) /\ argv[i] = "-d" ->
                parseArguments(argv, i + 1, [out EXCEPT !.daemonize = TRUE])
          [] i <= Len(argv) /\ argv[i] = "-p" ->
                IF ~hasValue \/ ~port.ok THEN Fail(out)
                ELSE parseArguments(argv, i + 2, [port.out EXCEPT !.hasPort = TRUE])
          [] i <= Len(argv) /\ argv[i] = "-c" ->
                IF ~hasValue \/ argv[i + 1] = "" THEN Fail(out)
                ELSE parseArguments(argv, i + 2, [out EXCEPT !.configPath = argv[i + 1]])
          [] OTHER -> Fail(out)

parseCommandLine(argv) == parseArguments(argv, 1, CommandLine)

applyEntry(key, value, out) ==
    CASE key = "port" -> applyPort(value, out)
      [] key = "chunk_size" /\ validSize(value, kMinChunkSize, kMaxChunkSize, FALSE) ->
            Good([out EXCEPT !.chunkSize = Number[value]])
      [] key = "snd_buf_size" /\ validSize(value, kMinSendBufferSize, kMaxSendBufferSize, TRUE) ->
            Good([out EXCEPT !.sendBufferSize = Number[value]])
      [] key = "log_path" -> Good([out EXCEPT !.logPath = value])
      [] OTHER -> Fail(out)

\* parseConfigText(): line by line, up to the first that is wrong.
RECURSIVE parseConfigText(_, _)
parseConfigText(text, out) ==
    IF text = <<>> THEN Good(out)
    ELSE LET line == Head(text)
             applied == applyEntry(line.key, line.value, out)
         IN  CASE line.kind = "blank" -> parseConfigText(Tail(text), out)
               [] line.kind = "entry" /\ line.key # "" /\ line.value # "" /\ applied.ok ->
                     parseConfigText(Tail(text), applied.out)
               [] OTHER -> Fail(out)

\* Faulty variant: the file has the last word.
buildConfigFileLast(cli, files) ==
    LET given == [Defaults EXCEPT !.daemonize = cli.daemonize,
                                  !.port = IF cli.hasPort THEN cli.port ELSE @]
    IN  IF cli.configPath \in DOMAIN files
        THEN parseConfigText(files[cli.configPath], given) ELSE Good(given)

\* files: the files that can be opened, and their lines.
buildConfig(cli, files) ==
    LET read == IF cli.configPath \in DOMAIN files
                THEN parseConfigText(files[cli.configPath], Defaults) ELSE Good(Defaults)
    IN  IF ~read.ok THEN read
        ELSE Good([read.out EXCEPT !.daemonize = cli.daemonize,
                                   !.port = IF cli.hasPort THEN cli.port ELSE @])
-----------------------------------------------------------------------------
(* main(), from its arguments to the configuration that is served. *)

\* Reference: what the options and the file ask for.
LastValue(options, key, default) ==
    LET i == SelectLastInSeq(options, LAMBDA o : o.key = key)
    IN  IF i = 0 THEN default ELSE options[i].value

Argv(opts) ==
    FlattenSeq([i \in DOMAIN opts |-> IF opts[i].value = NoValue THEN <<opts[i].key>>
                                      ELSE <<opts[i].key, opts[i].value>>])

Asked(start) ==
    LET path == LastValue(start.opts, "-c", "./server.conf")
        file == IF path \in DOMAIN start.files THEN start.files[path] ELSE <<>>
        filePort == LastValue(file, "port", NoValue)
        port == LastValue(start.opts, "-p", filePort)
        chunk == LastValue(file, "chunk_size", NoValue)
        send == LastValue(file, "snd_buf_size", NoValue)
    IN  [port |-> IF port = NoValue THEN kDefaultPort ELSE Number[port],
         daemonize |-> \E i \in DOMAIN start.opts : start.opts[i].key = "-d",
         chunkSize |-> IF chunk = NoValue THEN kDefaultChunkSize ELSE Number[chunk],
         sendBufferSize |-> IF send = NoValue THEN 0 ELSE Number[send],
         logPath |-> LastValue(file, "log_path", "./server.log")]

\* What main() makes of its arguments; asAsked compares that with the reference.
Configured(start) ==
    LET cli    == parseCommandLine(Argv(start.opts))
        config == buildConfig(cli.out, start.files)
    IN  IF ~cli.ok \/ cli.out.helpRequested \/ ~config.ok
        THEN [pc |-> "exited", port |-> NoValue, daemonize |-> FALSE, asAsked |-> ~start.sound]
        ELSE [pc |-> IF config.out.daemonize THEN "daemonize" ELSE "term",
              port |-> config.out.port,
              daemonize |-> config.out.daemonize,
              asAsked |-> start.sound /\ config.out = Asked(start)]
=============================================================================
