-------------------------- MODULE MCServerProcess --------------------------
EXTENDS ServerProcess, ServerConfig, TLC

Opt(key, value) == [key |-> key, value |-> value]
Entry(key, value) == [kind |-> "entry", key |-> key, value |-> value]
Blank == [kind |-> "blank", key |-> "", value |-> ""]
Bare == [kind |-> "bare", key |-> "", value |-> ""]

MCNumber == "0" :> 0 @@ "1" :> 1 @@ "3" :> 3 @@ "4" :> 4 @@ "9" :> 9

D == Opt("-d", NoValue)
SoundOpts ==
    {<<>>, <<D>>, <<Opt("-p", "4")>>, <<D, Opt("-p", "4"), Opt("-p", "3")>>,
     <<Opt("-c", "other")>>, <<D, Opt("-c", "none"), Opt("-c", "other"), Opt("-p", "4")>>,
     <<Opt("-c", "-p"), D>>}
UnsoundOpts ==
    {<<Opt("-p", NoValue)>>, <<D, Opt("-p", "1")>>, <<Opt("-p", "9")>>, <<Opt("-p", "x")>>,
     <<D, Opt("-c", NoValue)>>, <<Opt("-c", "")>>, <<Opt("-x", NoValue)>>,
     <<D, Opt("-h", NoValue), Opt("-x", NoValue)>>}

SoundText ==
    {<<>>, <<Blank, Entry("port", "3")>>,
     <<Entry("port", "3"), Entry("port", "4"), Entry("chunk_size", "4")>>,
     <<Entry("snd_buf_size", "4"), Entry("snd_buf_size", "0"), Entry("log_path", "x")>>}
UnsoundText ==
    {<<Entry("port", "3"), Bare>>, <<Entry("", "3")>>, <<Entry("port", "")>>,
     <<Entry("port", "1")>>, <<Entry("chunk_size", "0")>>, <<Entry("snd_buf_size", "9")>>,
     <<Entry("prot", "4")>>,
     <<Entry("port", "4 # the port")>>}   \* a comment behind a value is part of it

Files(text) == {"./server.conf" :> text, "other" :> text, "-p" :> text}

\* sound: every option and every line of the file that is read is in order.
MCStarts ==
    {[opts |-> o, files |-> f, sound |-> TRUE] : o \in SoundOpts, f \in UNION {Files(t) : t \in SoundText}}
    \cup {[opts |-> o, files |-> f, sound |-> FALSE] :
            o \in UnsoundOpts, f \in UNION {Files(t) : t \in SoundText}}
    \cup {[opts |-> o, files |-> "./server.conf" :> t, sound |-> FALSE] :
            o \in {<<>>, <<D, Opt("-p", "4")>>}, t \in UnsoundText}

\* Evaluated once, whereas the definition put for a constant is evaluated at every use.
AllConfigurations == {Configured(start) : start \in MCStarts}
MCConfigurations == AllConfigurations
=============================================================================
