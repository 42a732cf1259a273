---- MODULE Capture ----
(***************************************************************************)
(* How the gateway comes to the values it meters.  PassiveObserver         *)
(* (src/gateway/observer.py) is told of notifications and joins them by    *)
(* their length: one that fills the MTU payload is taken to be continued.  *)
(* TransparentProxy (src/gateway/proxy.py) relays each write to the        *)
(* appliance first and meters it after.  Both hand complete values to one  *)
(* callback, Pipeline.handle, which may raise (what it does is the event   *)
(* of Gateway.tla).                                                        *)
(*                                                                         *)
(* The app sends commands of any number of full parts, with or without a   *)
(* short last one, on several characteristics.  A notification may be      *)
(* missed, the link may drop for good, and the process may be restarted.   *)
(***************************************************************************)
EXTENDS Naturals, Sequences, SequencesExt

CONSTANTS Chars,        \* characteristics
          MaxFull,      \* bound: full parts of a command
          MaxCommands,  \* bound: commands of the app
          MaxRestarts   \* bound: restarts of the process

ASSUME CaptureAssumption ==
    /\ MaxFull \in Nat
    /\ MaxCommands \in Nat
    /\ MaxRestarts \in Nat

VARIABLES way,       \* "observe" or "proxy"
          mtuKnown,  \* does bleak tell the MTU payload of the link?
          command,   \* history: the commands of the app, in order
          air,       \* parts still to be notified on each characteristic
          attached,  \* notifications reach the observer
          buf,       \* the buffer in each characteristic's handler
          writing,   \* commands in forward_from_app
          travelling,  \* writes on their way to the appliance
          handed,    \* history: values handed to the callback
          heard,     \* history: parts a handler got, and no dead process took along
          executed,  \* history: commands that reached the appliance
          failed,    \* history: writes that raised, or whose process died
          restarts   \* history: restarts of the process

observer == <<air, attached, buf, heard>>
proxy == <<writing, travelling, executed, failed>>
vars == <<way, mtuKnown, command, observer, proxy, handed, restarts>>

\* The parts of a command c, the i-th of the app.
Parts(i, c) ==
    [n \in 1..c.full + (IF c.tail THEN 1 ELSE 0) |->
        [command |-> i, part |-> n, full |-> n <= c.full]]

Whole(i) == Parts(i, command[i])

-----------------------------------------------------------------------------
(* The app.                                                                 *)

\* It sends a command: in notifications beside the observer, or in one write,
\* with response or without, through the proxy.
Issue(c) ==
    LET i == Len(command) + 1 IN
    /\ i <= MaxCommands
    /\ command' = Append(command, c)
    /\ \/ /\ way = "observe"
          /\ air[c.char] = <<>>
          /\ air' = [air EXCEPT ![c.char] = Parts(i, c)]
          /\ UNCHANGED <<attached, buf, heard, proxy>>
       \/ /\ way = "proxy"
          /\ writing' = writing \cup {i}
          /\ travelling' = travelling \cup {i}
          /\ UNCHANGED <<observer, executed, failed>>
    /\ UNCHANGED <<way, mtuKnown, handed, restarts>>

-----------------------------------------------------------------------------
(* PassiveObserver.                                                         *)

\* Mutant: the handlers share one buffer.
BufferShared(ch) == CHOOSE c \in Chars : TRUE

\* Every handler closes over a buffer of its own.
Buffer(ch) == ch

\* Mutant: any longer value is continued by what follows.
ContinuedByCount(part) == mtuKnown /\ (part.full \/ part.part > 1)

\* "Probably continued, wait for the tail before matching."
Continued(part) == mtuKnown /\ part.full

\* Mutant: the buffer is not renewed.
LeftoverKept(value) == value

\* The buffer is a new one before the callback runs, and whether or not it raises.
Leftover(value) == <<>>

\* handler, for the next notification of a characteristic.
Notify(ch) ==
    LET part == Head(air[ch])
        value == Append(buf[Buffer(ch)], part)
    IN
    /\ attached
    /\ air[ch] # <<>>
    /\ air' = [air EXCEPT ![ch] = Tail(@)]
    /\ heard' = heard \cup {part}
    /\ \/ /\ Continued(part)
          /\ buf' = [buf EXCEPT ![Buffer(ch)] = value]
          /\ UNCHANGED handed
       \/ /\ ~ Continued(part)
          /\ buf' = [buf EXCEPT ![Buffer(ch)] = Leftover(value)]
          /\ handed' = handed \cup {value}
    /\ UNCHANGED <<way, mtuKnown, command, attached, proxy, restarts>>

\* A notification that is not received.
Miss(ch) ==
    /\ air[ch] # <<>>
    /\ air' = [air EXCEPT ![ch] = Tail(@)]
    /\ UNCHANGED <<way, mtuKnown, command, attached, buf, heard, proxy, handed, restarts>>

\* The link drops.  run() goes on waiting for its stop event and never
\* subscribes again.
Detach ==
    /\ way = "observe"
    /\ attached
    /\ attached' = FALSE
    /\ UNCHANGED <<way, mtuKnown, command, air, buf, heard, proxy, handed, restarts>>

-----------------------------------------------------------------------------
(* TransparentProxy.forward_from_app.                                       *)

\* A write reaches the appliance, perhaps when nobody waits for it any more, or
\* is lost on the way.
Execute(i) ==
    /\ i \in travelling
    /\ travelling' = travelling \ {i}
    /\ executed' \in {executed, executed \cup {i}}
    /\ UNCHANGED <<way, mtuKnown, command, observer, writing, failed, handed, restarts>>

\* Mutant: count first, forward second.
ForwardedFirst(i) == TRUE

\* write_gatt_char has returned: a response has come, or none was asked for.
Forwarded(i) == command[i].response => i \in executed

\* The value is handed over as it was received.
Written(i) ==
    /\ i \in writing
    /\ Forwarded(i)
    /\ writing' = writing \ {i}
    /\ handed' = handed \cup {Whole(i)}
    /\ UNCHANGED <<way, mtuKnown, command, observer, travelling, executed, failed, restarts>>

\* It raises: no response, or no link.  The value is not metered.
WriteFails(i) ==
    /\ i \in writing
    /\ writing' = writing \ {i}
    /\ failed' = failed \cup {i}
    /\ UNCHANGED <<way, mtuKnown, command, observer, travelling, executed, handed, restarts>>

\* The process ends, wherever it is, and the operator starts it again.
Restart ==
    /\ restarts < MaxRestarts
    /\ restarts' = restarts + 1
    /\ attached' = TRUE
    /\ heard' = heard \ UNION {ToSet(buf[ch]) : ch \in Chars}
    /\ buf' = [ch \in Chars |-> <<>>]
    /\ failed' = failed \cup writing
    /\ writing' = {}
    /\ UNCHANGED <<way, mtuKnown, command, air, travelling, executed, handed>>

-----------------------------------------------------------------------------
Init ==
    /\ way \in {"observe", "proxy"}
    /\ mtuKnown \in BOOLEAN
    /\ command = <<>>
    /\ air = [ch \in Chars |-> <<>>]
    /\ attached = TRUE
    /\ buf = [ch \in Chars |-> <<>>]
    /\ writing = {} /\ travelling = {} /\ executed = {} /\ failed = {}
    /\ handed = {} /\ heard = {}
    /\ restarts = 0

\* Notifications have no response, and a write through the proxy has no parts.
Commands ==
    IF way = "observe"
    THEN {c \in [char: Chars, full: 0..MaxFull, tail: BOOLEAN, response: {FALSE}] :
              c.full > 0 \/ c.tail}
    ELSE [char: Chars, full: {0}, tail: {TRUE}, response: BOOLEAN]

Next ==
    \/ \E c \in Commands : Issue(c)
    \/ \E ch \in Chars : Notify(ch) \/ Miss(ch)
    \/ Detach
    \/ \E i \in travelling : Execute(i)
    \/ \E i \in writing : Written(i) \/ WriteFails(i)
    \/ Restart

Spec == Init /\ [][Next]_vars

-----------------------------------------------------------------------------
(* Properties.                                                              *)

\* No part of a command is ever in two values, so that what is missed or held back is "an undercount"
\* (docs/hardware-setup.md) and never a second count (the handler's buf).
PartsCountOnce ==
    \A v, w \in handed : ToSet(v) \cap ToSet(w) # {} => v = w

\* A value is exactly one command as the app sent it, or it can be told why not:
\* one of its commands lost a part, or was a multiple of the MTU payload and was
\* held back for the next one, or the MTU is unknown to bleak.
WholeUnlessMissed ==
    \A v \in handed :
        \/ \E i \in DOMAIN command : v = Whole(i)
        \/ \E part \in ToSet(v) :
              \/ ~ ToSet(Whole(part.command)) \subseteq heard
              \/ ~ command[part.command].tail
        \/ ~ mtuKnown

\* The last part of command i was heard, and it was short.
Closed(i) == command[i].tail /\ Last(Whole(i)) \in heard

\* A command of which every notification was received is handed over whole, if
\* the one before it on its characteristic was closed, whatever other
\* characteristics do in between.
CompleteCommandsAreHanded ==
    mtuKnown => \A i \in DOMAIN command :
        /\ ToSet(Whole(i)) \subseteq heard
        /\ Closed(i)
        /\ \A j \in 1..i - 1 :
              command[j].char = command[i].char
                 /\ (\A k \in j + 1..i - 1 : command[k].char # command[i].char) => Closed(j)
        => Whole(i) \in handed

\* Forward first, count second (proxy.py): what was sent with response is handed
\* over only if the appliance has it, and what the appliance has is handed over
\* unless the write raised or its process died before.
ProxyCountsWhatRan ==
    way = "proxy" => \A i \in DOMAIN command :
        /\ Whole(i) \in handed /\ command[i].response => i \in executed
        /\ i \in executed => i \in writing \cup failed \/ Whole(i) \in handed
====
