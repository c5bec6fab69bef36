---------------------------- MODULE CommandRelay ----------------------------
(***************************************************************************)
(* What the brain may rely on when it hands commands to the gateway: the   *)
(* commands of an assembly reach the bus in the order in which they were   *)
(* issued, each once and none left out, until the assembly is cut off;     *)
(* from then on none does.  Nothing is promised between assemblies.        *)
(***************************************************************************)
EXTENDS Naturals, Sequences

CONSTANTS Assembly,     \* the assemblies commands are for
          Kind,         \* the kinds of commands
          AssemblyOf(_) \* the assembly a kind is for

VARIABLES issued,    \* the kinds of the commands issued, in their order
          delivered, \* for each assembly, the commands that reached the bus
          cutOff     \* the assemblies that are cut off

vars == <<issued, delivered, cutOff>>

\* A command is its place in `issued`.  The last one of assembly a delivered.
LastDelivered(a) ==
    IF delivered[a] = << >> THEN 0 ELSE delivered[a][Len(delivered[a])]

IsNext(a, n) ==
    /\ n \in 1..Len(issued)
    /\ AssemblyOf(issued[n]) = a
    /\ n > LastDelivered(a)
    /\ \A m \in 1..Len(issued) :
          LastDelivered(a) < m /\ m < n => AssemblyOf(issued[m]) # a

Issue(kind) ==
    /\ issued' = Append(issued, kind)
    /\ UNCHANGED <<delivered, cutOff>>

Deliver(a, n) ==
    /\ a \notin cutOff
    /\ IsNext(a, n)
    /\ delivered' = [delivered EXCEPT ![a] = Append(@, n)]
    /\ UNCHANGED <<issued, cutOff>>

CutOff(a) ==
    /\ cutOff' = cutOff \cup {a}
    /\ UNCHANGED <<issued, delivered>>

Init ==
    /\ issued = << >>
    /\ delivered = [a \in Assembly |-> << >>]
    /\ cutOff = {}

Next ==
    \/ \E kind \in Kind : Issue(kind)
    \/ \E a \in Assembly : \E n \in 1..Len(issued) : Deliver(a, n)
    \/ \E a \in Assembly : CutOff(a)

Spec == Init /\ [][Next]_vars
=============================================================================
