---------------------------- MODULE UniqueIds ----------------------------
(***************************************************************************)
(* What pkg/snowflake and pkg/idgen promise their callers, with no word of *)
(* clocks, sequence numbers or locks: "the next unique identifier"         *)
(* (idgen.Generator) and, per instance, identifiers that only grow.        *)
(* Snowflake.tla is shown to implement this specification.                 *)
(***************************************************************************)
EXTENDS Integers

CONSTANTS
    Node,      \* the instances of the cluster
    IdSpace    \* the values an identifier can take

VARIABLES
    issued,    \* every identifier ever handed out, with its issuer
    count      \* how many identifiers each instance has handed out

vars == <<issued, count>>

Init ==
    /\ issued = {}
    /\ count = [n \in Node |-> 0]

\* Instance n hands out id: new in the whole cluster, and larger than
\* everything n handed out before, across restarts of n.
NextID(n, id) ==
    /\ \A r \in issued : r.id # id
    /\ \A r \in issued : r.inst = n => r.id < id
    /\ count' = [count EXCEPT ![n] = @ + 1]
    /\ issued' = issued \cup {[inst |-> n, serial |-> count[n] + 1, id |-> id]}

Next == \E n \in Node, id \in IdSpace : NextID(n, id)

Spec == Init /\ [][Next]_vars

=============================================================================
