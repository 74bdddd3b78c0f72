---------------------------- MODULE RBACRecorder ----------------------------
(***************************************************************************)
(* The recording client (rbac/client): a rule is appended to one of two    *)
(* roles for every call before the call is made, an error to a third       *)
(* slice, and Result merges the rules of each role by resource.  Neither   *)
(* the appends nor Result are synchronised: a slice is read, and written   *)
(* later.  A rule is [resource, verbs]; the group is part of the resource, *)
(* and the verbs are a sequence without repetitions.  An error is the rule *)
(* it was met with.                                                        *)
(***************************************************************************)
EXTENDS Integers, Sequences

VARIABLES
    recorded,   \* the Client's slices: both roles' rules, and the errors
    copy,       \* the slice a goroutine has read and is to write
    raced,      \* history: two goroutines were at one slice at a time
    made        \* history: permissions of the calls that were recorded

recorder == <<recorded, copy, raced, made>>

Roles == {"Role", "ClusterRole"}
Slices == Roles \cup {"errors"}

NoCopy == [slice |-> "none", rules |-> <<>>]

\* meta.UnsafeGuessKindToResource: the plural of the kind.  The kind of a list
\* is another kind than that of its objects.
UnsafeGuessKindToResource(kind) ==
    IF kind = "GameList" THEN "gamelists" ELSE "games"

ruleOfKind(kind, verb, status) ==
    [resource |-> IF status THEN "games/status" ELSE kind, verbs |-> <<verb>>]

rule(kind, verb, status) ==
    [resource |-> IF status THEN "games/status"
                  ELSE UnsafeGuessKindToResource(kind),
     verbs |-> <<verb>>]

contains(s, e) == \E i \in DOMAIN s : s[i] = e

\* One verb added to a rule; one rule merged into the merged ones.
AddVerb(r, verb) ==
    IF contains(r.verbs, verb) THEN r ELSE [r EXCEPT !.verbs = Append(@, verb)]

AddVerbs(r, verbs) ==
    LET f[i \in 0..Len(verbs)] == IF i = 0 THEN r ELSE AddVerb(f[i-1], verbs[i])
    IN  f[Len(verbs)]

MergeReplacing(result, r) ==
    LET same == {i \in DOMAIN result : result[i].resource = r.resource}
    IN  IF same = {} THEN Append(result, r)
        ELSE [i \in DOMAIN result |-> IF i \in same THEN r ELSE result[i]]

Merge(result, r) ==
    LET same == {i \in DOMAIN result : result[i].resource = r.resource}
    IN  IF same = {} THEN Append(result, r)
        ELSE [i \in DOMAIN result |->
                IF i \in same THEN AddVerbs(result[i], r.verbs) ELSE result[i]]

reorderRules(rules) ==
    LET f[i \in 0..Len(rules)] ==
          IF i = 0 THEN <<>> ELSE Merge(f[i-1], rules[i])
    IN  f[Len(rules)]

\* What a list of rules allows.
Granted(rules) ==
    UNION {{<<rules[i].resource, rules[i].verbs[j]>> :
              j \in DOMAIN rules[i].verbs} : i \in DOMAIN rules}

\* There is one rule for a resource.
WellOrdered(rules) ==
    \A i, j \in DOMAIN rules : rules[i].resource = rules[j].resource => i = j
----------------------------------------------------------------------------
\* c reads a slice, to append to it or to reorder it.
ReadSlice(c, s) ==
    /\ copy' = [copy EXCEPT ![c] = [slice |-> s, rules |-> recorded[s]]]
    /\ raced' = (raced \/ \E d \in DOMAIN copy : copy[d].slice = s)
    /\ UNCHANGED <<recorded, made>>

\* c writes the slice it has read: what others wrote to it since is gone.
WriteSlice(c, rules) ==
    /\ recorded' = [recorded EXCEPT ![copy[c].slice] = rules]
    /\ copy' = [copy EXCEPT ![c] = NoCopy]
    /\ UNCHANGED raced
=============================================================================
