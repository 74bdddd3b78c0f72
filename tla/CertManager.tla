---------------------------- MODULE CertManager ----------------------------
(***************************************************************************)
(* The webhook certificate manager (webhook/cert/manager.go) with its      *)
(* provisioner, secret writer and self-signed generator                    *)
(* (internal/webhook/cert).  Every replica of the operator runs one.  The  *)
(* replicas share the secret that holds the certificate and the webhook    *)
(* configurations and CRDs whose CABundle must trust it; each has its own  *)
(* certificate directory and its own generator.  One action is one call to *)
(* the API server or one file write, so the runs of several replicas, and  *)
(* crashes between two calls, interleave as they can in the program.       *)
(*                                                                         *)
(* A certificate is the pair of a serial number and the CA that signed it; *)
(* its key has the same serial number.  A CABundle is the sequence of the  *)
(* CAs appended to it.  A configuration stands for one webhook.            *)
(***************************************************************************)
EXTENDS Integers, Sequences, FiniteSets

CONSTANTS
    Replicas,   \* the operator's pods
    Webhooks,   \* mutating, then validating configurations, in Options' order
    CRDs,       \* the CRD references, in Options' order
    Faults      \* bound, for each number of replicas deployed: failed calls,
                \* crashes, ageing and outside changes in one behaviour

All == Webhooks \o CRDs
Configs == {All[i] : i \in DOMAIN All}

ASSUME CertAssumption ==
    /\ Webhooks \in Seq(Configs) /\ CRDs \in Seq(Configs)
    /\ All # <<>>
    /\ Cardinality(Configs) = Len(All)
    /\ Faults \in [1..Cardinality(Replicas) -> Nat]

VARIABLES
    secret,     \* the certificate in the secret, or Absent
    fresh,      \* the secret's certificate outlives the next six months
    bundle,     \* the CABundle of every configuration
    stale,      \* configurations changed since the replica's run read them
    disk,       \* tls.crt and tls.key of every replica
    manager,    \* every replica's certificate manager
    stored,     \* history: how many certificates the secret has held
    roots,      \* history: the CAs of those certificates
    uprooted,   \* history: the secret was deleted, or overwritten unread
    missed,     \* history: replicas whose disk was left behind the secret
    faults      \* faults still allowed

cluster == <<secret, fresh, bundle, stale>>
history == <<stored, roots, uprooted>>
certVars == <<cluster, disk, manager, history, missed, faults>>

Absent == [sn |-> 0, ca |-> 0]      \* no such file or secret
Blank == [sn |-> -1, ca |-> 0]      \* an empty file

\* A manager between two runs: gen is the CA its generator was last given.
Idle(pc, gen, first) ==
    [pc |-> pc, i |-> 1, need |-> FALSE, changed |-> FALSE, common |-> <<>>,
     differ |-> FALSE, blind |-> FALSE, got |-> Absent, gen |-> gen,
     first |-> first]

Spend == faults > 0 /\ faults' = faults - 1

Init ==
    /\ secret = Absent
    /\ fresh = FALSE
    /\ bundle = [c \in Configs |-> <<>>]
    /\ stale = [r \in Replicas |-> {}]
    /\ disk = [r \in Replicas |-> [cert |-> Absent, key |-> Absent]]
    /\ \E deployed \in SUBSET Replicas \ {{}} :
        /\ manager = [r \in Replicas |->
             Idle(IF r \in deployed THEN "down" ELSE "undeployed", 0, TRUE)]
        /\ faults = Faults[Cardinality(deployed)]
    /\ stored = 0
    /\ roots = {}
    /\ uprooted = FALSE
    /\ missed = {}

certExists(d) == d.cert # Absent /\ d.key # Absent

----------------------------------------------------------------------------
(* A run of one replica's manager. *)

\* The container starts, with the certificate directory of the one before it
\* or an empty one.  Start leaves an existing certificate alone for good;
\* otherwise its first run begins, and the webhook server waits for it.
Start(r) ==
    /\ manager[r].pc = "down"
    /\ \E kept \in {disk[r], [cert |-> Absent, key |-> Absent]} :
        /\ disk' = [disk EXCEPT ![r] = kept]
        /\ manager' = [manager EXCEPT ![r] =
             IF certExists(kept)
             THEN Idle("skip", 0, TRUE)
             ELSE [Idle("get", 0, TRUE) EXCEPT !.need = TRUE]]
    /\ UNCHANGED <<cluster, history, missed, faults>>

\* The refresh ticker fires.
Tick(r) ==
    /\ manager[r].pc = "idle"
    /\ manager' = [manager EXCEPT ![r] =
         [Idle("get", @.gen, FALSE) EXCEPT !.need = ~certExists(disk[r])]]
    /\ UNCHANGED <<cluster, disk, history, missed, faults>>

\* The configuration object of c that r's run has read and may yet update.
Holds(r, c) ==
    \/ manager[r].pc \in {"read", "create", "reread", "overwrite", "update"}
    \/ manager[r].pc = "get" /\ \E j \in 1..(manager[r].i - 1) : All[j] = c

\* c got a new resourceVersion by an update of r.
Changed(c, r) ==
    [q \in Replicas |-> IF q # r /\ Holds(q, c) THEN stale[q] \cup {c}
                        ELSE stale[q]]

Dropped(r) == [stale EXCEPT ![r] = {}]

\* run returns an error: the first run's ends the process, a later one is
\* logged.
Returned(m) ==
    IF m.first THEN Idle("down", 0, TRUE) ELSE Idle("idle", m.gen, FALSE)

\* A run abandoned with a certificate to bring to the host leaves the host
\* behind.
Behind(r) ==
    missed \cup {q \in {r} : manager[q].changed \/ manager[q].need}

Abandon(r) ==
    /\ manager' = [manager EXCEPT ![r] = Returned(@)]
    /\ stale' = Dropped(r)
    /\ missed' = Behind(r)

compareCABundles(common, caBundle) ==
    LET c == IF common = <<>> THEN caBundle ELSE common
    IN  IF c = caBundle
        THEN [common |-> c, differ |-> FALSE]
        ELSE [common |-> <<>>, differ |-> TRUE]

\* The comparison stops at the first difference between webhooks; a CRD is
\* compared all the same, and its difference is not remembered.
Compared(m, i) ==
    LET res == compareCABundles(m.common, bundle[All[i]])
    IN  CASE i > Len(Webhooks) -> [m EXCEPT !.common = res.common]
          [] i <= Len(Webhooks) /\ m.differ -> m
          [] OTHER -> [m EXCEPT !.common = res.common, !.differ = res.differ]

GetConfig(r) ==
    /\ manager[r].pc = "get"
    /\ LET i == manager[r].i
       IN  manager' = [manager EXCEPT ![r] =
             [Compared(@, i) EXCEPT
                 !.i = IF i = Len(All) THEN 1 ELSE i + 1,
                 !.pc = IF i = Len(All) THEN "read" ELSE "get"]]
    /\ UNCHANGED <<cluster, disk, history, missed, faults>>

ProvisionAppendsNew(m, cert, changed) ==
    LET known == \E j \in DOMAIN m.common : m.common[j] = cert.ca
    IN  [m EXCEPT !.pc = "update", !.i = 1,
                  !.changed = changed \/ ~known,
                  !.common = IF known \/ ~changed THEN @ ELSE Append(@, cert.ca)]

\* Provision puts the signing CA into the bundle every object is injected with.
Provision(m, cert, changed) ==
    LET known == \E j \in DOMAIN m.common : m.common[j] = cert.ca
    IN  [m EXCEPT !.pc = "update", !.i = 1,
                  !.changed = changed \/ ~known,
                  !.common = IF known THEN @ ELSE Append(@, cert.ca)]

\* The certificate fits its key, its CA and the name, which what the managers
\* store does, and is good for six months more.
validCert == secret # Absent /\ fresh

\* handleCommon on the certificate read from the secret; read gives the CA
\* to the generator.
EnsuredForgetCA(m, changed) ==
    IF validCert THEN Provision(m, secret, changed)
    ELSE [m EXCEPT !.pc = "overwrite", !.changed = changed]

Ensured(m, changed) ==
    LET known == [m EXCEPT !.gen = secret.ca]
    IN  IF validCert THEN Provision(known, secret, changed)
        ELSE [known EXCEPT !.pc = "overwrite", !.changed = changed]

Read(r) ==
    /\ manager[r].pc = "read"
    /\ manager' = [manager EXCEPT ![r] =
         IF secret = Absent THEN [@ EXCEPT !.pc = "create"]
         ELSE Ensured(@, FALSE)]
    /\ UNCHANGED <<cluster, disk, history, missed, faults>>

\* An error other than NotFound is dropped, and the empty secret that was to
\* be filled counts as an invalid certificate.
ReadFails(r) ==
    /\ manager[r].pc \in {"read", "reread"}
    /\ Spend
    /\ manager' = [manager EXCEPT ![r] =
         [@ EXCEPT !.pc = "overwrite", !.blind = TRUE]]
    /\ UNCHANGED <<cluster, disk, history, missed>>

\* The generator has been given a CA; CAs outlive what is modelled.
validCACert(m) == m.gen # 0

\* buildSecret: signed by the generator's CA if it has one, else by a new CA.
Generated(m) ==
    [sn |-> stored + 1,
     ca |-> IF validCACert(m) THEN m.gen ELSE Cardinality(roots) + 1]

\* The secret now holds cert.
Stored(cert) ==
    /\ secret' = cert
    /\ fresh' = TRUE
    /\ stored' = stored + 1
    /\ roots' = roots \cup {cert.ca}

\* r has stored cert, and every other replica's disk is behind it.
Store(r, cert) ==
    /\ Stored(cert)
    /\ missed' = missed \cup (Replicas \ {r})
    /\ manager' = [manager EXCEPT ![r] = Provision(@, cert, TRUE)]

CreateKeepsOwn(r) ==
    /\ manager[r].pc = "create"
    /\ IF secret = Absent
       THEN Store(r, Generated(manager[r]))
       ELSE /\ manager' = [manager EXCEPT ![r] =
                 Provision(@, Generated(manager[r]), TRUE)]
            /\ UNCHANGED <<secret, fresh, stored, roots, missed>>
    /\ UNCHANGED <<bundle, stale, disk, uprooted, faults>>

Create(r) ==
    /\ manager[r].pc = "create"
    /\ IF secret = Absent
       THEN Store(r, Generated(manager[r]))
       ELSE /\ manager' = [manager EXCEPT ![r] =
                 [@ EXCEPT !.pc = "reread", !.changed = TRUE]]
            /\ UNCHANGED <<secret, fresh, stored, roots, missed>>
    /\ UNCHANGED <<bundle, stale, disk, uprooted, faults>>

\* The racer's secret, unless it has been deleted again.
ReRead(r) ==
    /\ manager[r].pc = "reread"
    /\ IF secret = Absent
       THEN Abandon(r)
       ELSE /\ manager' = [manager EXCEPT ![r] = Ensured(@, TRUE)]
            /\ UNCHANGED <<stale, missed>>
    /\ UNCHANGED <<secret, fresh, bundle, disk, history, faults>>

\* The secret is written without a resourceVersion: whatever it holds by now
\* is replaced.
Overwrite(r) ==
    /\ manager[r].pc = "overwrite"
    /\ IF secret = Absent
       THEN Abandon(r) /\ UNCHANGED <<secret, fresh, stored, roots, uprooted>>
       ELSE /\ Store(r, Generated(manager[r]))
            /\ uprooted' = (uprooted \/ manager[r].blind)
            /\ UNCHANGED stale
    /\ UNCHANGED <<bundle, disk, faults>>

\* The CABundle inject has given to the configuration that is updated.
InjectedIfChanged(m, c) == IF m.changed THEN m.common ELSE bundle[c]
Injected(m, c) == m.common

\* Whether run goes on to write the certificate on the host.
hostUpdateIfMissing(m) == m.need
hostUpdate(m) == m.changed \/ m.need

\* An update that changes nothing leaves the resourceVersion alone.
Updated(c, r) ==
    IF Injected(manager[r], c) = bundle[c] THEN stale ELSE Changed(c, r)

\* batchUpdate: an object changed since it was read is a conflict and ends
\* the batch.
Update(r) ==
    /\ manager[r].pc = "update"
    /\ LET m == manager[r]
           c == All[m.i]
       IN  IF c \in stale[r]
           THEN Abandon(r) /\ UNCHANGED bundle
           ELSE /\ bundle' = [bundle EXCEPT ![c] = Injected(m, c)]
                /\ stale' = IF m.i < Len(All) THEN Updated(c, r)
                            ELSE [Updated(c, r) EXCEPT ![r] = {}]
                /\ manager' = [manager EXCEPT ![r] =
                     IF m.i < Len(All) THEN [@ EXCEPT !.i = m.i + 1]
                     ELSE IF hostUpdate(m) THEN [@ EXCEPT !.pc = "fetch"]
                     ELSE Idle("idle", m.gen, FALSE)]
                /\ UNCHANGED missed
    /\ UNCHANGED <<secret, fresh, disk, history, faults>>

\* writeCertOnDisk reads the secret; only NotFound is an error.
Fetch(r) ==
    /\ manager[r].pc = "fetch"
    /\ IF secret = Absent
       THEN Abandon(r)
       ELSE /\ manager' = [manager EXCEPT ![r] =
                 [@ EXCEPT !.pc = "cert", !.got = secret]]
            /\ missed' = missed \ {r}
            /\ UNCHANGED stale
    /\ UNCHANGED <<secret, fresh, bundle, disk, history, faults>>

\* Any other error is dropped, and two empty files are about to be written.
FetchFails(r) ==
    /\ manager[r].pc = "fetch"
    /\ Spend
    /\ manager' = [manager EXCEPT ![r] = [@ EXCEPT !.pc = "cert", !.got = Blank]]
    /\ missed' = missed \cup {r}
    /\ UNCHANGED <<cluster, disk, history>>

WriteCert(r) ==
    /\ manager[r].pc = "cert"
    /\ disk' = [disk EXCEPT ![r].cert = manager[r].got]
    /\ manager' = [manager EXCEPT ![r] = [@ EXCEPT !.pc = "key"]]
    /\ UNCHANGED <<cluster, history, missed, faults>>

WriteKey(r) ==
    /\ manager[r].pc = "key"
    /\ disk' = [disk EXCEPT ![r].key = manager[r].got]
    /\ manager' = [manager EXCEPT ![r] = Idle("idle", @.gen, FALSE)]
    /\ UNCHANGED <<cluster, history, missed, faults>>

\* A configuration cannot be read: run returns the error.
ConfigFails(r) ==
    /\ manager[r].pc = "get"
    /\ Spend
    /\ Abandon(r)
    /\ UNCHANGED <<secret, fresh, bundle, disk, history>>

\* The secret's Create or Update is answered with an error, before or after
\* the API server has stored the certificate; the run that stored it does not
\* bring it to the host.
SecretFails(r) ==
    /\ manager[r].pc \in {"create", "overwrite"}
    /\ Spend
    /\ manager' = [manager EXCEPT ![r] = Returned(@)]
    /\ stale' = Dropped(r)
    /\ \/ missed' = Behind(r) /\ UNCHANGED <<secret, fresh, history>>
       \/ /\ manager[r].pc = "create" <=> secret = Absent
          /\ Stored(Generated(manager[r]))
          /\ missed' = Replicas
          /\ uprooted' = (uprooted \/ manager[r].blind)
    /\ UNCHANGED <<bundle, disk>>

\* An Update of the batch is answered with an error, before or after the
\* configuration has been stored; the rest of the batch is not sent.
UpdateFails(r) ==
    /\ manager[r].pc = "update"
    /\ Spend
    /\ manager' = [manager EXCEPT ![r] = Returned(@)]
    /\ missed' = Behind(r)
    /\ \/ stale' = Dropped(r) /\ UNCHANGED bundle
       \/ LET c == All[manager[r].i]
          IN  /\ c \notin stale[r]
              /\ bundle' = [bundle EXCEPT ![c] = Injected(manager[r], c)]
              /\ stale' = [Updated(c, r) EXCEPT ![r] = {}]
    /\ UNCHANGED <<secret, fresh, disk, history>>

\* A file cannot be opened, or its content is not written.
WriteFails(r) ==
    /\ manager[r].pc \in {"cert", "key"}
    /\ Spend
    /\ Abandon(r)
    /\ \/ UNCHANGED disk
       \/ manager[r].pc = "cert" /\ disk' = [disk EXCEPT ![r].cert = Blank]
       \/ manager[r].pc = "key" /\ disk' = [disk EXCEPT ![r].key = Blank]
    /\ UNCHANGED <<secret, fresh, bundle, history>>

----------------------------------------------------------------------------
(* What happens around the managers. *)

Crash(r) ==
    /\ manager[r].pc \notin {"undeployed", "down"}
    /\ Spend
    /\ manager' = [manager EXCEPT ![r] = Idle("down", 0, TRUE)]
    /\ stale' = Dropped(r)
    /\ missed' = Behind(r)
    /\ UNCHANGED <<secret, fresh, bundle, disk, history>>

\* The certificate comes within six months of its end.
Age ==
    /\ fresh
    /\ Spend
    /\ fresh' = FALSE
    /\ UNCHANGED <<secret, bundle, stale, disk, manager, history, missed>>

DeleteSecret ==
    /\ secret # Absent
    /\ Spend
    /\ secret' = Absent
    /\ fresh' = FALSE
    /\ uprooted' = TRUE
    /\ missed' = Replicas
    /\ UNCHANGED <<bundle, stale, disk, manager, stored, roots>>

\* A configuration is applied again from its manifest, without a CABundle.
Reapply(c) ==
    /\ bundle[c] # <<>>
    /\ Spend
    /\ bundle' = [bundle EXCEPT ![c] = <<>>]
    /\ stale' = [r \in Replicas |-> IF Holds(r, c) THEN stale[r] \cup {c}
                                    ELSE stale[r]]
    /\ UNCHANGED <<secret, fresh, disk, manager, history, missed>>

----------------------------------------------------------------------------
Works(r) ==
    \/ Start(r) \/ Tick(r) \/ GetConfig(r) \/ Read(r) \/ Create(r)
    \/ ReRead(r) \/ Overwrite(r) \/ Update(r) \/ Fetch(r)
    \/ WriteCert(r) \/ WriteKey(r)

Fails(r) ==
    \/ ReadFails(r) \/ FetchFails(r) \/ ConfigFails(r) \/ SecretFails(r)
    \/ UpdateFails(r) \/ WriteFails(r)

Next ==
    \/ \E r \in Replicas :
        Works(r) \/ Fails(r) \/ Crash(r)
    \/ Age
    \/ DeleteSecret
    \/ \E c \in Configs : Reapply(c)

Spec == Init /\ [][Next]_certVars

\* A manager's goroutine runs on, the ticker fires, and a container that
\* stopped is started again.
Fairness == \A r \in Replicas : WF_certVars(Works(r))

FairSpec == Spec /\ Fairness

----------------------------------------------------------------------------
(* Properties. *)

Certs == [sn : 1..stored, ca : roots]

\* The managers, disks and bundles hold what the code can put there; every
\* CA a bundle, a disk or a generator holds is one the secret has held.
CertTypeOK ==
    /\ secret \in Certs \cup {Absent}
    /\ fresh \in BOOLEAN /\ (fresh => secret # Absent)
    /\ \A c \in Configs : \A i \in DOMAIN bundle[c] : bundle[c][i] \in roots
    /\ stale \in [Replicas -> SUBSET Configs]
    /\ disk \in [Replicas -> [cert : Certs \cup {Absent, Blank},
                              key : Certs \cup {Absent, Blank}]]
    /\ \A r \in Replicas :
        /\ manager[r].pc \in {"undeployed", "down", "skip", "idle", "get",
                              "read", "create", "reread", "overwrite",
                              "update", "fetch", "cert", "key"}
        /\ manager[r].i \in DOMAIN All
        /\ manager[r].gen \in roots \cup {0}
        /\ manager[r].got \in Certs \cup {Absent, Blank}
        /\ \A j \in DOMAIN manager[r].common : manager[r].common[j] \in roots
    /\ missed \subseteq Replicas

\* Until the secret is deleted, or overwritten by a manager that could not
\* read it, all its certificates are signed by one CA, whatever the replicas
\* race on: regenerating keeps the CA that read gave to the generator.
OneRoot == ~uprooted => Cardinality(roots) <= 1

\* Between two runs the host's certificate and key are the secret's, except
\* where the code leaves the host behind until its next host update: another
\* replica stored the certificate, the secret was deleted, or the replica's
\* own run was abandoned, or answered with an error, once it had stored it.
HostCert ==
    \A r \in Replicas \ missed :
        manager[r].pc = "idle" =>
            disk[r].cert = secret /\ disk[r].key = secret

\* The configuration c trusts the CA that signed the certificate in the secret.
Trusts(c) == \E i \in DOMAIN bundle[c] : bundle[c][i] = secret.ca

\* A configuration that trusts the secret's certificate goes on trusting it,
\* whichever certificate a manager stores and whatever it injects from a
\* bundle compared many steps ago, unless the configuration itself is applied
\* again, or the secret is deleted or overwritten unread.
TrustKept ==
    [][\A c \in Configs :
          ~uprooted' /\ secret # Absent /\ Trusts(c) =>
              Reapply(c) \/ (secret' # Absent /\ Trusts(c)')]_certVars

Managed == \E r \in Replicas : manager[r].pc \notin {"undeployed", "down", "skip"}

\* If a manager keeps running, the secret ends up with a certificate that is
\* not about to expire and whose CA every webhook configuration and CRD
\* trusts, whatever calls failed before and in whatever state they left it.
Trusted ==
    <>[]Managed =>
        <>[](secret # Absent /\ fresh /\ \A c \in Configs : Trusts(c))
=============================================================================
