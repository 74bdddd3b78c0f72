------------------------- MODULE CertManagerProofs -------------------------
(***************************************************************************)
(* OneRoot, HostCert, CertTypeOK and that trust is not taken away, for any *)
(* number of replicas, configurations and faults.  That there is one CA    *)
(* does not follow from itself: a manager that regenerates the certificate *)
(* signs with the CA its generator was given, perhaps many steps ago, so   *)
(* RootInv says that every generator has the CA of the secret or none, and *)
(* that one that is about to overwrite a secret it has read has it.        *)
(* HostInv, for HostCert, and TypeInv are further below.                   *)
(***************************************************************************)
EXTENDS CertManager, FiniteSetTheorems, TLAPS

Fields == {"pc", "i", "need", "changed", "common", "differ", "blind", "got", "gen",
           "first"}

Records == /\ DOMAIN manager = Replicas
           /\ \A r \in Replicas : DOMAIN manager[r] = Fields

\* What a replica's generator knows.
Knows(m) == /\ m.gen \in roots \cup {0}
            /\ m.pc = "overwrite" /\ ~m.blind => m.gen # 0

Rooted ==
    /\ roots \subseteq {1}
    /\ IF secret = Absent THEN roots = {} ELSE secret.ca \in roots
    /\ \A r \in Replicas : Knows(manager[r])

RootInv == /\ uprooted \in BOOLEAN /\ stored \in Nat
           /\ Records
           /\ ~uprooted => Rooted

\* A manager that a step leaves at x, with a generator that knows no more.
LEMMA Stays ==
    ASSUME RootInv, NEW r \in Replicas, NEW x,
           manager' = [manager EXCEPT ![r] = x],
           DOMAIN x = Fields,
           ~uprooted => Knows(x),
           UNCHANGED <<secret, roots, uprooted, stored>>
    PROVE  RootInv'
<1>1. /\ DOMAIN manager' = Replicas
      /\ manager'[r] = x
      /\ \A q \in Replicas \ {r} : manager'[q] = manager[q]
  BY DEF RootInv, Records
<1>2. Records'
  BY <1>1 DEF RootInv, Records
<1>3. ASSUME ~uprooted PROVE Rooted'
  <2>1. \A q \in Replicas : Knows(manager'[q])
    BY <1>1, <1>3 DEF RootInv, Rooted
  <2>2. \A q \in Replicas : Knows(manager[q])'
    BY <2>1 DEF Knows
  <2> QED  BY <1>3, <2>2 DEF RootInv, Rooted
<1> QED  BY <1>2, <1>3 DEF RootInv

\* Only the certificate directory, the CABundles or the history change.
LEMMA Unaffected ==
    ASSUME RootInv, UNCHANGED <<manager, secret, roots, uprooted, stored>>
    PROVE  RootInv'
BY DEF RootInv, Records, Rooted, Knows

\* Provision leaves the generator alone.
LEMMA Provisioned ==
    ASSUME NEW m, DOMAIN m = Fields, NEW cert, NEW changed
    PROVE  /\ DOMAIN Provision(m, cert, changed) = Fields
           /\ Provision(m, cert, changed).pc = "update"
           /\ Provision(m, cert, changed).gen = m.gen
BY DEF Provision, Fields

\* The container starts.
LEMMA StartStep ==
    ASSUME RootInv, NEW r \in Replicas, Start(r) PROVE RootInv'
<1>1. PICK kept : manager' = [manager EXCEPT ![r] =
             IF certExists(kept) THEN Idle("skip", 0, TRUE)
             ELSE [Idle("get", 0, TRUE) EXCEPT !.need = TRUE]]
  BY Zenon DEF Start
<1> DEFINE x == IF certExists(kept) THEN Idle("skip", 0, TRUE)
                ELSE [Idle("get", 0, TRUE) EXCEPT !.need = TRUE]
<1>2. DOMAIN x = Fields /\ x.gen = 0 /\ x.pc # "overwrite"
  <2>1. LET y == Idle("skip", 0, TRUE)
        IN  DOMAIN y = Fields /\ y.gen = 0 /\ y.pc # "overwrite"
    BY DEF Idle, Fields
  <2>2. LET y == [Idle("get", 0, TRUE) EXCEPT !.need = TRUE]
        IN  DOMAIN y = Fields /\ y.gen = 0 /\ y.pc # "overwrite"
    BY DEF Idle, Fields
  <2> QED  BY <2>1, <2>2, Zenon
<1>3. UNCHANGED <<secret, roots, uprooted, stored>>
  BY DEF Start, cluster, history
<1>4. manager' = [manager EXCEPT ![r] = x]
  BY <1>1
<1>5. Knows(x)
  BY <1>2, Zenon DEF Knows
<1> HIDE DEF x
<1> QED  BY <1>2, <1>3, <1>4, <1>5, Stays, Zenon

\* The refresh ticker fires.
LEMMA TickStep ==
    ASSUME RootInv, NEW r \in Replicas, Tick(r) PROVE RootInv'
<1> DEFINE x == [Idle("get", manager[r].gen, FALSE) EXCEPT !.need = ~certExists(disk[r])]
<1>1. manager' = [manager EXCEPT ![r] = x]
  BY DEF Tick, RootInv, Records
<1>2. DOMAIN x = Fields /\ x.gen = manager[r].gen /\ x.pc # "overwrite"
  BY DEF Idle, Fields
<1>3. UNCHANGED <<secret, roots, uprooted, stored>>
  BY DEF Tick, cluster, history
<1>4. ~uprooted => Knows(x)
  BY <1>2, Zenon DEF Knows, RootInv, Rooted
<1> HIDE DEF x
<1> QED  BY <1>1, <1>2, <1>3, <1>4, Stays, Zenon

\* The manager of a run that has returned an error.
LEMMA ReturnedRun ==
    ASSUME NEW m
    PROVE  /\ DOMAIN Returned(m) = Fields /\ Returned(m).gen \in {0, m.gen}
           /\ Returned(m).pc \in {"down", "idle"}
           /\ Returned(m).changed = FALSE /\ Returned(m).need = FALSE
BY DEF Returned, Idle, Fields

\* A run ends without having stored anything.
LEMMA ReturnedStep ==
    ASSUME RootInv, NEW r \in Replicas,
           manager' = [manager EXCEPT ![r] = Returned(manager[r])],
           UNCHANGED <<secret, roots, uprooted, stored>>
    PROVE  RootInv'
<1> DEFINE x == Returned(manager[r])
<1>1. DOMAIN x = Fields /\ x.gen \in {0, manager[r].gen} /\ x.pc # "overwrite"
  BY ReturnedRun, ZenonT(30)
<1>2. ~uprooted => Knows(x)
  BY <1>1, Zenon DEF Knows, RootInv, Rooted
<1> HIDE DEF x
<1> QED  BY <1>1, <1>2, Stays, Zenon DEF x

\* So with what Abandon leaves.
LEMMA AbandonStep ==
    ASSUME RootInv, NEW r \in Replicas, Abandon(r), UNCHANGED <<secret, roots, uprooted, stored>>
    PROVE  RootInv'
BY ReturnedStep, ZenonT(30) DEF Abandon

\* The next configuration is read and compared.
LEMMA GetConfigStep ==
    ASSUME RootInv, NEW r \in Replicas, GetConfig(r) PROVE RootInv'
<1> DEFINE m == manager[r]
           y == Compared(m, m.i)
           x == [y EXCEPT !.i = IF m.i = Len(All) THEN 1 ELSE m.i + 1,
                          !.pc = IF m.i = Len(All) THEN "read" ELSE "get"]
<1>1. manager' = [manager EXCEPT ![r] = x]
  BY DEF GetConfig, RootInv, Records
<1>2. DOMAIN y = Fields /\ y.gen = m.gen
  BY DEF Compared, RootInv, Records, Fields
<1>3. DOMAIN x = Fields /\ x.gen = m.gen /\ x.pc # "overwrite"
  <2> HIDE DEF y
  <2> QED  BY <1>2 DEF Fields
<1>4. UNCHANGED <<secret, roots, uprooted, stored>>
  BY DEF GetConfig, cluster, history
<1>5. ~uprooted => Knows(x)
  <2> HIDE DEF x
  <2> QED  BY <1>3 DEF Knows, RootInv, Rooted
<1> HIDE DEF x
<1> QED  BY <1>1, <1>3, <1>4, <1>5, Stays, Zenon

\* What handleCommon makes of a secret it has read: the generator has its CA.
LEMMA EnsuredManager ==
    ASSUME NEW m, DOMAIN m = Fields, NEW changed
    PROVE  /\ DOMAIN Ensured(m, changed) = Fields
           /\ Ensured(m, changed).gen = secret.ca
<1> DEFINE known == [m EXCEPT !.gen = secret.ca]
<1>1. DOMAIN known = Fields /\ known.gen = secret.ca
  BY DEF Fields
<1>2. DOMAIN Provision(known, secret, changed) = Fields
      /\ Provision(known, secret, changed).gen = secret.ca
  <2> HIDE DEF known
  <2> QED  BY <1>1, Provisioned
<1>3. /\ DOMAIN [known EXCEPT !.pc = "overwrite", !.changed = changed] = Fields
      /\ [known EXCEPT !.pc = "overwrite", !.changed = changed].gen = secret.ca
  <2> HIDE DEF known
  <2> QED  BY <1>1 DEF Fields
<1> QED  BY <1>2, <1>3 DEF Ensured

\* A generator that has been given the secret's CA knows the root.
LEMMA SecretKnown ==
    ASSUME RootInv, secret # Absent, NEW x, x.gen = secret.ca
    PROVE  ~uprooted => Knows(x)
BY DEF RootInv, Rooted, Knows

\* The secret is read.
LEMMA ReadStep ==
    ASSUME RootInv, NEW r \in Replicas, Read(r) PROVE RootInv'
<1> DEFINE m == manager[r]
<1>0. DOMAIN m = Fields /\ (~uprooted => Knows(m)) /\ UNCHANGED <<secret, roots, uprooted, stored>>
  BY DEF Read, RootInv, Records, Rooted, cluster, history
<1>1. CASE secret = Absent
  <2> DEFINE x == [m EXCEPT !.pc = "create"]
  <2>1. manager' = [manager EXCEPT ![r] = x]
    BY <1>1 DEF Read, RootInv, Records
  <2>2. DOMAIN x = Fields /\ x.gen = m.gen /\ x.pc # "overwrite"
    BY <1>0 DEF Fields
  <2>3. ~uprooted => Knows(x)
    BY <1>0, <2>2 DEF Knows
  <2> HIDE DEF x
  <2> QED  BY <1>0, <2>1, <2>2, <2>3, Stays, Zenon
<1>2. CASE secret # Absent
  <2> DEFINE x == Ensured(m, FALSE)
  <2>1. manager' = [manager EXCEPT ![r] = x]
    BY <1>2 DEF Read, RootInv, Records
  <2>2. DOMAIN x = Fields /\ x.gen = secret.ca
    BY <1>0, EnsuredManager, Zenon
  <2> HIDE DEF x
  <2>3. ~uprooted => Knows(x)
    BY <1>2, <2>2, SecretKnown
  <2> QED  BY <1>0, <2>1, <2>2, <2>3, Stays, Zenon
<1> QED  BY <1>1, <1>2

\* The secret could not be read: the manager is about to overwrite it blindly.
LEMMA ReadFailsStep ==
    ASSUME RootInv, NEW r \in Replicas, ReadFails(r) PROVE RootInv'
<1> DEFINE m == manager[r]
           x == [m EXCEPT !.pc = "overwrite", !.blind = TRUE]
<1>0. DOMAIN m = Fields /\ (~uprooted => Knows(m)) /\ UNCHANGED <<secret, roots, uprooted, stored>>
  BY DEF ReadFails, RootInv, Records, Rooted, cluster, history
<1>1. manager' = [manager EXCEPT ![r] = x]
  BY DEF ReadFails, RootInv, Records
<1>2. DOMAIN x = Fields /\ x.gen = m.gen /\ x.blind
  BY <1>0 DEF Fields
<1>3. ~uprooted => Knows(x)
  BY <1>0, <1>2 DEF Knows
<1> HIDE DEF x
<1> QED  BY <1>0, <1>1, <1>2, <1>3, Stays, Zenon

\* A certificate is stored: of the root there is, or of a first one.
LEMMA StoredStep ==
    ASSUME RootInv, NEW r \in Replicas, NEW cert, Stored(cert), cert # Absent,
           uprooted' \in BOOLEAN, uprooted => uprooted',
           ~uprooted' => cert.ca = 1,
           NEW x, manager' = [manager EXCEPT ![r] = x],
           DOMAIN x = Fields, x.gen \in {0, manager[r].gen}, x.pc # "overwrite"
    PROVE  RootInv'
<1>4. /\ DOMAIN manager' = Replicas /\ manager'[r] = x
      /\ \A q \in Replicas \ {r} : manager'[q] = manager[q]
  BY DEF RootInv, Records
<1>5. Records'
  BY <1>4 DEF RootInv, Records
<1>6. ASSUME ~uprooted' PROVE Rooted'
  <2>1. ~uprooted /\ Rooted
    BY <1>6 DEF RootInv
  <2>2. roots' = {1} /\ secret' = cert /\ cert.ca = 1
    BY <1>6, <2>1, Zenon DEF Stored, Rooted
  <2>3. ASSUME NEW q \in Replicas PROVE Knows(manager[q])'
    <3>1. manager[q].gen \in {0, 1}
      BY <2>1, Zenon DEF Rooted, Knows
    <3>2. q = r => Knows(manager[q])'
      BY <1>4, <2>2, <3>1 DEF Knows
    <3>3. q # r => Knows(manager[q])'
      BY <1>4, <2>1, <2>2, <3>1 DEF Knows, Rooted
    <3> QED  BY <3>2, <3>3
  <2> QED  BY <2>2, <2>3 DEF Rooted
<1> QED  BY <1>5, <1>6 DEF RootInv, Stored

\* The run that has stored it goes on.
LEMMA StoreStep ==
    ASSUME RootInv, NEW r \in Replicas, NEW cert, Store(r, cert), cert # Absent,
           uprooted' \in BOOLEAN, uprooted => uprooted',
           ~uprooted' => cert.ca = 1
    PROVE  RootInv'
<1> DEFINE m == manager[r]
           x == Provision(m, cert, TRUE)
<1>1. manager' = [manager EXCEPT ![r] = x] /\ Stored(cert)
  BY DEF Store, RootInv, Records
<1>2. DOMAIN m = Fields
  BY DEF RootInv, Records
<1>3. DOMAIN x = Fields /\ x.gen = m.gen /\ x.pc # "overwrite"
  BY <1>2 DEF Provision, Fields
<1> HIDE DEF x
<1> QED  BY <1>1, <1>3, StoredStep, ZenonT(30)

\* What the generator makes.
LEMMA GeneratedCert ==
    ASSUME NEW m, stored \in Nat
    PROVE  /\ Generated(m) # Absent
           /\ m.gen # 0 => Generated(m).ca = m.gen
           /\ m.gen = 0 /\ roots = {} => Generated(m).ca = 1
<1>1. Generated(m).sn = stored + 1 /\ Absent.sn = 0 /\ stored + 1 # 0
  BY DEF Generated, Absent
<1>2. Generated(m) # Absent
  BY <1>1
<1>3. m.gen # 0 => Generated(m).ca = m.gen
  BY DEF Generated, validCACert
<1>4. roots = {} => Cardinality(roots) = 0
  BY FS_EmptySet
<1>5. m.gen = 0 => Generated(m).ca = Cardinality(roots) + 1
  BY DEF Generated, validCACert
<1> QED  BY <1>2, <1>3, <1>4, <1>5

\* The first to create the secret makes the root; the others read it.
LEMMA CreateStep ==
    ASSUME RootInv, NEW r \in Replicas, Create(r) PROVE RootInv'
<1> DEFINE m == manager[r]
           cert == Generated(m)
<1>0. /\ DOMAIN m = Fields /\ stored \in Nat /\ uprooted \in BOOLEAN /\ uprooted' = uprooted
      /\ m.pc = "create" /\ (~uprooted => Rooted /\ Knows(m))
  BY DEF Create, RootInv, Records, Rooted
<1>1. CASE secret = Absent
  <2>1. cert # Absent
    BY <1>0, GeneratedCert
  <2>2. ~uprooted => cert.ca = 1
    BY <1>0, <1>1, GeneratedCert DEF Rooted, Knows
  <2>3. Store(r, cert)
    BY <1>1 DEF Create
  <2> HIDE DEF cert
  <2> QED  BY <1>0, <2>1, <2>2, <2>3, StoreStep
<1>2. CASE secret # Absent
  <2> DEFINE x == [m EXCEPT !.pc = "reread", !.changed = TRUE]
  <2>1. manager' = [manager EXCEPT ![r] = x] /\ UNCHANGED <<secret, roots, uprooted, stored>>
    BY <1>2 DEF Create, RootInv, Records
  <2>2. DOMAIN x = Fields /\ x.gen = m.gen /\ x.pc # "overwrite"
    BY <1>0 DEF Fields
  <2>3. ~uprooted => Knows(x)
    BY <1>0, <2>2 DEF Knows
  <2> HIDE DEF x
  <2> QED  BY <2>1, <2>2, <2>3, Stays, Zenon
<1> QED  BY <1>1, <1>2

\* The one that lost the race reads the winner's secret.
LEMMA ReReadStep ==
    ASSUME RootInv, NEW r \in Replicas, ReRead(r) PROVE RootInv'
<1> DEFINE m == manager[r]
           x == Ensured(m, TRUE)
<1>0. DOMAIN m = Fields /\ UNCHANGED <<secret, roots, uprooted, stored>>
  BY DEF ReRead, RootInv, Records, history
<1>1. CASE secret = Absent
  BY <1>0, <1>1, AbandonStep DEF ReRead
<1>2. CASE secret # Absent
  <2>1. manager' = [manager EXCEPT ![r] = x]
    BY <1>2 DEF ReRead, RootInv, Records
  <2>2. DOMAIN x = Fields /\ x.gen = secret.ca
    BY <1>0, EnsuredManager, Zenon
  <2> HIDE DEF x
  <2>3. ~uprooted => Knows(x)
    BY <1>2, <2>2, SecretKnown
  <2> QED  BY <1>0, <2>1, <2>2, <2>3, Stays, Zenon
<1> QED  BY <1>1, <1>2

\* Who overwrites what it has read has the root; who has not uproots it.
LEMMA OverwriteStep ==
    ASSUME RootInv, NEW r \in Replicas, Overwrite(r) PROVE RootInv'
<1> DEFINE m == manager[r]
           cert == Generated(m)
<1>0. /\ stored \in Nat /\ uprooted \in BOOLEAN /\ m.pc = "overwrite"
      /\ ~uprooted => Rooted /\ Knows(m)
  BY DEF Overwrite, RootInv, Rooted
<1>1. CASE secret = Absent
  <2>1. Abandon(r) /\ UNCHANGED <<secret, roots, uprooted, stored>>
    BY <1>1 DEF Overwrite
  <2> QED  BY <2>1, AbandonStep
<1>2. CASE secret # Absent
  <2>1. Store(r, cert) /\ uprooted' = (uprooted \/ m.blind)
    BY <1>2 DEF Overwrite
  <2>2. cert # Absent
    BY <1>0, GeneratedCert
  <2>3. ~uprooted /\ ~m.blind => m.gen = 1
    BY <1>0 DEF Knows, Rooted
  <2>4. ~uprooted /\ ~m.blind => cert.ca = 1
    BY <1>0, <2>3, GeneratedCert
  <2>5. uprooted' \in BOOLEAN /\ (uprooted => uprooted')
        /\ (~uprooted' => ~uprooted /\ ~m.blind)
    BY <2>1, Zenon
  <2> HIDE DEF cert
  <2> QED  BY <2>1, <2>2, <2>4, <2>5, StoreStep
<1> QED  BY <1>1, <1>2

\* The certificate is stored all the same when the answer is an error.
LEMMA SecretFailsStep ==
    ASSUME RootInv, NEW r \in Replicas, SecretFails(r) PROVE RootInv'
<1> DEFINE m == manager[r]
           cert == Generated(m)
           x == Returned(m)
<1>0. /\ stored \in Nat /\ uprooted \in BOOLEAN /\ m.pc \in {"create", "overwrite"}
      /\ ~uprooted => Rooted /\ Knows(m)
      /\ manager' = [manager EXCEPT ![r] = x]
  BY DEF SecretFails, RootInv, Rooted
<1>1. CASE UNCHANGED <<secret, fresh, history>>
  <2>1. UNCHANGED <<secret, roots, uprooted, stored>>
    BY <1>1 DEF history
  <2> QED  BY <1>0, <2>1, ReturnedStep, ZenonT(30)
<1>2. CASE /\ m.pc = "create" <=> secret = Absent
           /\ Stored(cert) /\ uprooted' = (uprooted \/ m.blind)
  <2>1. cert # Absent
    BY <1>0, GeneratedCert
  <2>2. ~uprooted /\ ~m.blind => m.gen = 1 \/ (m.gen = 0 /\ roots = {})
    BY <1>0, <1>2 DEF Knows, Rooted
  <2>3. ~uprooted /\ ~m.blind => cert.ca = 1
    BY <1>0, <2>2, GeneratedCert
  <2>4. uprooted' \in BOOLEAN /\ (uprooted => uprooted')
        /\ (~uprooted' => ~uprooted /\ ~m.blind)
    BY <1>2, Zenon
  <2>5. DOMAIN x = Fields /\ x.gen \in {0, m.gen} /\ x.pc # "overwrite"
    BY ReturnedRun, ZenonT(30)
  <2> HIDE DEF cert, x
  <2> QED  BY <1>0, <1>2, <2>1, <2>3, <2>4, <2>5, StoredStep, ZenonT(30)
<1> QED  BY <1>1, <1>2 DEF SecretFails

\* A call or a write that fails without the secret being written.
LEMMA FailsStep ==
    ASSUME RootInv, NEW r \in Replicas, ConfigFails(r) \/ UpdateFails(r) \/ WriteFails(r)
    PROVE  RootInv'
<1>1. /\ manager' = [manager EXCEPT ![r] = Returned(manager[r])]
      /\ UNCHANGED <<secret, roots, uprooted, stored>>
  BY ZenonT(30) DEF ConfigFails, UpdateFails, WriteFails, Abandon, history
<1> QED  BY <1>1, ReturnedStep, ZenonT(30)

\* A configuration is updated.
LEMMA UpdateStep ==
    ASSUME RootInv, NEW r \in Replicas, Update(r) PROVE RootInv'
<1> DEFINE m == manager[r]
           c == All[m.i]
           x == IF m.i < Len(All) THEN [m EXCEPT !.i = m.i + 1]
                ELSE IF hostUpdate(m) THEN [m EXCEPT !.pc = "fetch"]
                ELSE Idle("idle", m.gen, FALSE)
<1>0. /\ DOMAIN m = Fields /\ m.pc = "update" /\ (~uprooted => Knows(m))
      /\ UNCHANGED <<secret, roots, uprooted, stored>>
  BY DEF Update, RootInv, Records, Rooted, history
<1>1. CASE c \in stale[r]
  BY <1>0, <1>1, AbandonStep DEF Update
<1>2. CASE c \notin stale[r]
  <2>1. manager' = [manager EXCEPT ![r] = x]
    BY <1>2, Zenon DEF Update, RootInv, Records
  <2>2. DOMAIN x = Fields /\ x.gen = m.gen /\ x.pc # "overwrite"
    <3>1. LET y == [m EXCEPT !.i = m.i + 1]
          IN  DOMAIN y = Fields /\ y.gen = m.gen /\ y.pc # "overwrite"
      BY <1>0 DEF Fields
    <3>2. LET y == [m EXCEPT !.pc = "fetch"]
          IN  DOMAIN y = Fields /\ y.gen = m.gen /\ y.pc # "overwrite"
      BY <1>0 DEF Fields
    <3>3. LET y == Idle("idle", m.gen, FALSE)
          IN  DOMAIN y = Fields /\ y.gen = m.gen /\ y.pc # "overwrite"
      BY DEF Idle, Fields
    <3> QED  BY <3>1, <3>2, <3>3, Zenon
  <2> HIDE DEF x
  <2>3. ~uprooted => Knows(x)
    BY <1>0, <2>2 DEF Knows
  <2> QED  BY <1>0, <2>1, <2>2, <2>3, Stays, Zenon
<1> QED  BY <1>1, <1>2

\* The certificate is fetched for the host.
LEMMA FetchStep ==
    ASSUME RootInv, NEW r \in Replicas, Fetch(r) PROVE RootInv'
<1> DEFINE m == manager[r]
           x == [m EXCEPT !.pc = "cert", !.got = secret]
<1>0. /\ DOMAIN m = Fields /\ (~uprooted => Knows(m))
      /\ UNCHANGED <<secret, roots, uprooted, stored>>
  BY DEF Fetch, RootInv, Records, Rooted, cluster, history
<1>1. CASE secret = Absent
  BY <1>0, <1>1, AbandonStep DEF Fetch
<1>2. CASE secret # Absent
  <2>1. manager' = [manager EXCEPT ![r] = x]
    BY <1>2 DEF Fetch, RootInv, Records
  <2>2. DOMAIN x = Fields /\ x.gen \in {0, m.gen} /\ x.pc # "overwrite"
    BY <1>0 DEF Fields, Idle
  <2> HIDE DEF x
  <2>3. ~uprooted => Knows(x)
    BY <1>0, <2>2 DEF Knows
  <2> QED  BY <1>0, <2>1, <2>2, <2>3, Stays, Zenon
<1> QED  BY <1>1, <1>2

\* It could not be fetched.
LEMMA FetchFailsStep ==
    ASSUME RootInv, NEW r \in Replicas, FetchFails(r) PROVE RootInv'
<1> DEFINE m == manager[r]
           x == [m EXCEPT !.pc = "cert", !.got = Blank]
<1>0. /\ DOMAIN m = Fields /\ (~uprooted => Knows(m))
      /\ UNCHANGED <<secret, roots, uprooted, stored>>
  BY DEF FetchFails, RootInv, Records, Rooted, cluster, history
<1>1. manager' = [manager EXCEPT ![r] = x]
  BY DEF FetchFails, RootInv, Records
<1>2. DOMAIN x = Fields /\ x.gen \in {0, m.gen} /\ x.pc # "overwrite"
  BY <1>0 DEF Fields, Idle
<1> HIDE DEF x
<1>3. ~uprooted => Knows(x)
  BY <1>0, <1>2 DEF Knows
<1> QED  BY <1>0, <1>1, <1>2, <1>3, Stays, Zenon

\* The files are written.
LEMMA WriteCertStep ==
    ASSUME RootInv, NEW r \in Replicas, WriteCert(r) PROVE RootInv'
<1> DEFINE m == manager[r]
           x == [m EXCEPT !.pc = "key"]
<1>0. /\ DOMAIN m = Fields /\ (~uprooted => Knows(m))
      /\ UNCHANGED <<secret, roots, uprooted, stored>>
  BY DEF WriteCert, RootInv, Records, Rooted, cluster, history
<1>1. manager' = [manager EXCEPT ![r] = x]
  BY DEF WriteCert, RootInv, Records
<1>2. DOMAIN x = Fields /\ x.gen \in {0, m.gen} /\ x.pc # "overwrite"
  BY <1>0 DEF Fields, Idle
<1> HIDE DEF x
<1>3. ~uprooted => Knows(x)
  BY <1>0, <1>2 DEF Knows
<1> QED  BY <1>0, <1>1, <1>2, <1>3, Stays, Zenon

\* The run is complete.
LEMMA WriteKeyStep ==
    ASSUME RootInv, NEW r \in Replicas, WriteKey(r) PROVE RootInv'
<1> DEFINE m == manager[r]
           x == Idle("idle", m.gen, FALSE)
<1>0. /\ DOMAIN m = Fields /\ (~uprooted => Knows(m))
      /\ UNCHANGED <<secret, roots, uprooted, stored>>
  BY DEF WriteKey, RootInv, Records, Rooted, cluster, history
<1>1. manager' = [manager EXCEPT ![r] = x]
  BY DEF WriteKey, RootInv, Records
<1>2. DOMAIN x = Fields /\ x.gen \in {0, m.gen} /\ x.pc # "overwrite"
  BY <1>0 DEF Fields, Idle
<1> HIDE DEF x
<1>3. ~uprooted => Knows(x)
  BY <1>0, <1>2 DEF Knows
<1> QED  BY <1>0, <1>1, <1>2, <1>3, Stays, Zenon

\* The process stops.
LEMMA CrashStep ==
    ASSUME RootInv, NEW r \in Replicas, Crash(r) PROVE RootInv'
<1> DEFINE m == manager[r]
           x == Idle("down", 0, TRUE)
<1>0. /\ DOMAIN m = Fields /\ (~uprooted => Knows(m))
      /\ UNCHANGED <<secret, roots, uprooted, stored>>
  BY DEF Crash, RootInv, Records, Rooted, cluster, history
<1>1. manager' = [manager EXCEPT ![r] = x]
  BY DEF Crash, RootInv, Records
<1>2. DOMAIN x = Fields /\ x.gen \in {0, m.gen} /\ x.pc # "overwrite"
  BY <1>0 DEF Fields, Idle
<1> HIDE DEF x
<1>3. ~uprooted => Knows(x)
  BY <1>0, <1>2 DEF Knows
<1> QED  BY <1>0, <1>1, <1>2, <1>3, Stays, Zenon

\* Nothing is stored, and no generator has a CA.
LEMMA RootInit == Init => RootInv
<1> SUFFICES ASSUME Init PROVE RootInv
  OBVIOUS
<1>1. PICK deployed :
        manager = [r \in Replicas |->
          Idle(IF r \in deployed THEN "down" ELSE "undeployed", 0, TRUE)]
  BY Zenon DEF Init
<1>2. ASSUME NEW r \in Replicas
      PROVE  DOMAIN manager[r] = Fields /\ manager[r].gen = 0 /\ manager[r].pc # "overwrite"
  BY <1>1 DEF Idle, Fields
<1>3. \A r \in Replicas : Knows(manager[r])
  BY <1>2 DEF Knows
<1>4. DOMAIN manager = Replicas
  BY <1>1
<1>5. uprooted = FALSE /\ stored = 0 /\ roots = {} /\ secret = Absent
  BY DEF Init
<1> QED  BY <1>2, <1>3, <1>4, <1>5, Zenon DEF RootInv, Records, Rooted

\* Every step keeps the root.
LEMMA RootStep == RootInv /\ [Next]_certVars => RootInv'
<1> SUFFICES ASSUME RootInv, [Next]_certVars PROVE RootInv'
  OBVIOUS
<1>1. ASSUME NEW r \in Replicas, Works(r) PROVE RootInv'
  BY <1>1, StartStep, TickStep, GetConfigStep, ReadStep, CreateStep, ReReadStep,
     OverwriteStep, UpdateStep, FetchStep, WriteCertStep, WriteKeyStep DEF Works
<1>2. ASSUME NEW r \in Replicas, Fails(r) PROVE RootInv'
  BY <1>2, ReadFailsStep, FetchFailsStep, SecretFailsStep, FailsStep DEF Fails
<1>3. ASSUME Age \/ (\E c \in Configs : Reapply(c)) \/ UNCHANGED certVars
      PROVE  RootInv'
  <2>1. UNCHANGED <<manager, secret, roots, uprooted, stored>>
    BY <1>3 DEF Age, Reapply, certVars, cluster, history
  <2> QED  BY <2>1, Unaffected
<1>4. CASE DeleteSecret
  <2>1. uprooted' = TRUE /\ UNCHANGED <<manager, stored>>
    BY <1>4 DEF DeleteSecret
  <2> QED  BY <2>1 DEF RootInv, Records
<1> QED
  BY <1>1, <1>2, <1>3, <1>4, CrashStep DEF Next

\* Until the secret is deleted, or overwritten by a manager that could not
\* read it, one CA signs every certificate the secret holds: OneRoot for any
\* number of replicas, configurations, failed calls and crashes.
THEOREM OneRootHolds == Spec => []OneRoot
<1>1. RootInv => OneRoot
  <2> SUFFICES ASSUME RootInv, ~uprooted PROVE Cardinality(roots) <= 1
    BY DEF OneRoot
  <2>1. roots = {} \/ roots = {1}
    BY DEF RootInv, Rooted
  <2>2. Cardinality({}) = 0 /\ Cardinality({1}) = 1
    BY FS_EmptySet, FS_Singleton, Zenon
  <2> QED  BY <2>1, <2>2
<1> QED  BY <1>1, RootInit, RootStep, PTL DEF Spec

----------------------------------------------------------------------------
(* HostCert.  What a host holds is known only where a run has nothing to    *)
(* bring to it, so the invariant follows the two flags that make run write  *)
(* the files through the whole run, and what writeCertOnDisk has fetched.   *)

Files == /\ DOMAIN disk = Replicas
         /\ \A r \in Replicas : DOMAIN disk[r] = {"cert", "key"}

\* The flags at the points of a run that rely on them.
Flags(m) ==
    /\ m.pc \in {"idle", "get", "read"} => ~m.changed
    /\ m.pc = "idle" => ~m.need
    /\ m.pc \in {"fetch", "cert", "key"} => m.changed \/ m.need

Away == {"undeployed", "down", "skip"}

\* The files d of a host that was not left behind the secret s.
Hosted(m, d, s) ==
    /\ m.pc \notin Away /\ ~m.changed /\ ~m.need => d.cert = s /\ d.key = s
    /\ m.pc = "cert" => m.got = s
    /\ m.pc = "key" => m.got = s /\ d.cert = s

HostInv ==
    /\ Records /\ Files
    /\ \A r \in Replicas : Flags(manager[r])
    /\ \A r \in Replicas \ missed : Hosted(manager[r], disk[r], secret)

\* A step of one replica; who stores another certificate leaves the others
\* behind.
LEMMA Hosts ==
    ASSUME HostInv, NEW r \in Replicas, NEW x, NEW d,
           manager' = [manager EXCEPT ![r] = x],
           disk' = [disk EXCEPT ![r] = d] \/ (disk' = disk /\ d = disk[r]),
           DOMAIN x = Fields, DOMAIN d = {"cert", "key"},
           Flags(x), r \notin missed' => Hosted(x, d, secret'),
           missed \subseteq missed' \cup {r},
           secret' = secret \/ Replicas \ {r} \subseteq missed'
    PROVE  HostInv'
<1>1. /\ DOMAIN manager' = Replicas /\ DOMAIN disk' = Replicas
      /\ manager'[r] = x /\ disk'[r] = d
      /\ \A q \in Replicas \ {r} : manager'[q] = manager[q] /\ disk'[q] = disk[q]
  BY DEF HostInv, Records, Files
<1>2. Records' /\ Files'
  BY <1>1 DEF HostInv, Records, Files
<1>3. \A q \in Replicas : Flags(manager'[q])
  BY <1>1 DEF HostInv
<1>4. \A q \in Replicas \ missed' : Hosted(manager'[q], disk'[q], secret')
  BY <1>1 DEF HostInv
<1> QED  BY <1>2, <1>3, <1>4 DEF HostInv

\* The same of a step that leaves the files alone.
LEMMA HostKept ==
    ASSUME HostInv, NEW r \in Replicas, NEW x,
           manager' = [manager EXCEPT ![r] = x], disk' = disk,
           DOMAIN x = Fields,
           Flags(x), r \notin missed' => Hosted(x, disk[r], secret'),
           missed \subseteq missed' \cup {r},
           secret' = secret \/ Replicas \ {r} \subseteq missed'
    PROVE  HostInv'
<1>1. DOMAIN disk[r] = {"cert", "key"}
  BY DEF HostInv, Files
<1> QED  BY <1>1, Hosts, Zenon

\* What is known of the replica that takes a step.
LEMMA HostOf ==
    ASSUME HostInv, NEW r \in Replicas
    PROVE  /\ DOMAIN manager = Replicas /\ DOMAIN manager[r] = Fields
           /\ DOMAIN disk = Replicas /\ DOMAIN disk[r] = {"cert", "key"}
           /\ Flags(manager[r])
           /\ r \notin missed => Hosted(manager[r], disk[r], secret)
BY DEF HostInv, Records, Files

\* The first run begins with a certificate to bring to the host, or there is
\* none.
LEMMA StartHost ==
    ASSUME HostInv, NEW r \in Replicas, Start(r) PROVE HostInv'
<1>1. PICK kept \in {disk[r], [cert |-> Absent, key |-> Absent]} :
        /\ disk' = [disk EXCEPT ![r] = kept]
        /\ manager' = [manager EXCEPT ![r] =
             IF certExists(kept) THEN Idle("skip", 0, TRUE)
             ELSE [Idle("get", 0, TRUE) EXCEPT !.need = TRUE]]
  BY Zenon DEF Start
<1> DEFINE x == IF certExists(kept) THEN Idle("skip", 0, TRUE)
                ELSE [Idle("get", 0, TRUE) EXCEPT !.need = TRUE]
<1>2. DOMAIN x = Fields /\ (x.pc = "skip" \/ (x.pc = "get" /\ x.need = TRUE /\ x.changed = FALSE))
  <2>1. LET y == Idle("skip", 0, TRUE) IN DOMAIN y = Fields /\ y.pc = "skip"
    BY DEF Idle, Fields
  <2>2. LET y == [Idle("get", 0, TRUE) EXCEPT !.need = TRUE]
        IN  DOMAIN y = Fields /\ y.pc = "get" /\ y.need = TRUE /\ y.changed = FALSE
    BY DEF Idle, Fields
  <2> QED  BY <2>1, <2>2, Zenon
<1>3. DOMAIN kept = {"cert", "key"}
  BY <1>1, HostOf
<1>4. secret' = secret /\ missed' = missed
  BY DEF Start, cluster
<1>5. manager' = [manager EXCEPT ![r] = x]
  BY <1>1
<1> HIDE DEF x
<1>6. Flags(x) /\ Hosted(x, kept, secret')
  BY <1>2 DEF Flags, Hosted, Away
<1> QED  BY <1>1, <1>2, <1>3, <1>4, <1>5, <1>6, Hosts, Zenon

\* Between two runs nothing is to be brought to the host.
LEMMA TickHost ==
    ASSUME HostInv, NEW r \in Replicas, Tick(r) PROVE HostInv'
<1> DEFINE x == [Idle("get", manager[r].gen, FALSE) EXCEPT !.need = ~certExists(disk[r])]
<1>1. manager' = [manager EXCEPT ![r] = x]
  BY HostOf DEF Tick
<1>2. DOMAIN x = Fields /\ x.pc = "get" /\ x.changed = FALSE
  BY DEF Idle, Fields
<1>3. /\ manager[r].pc = "idle"
      /\ secret' = secret /\ missed' = missed /\ disk' = disk
  BY DEF Tick, cluster
<1> HIDE DEF x
<1>4. Flags(x) /\ (r \notin missed' => Hosted(x, disk[r], secret'))
  BY <1>2, <1>3, HostOf DEF Flags, Hosted, Away
<1> QED  BY <1>1, <1>2, <1>3, <1>4, HostKept, Zenon

\* A run that ends early leaves the host behind if it had something to bring.
LEMMA ReturnedHost ==
    ASSUME HostInv, NEW r \in Replicas,
           manager' = [manager EXCEPT ![r] = Returned(manager[r])],
           missed' = Behind(r), manager[r].pc \notin Away,
           secret' = secret, disk' = disk
    PROVE  HostInv'
<1> DEFINE x == Returned(manager[r])
<1>1. manager' = [manager EXCEPT ![r] = x]
  OBVIOUS
<1>2. DOMAIN x = Fields /\ x.pc \in {"down", "idle"} /\ x.changed = FALSE /\ x.need = FALSE
  BY ReturnedRun, ZenonT(30)
<1>3. /\ missed \subseteq missed'
      /\ r \notin missed' => r \notin missed /\ ~manager[r].changed /\ ~manager[r].need
  BY DEF Behind
<1> HIDE DEF x
<1>4. Flags(x) /\ (r \notin missed' => Hosted(x, disk[r], secret'))
  BY <1>2, <1>3, HostOf DEF Flags, Hosted
<1> QED  BY <1>1, <1>2, <1>3, <1>4, HostKept, ZenonT(30)

\* So with what Abandon leaves.
LEMMA AbandonHost ==
    ASSUME HostInv, NEW r \in Replicas, Abandon(r), manager[r].pc \notin Away,
           secret' = secret, disk' = disk
    PROVE  HostInv'
BY ReturnedHost, ZenonT(30) DEF Abandon

\* Reading and comparing a configuration keeps the flags.
LEMMA GetConfigHost ==
    ASSUME HostInv, NEW r \in Replicas, GetConfig(r) PROVE HostInv'
<1> DEFINE m == manager[r]
           y == Compared(m, m.i)
           x == [y EXCEPT !.i = IF m.i = Len(All) THEN 1 ELSE m.i + 1,
                          !.pc = IF m.i = Len(All) THEN "read" ELSE "get"]
<1>0. /\ m.pc = "get" /\ DOMAIN m = Fields
      /\ secret' = secret /\ missed' = missed /\ disk' = disk
  BY HostOf DEF GetConfig, cluster
<1>1. manager' = [manager EXCEPT ![r] = x]
  BY HostOf DEF GetConfig
<1>2. DOMAIN y = Fields /\ y.need = m.need /\ y.changed = m.changed
  BY <1>0 DEF Compared, Fields
<1>3. /\ DOMAIN x = Fields /\ x.pc \in {"get", "read"}
      /\ x.need = m.need /\ x.changed = m.changed
  <2> HIDE DEF y
  <2> QED  BY <1>2 DEF Fields
<1> HIDE DEF x
<1>4. Flags(x) /\ (r \notin missed' => Hosted(x, disk[r], secret'))
  BY <1>0, <1>3, HostOf DEF Flags, Hosted, Away
<1> QED  BY <1>0, <1>1, <1>3, <1>4, HostKept, Zenon

\* Provision sets the flag it is told to.
LEMMA ProvisionedFlags ==
    ASSUME NEW m, DOMAIN m = Fields, NEW cert, NEW changed
    PROVE  /\ DOMAIN Provision(m, cert, changed) = Fields
           /\ Provision(m, cert, changed).pc = "update"
           /\ Provision(m, cert, changed).need = m.need
           /\ changed = TRUE => Provision(m, cert, changed).changed = TRUE
BY Zenon DEF Provision, Fields

\* So does handleCommon.
LEMMA EnsuredFlags ==
    ASSUME NEW m, DOMAIN m = Fields, NEW changed
    PROVE  /\ DOMAIN Ensured(m, changed) = Fields
           /\ Ensured(m, changed).pc \in {"update", "overwrite"}
           /\ Ensured(m, changed).need = m.need
           /\ changed = TRUE => Ensured(m, changed).changed = TRUE
<1> DEFINE known == [m EXCEPT !.gen = secret.ca]
           p == Provision(known, secret, changed)
           o == [known EXCEPT !.pc = "overwrite", !.changed = changed]
<1>1. DOMAIN known = Fields /\ known.need = m.need
  BY DEF Fields
<1>2. /\ DOMAIN p = Fields /\ p.pc = "update" /\ p.need = m.need
      /\ changed = TRUE => p.changed = TRUE
  <2> HIDE DEF known
  <2> QED  BY <1>1, ProvisionedFlags, ZenonT(30)
<1>3. DOMAIN o = Fields /\ o.pc = "overwrite" /\ o.need = m.need /\ o.changed = changed
  <2> HIDE DEF known
  <2> QED  BY <1>1 DEF Fields
<1>4. Ensured(m, changed) = p \/ Ensured(m, changed) = o
  BY DEF Ensured
<1> HIDE DEF p, o
<1> QED  BY <1>2, <1>3, <1>4

\* A run that has reached no flag yet reads the secret.
LEMMA ReadHost ==
    ASSUME HostInv, NEW r \in Replicas, Read(r) PROVE HostInv'
<1> DEFINE m == manager[r]
           x == IF secret = Absent THEN [m EXCEPT !.pc = "create"] ELSE Ensured(m, FALSE)
<1>0. /\ m.pc = "read" /\ DOMAIN m = Fields
      /\ secret' = secret /\ missed' = missed /\ disk' = disk
  BY HostOf DEF Read, cluster
<1>1. manager' = [manager EXCEPT ![r] = x]
  BY HostOf DEF Read
<1>2. DOMAIN x = Fields /\ x.pc \in {"create", "update", "overwrite"} /\ x.need = m.need
  <2>1. LET y == [m EXCEPT !.pc = "create"]
        IN  DOMAIN y = Fields /\ y.pc = "create" /\ y.need = m.need
    BY <1>0 DEF Fields
  <2> HIDE DEF m
  <2> QED  BY <1>0, <2>1, EnsuredFlags, Zenon
<1> HIDE DEF x
<1>3. Flags(x) /\ (r \notin missed' => Hosted(x, disk[r], secret'))
  BY <1>0, <1>2, HostOf DEF Flags, Hosted, Away
<1> QED  BY <1>0, <1>1, <1>2, <1>3, HostKept, Zenon

\* So does one whose read fails.
LEMMA ReadFailsHost ==
    ASSUME HostInv, NEW r \in Replicas, ReadFails(r) PROVE HostInv'
<1> DEFINE m == manager[r]
           x == [m EXCEPT !.pc = "overwrite", !.blind = TRUE]
<1>0. /\ m.pc \in {"read", "reread"} /\ DOMAIN m = Fields
      /\ secret' = secret /\ missed' = missed /\ disk' = disk
  BY HostOf DEF ReadFails, cluster
<1>1. manager' = [manager EXCEPT ![r] = x]
  BY HostOf DEF ReadFails
<1>2. /\ DOMAIN x = Fields /\ x.pc = "overwrite"
      /\ x.need = m.need /\ x.changed = m.changed
  BY <1>0 DEF Fields
<1> HIDE DEF x
<1>3. Flags(x) /\ (r \notin missed' => Hosted(x, disk[r], secret'))
  BY <1>0, <1>2, HostOf DEF Flags, Hosted, Away
<1> QED  BY <1>0, <1>1, <1>2, <1>3, HostKept, Zenon

\* Who stores a certificate is going to bring it to its host.
LEMMA StoreHost ==
    ASSUME HostInv, NEW r \in Replicas, NEW cert, Store(r, cert), disk' = disk
    PROVE  HostInv'
<1> DEFINE m == manager[r]
           x == Provision(m, cert, TRUE)
<1>0. DOMAIN m = Fields
  BY HostOf
<1>1. manager' = [manager EXCEPT ![r] = x]
  BY HostOf DEF Store
<1>2. DOMAIN x = Fields /\ x.pc = "update" /\ x.changed = TRUE
  BY <1>0, Zenon DEF Provision, Fields
<1>3. missed \subseteq missed' /\ Replicas \ {r} \subseteq missed'
  BY DEF Store
<1> HIDE DEF x
<1>4. Flags(x) /\ Hosted(x, disk[r], secret')
  BY <1>2 DEF Flags, Hosted
<1> QED  BY <1>1, <1>2, <1>3, <1>4, HostKept, Zenon

\* The racer that lost is going to bring the winner's.
LEMMA CreateHost ==
    ASSUME HostInv, NEW r \in Replicas, Create(r) PROVE HostInv'
<1> DEFINE m == manager[r]
           x == [m EXCEPT !.pc = "reread", !.changed = TRUE]
<1>0. DOMAIN m = Fields /\ disk' = disk
  BY HostOf DEF Create
<1>1. CASE secret = Absent
  <2>1. Store(r, Generated(m))
    BY <1>1 DEF Create
  <2> QED  BY <1>0, <2>1, StoreHost
<1>2. CASE secret # Absent
  <2>1. manager' = [manager EXCEPT ![r] = x] /\ secret' = secret /\ missed' = missed
    BY <1>2, HostOf DEF Create
  <2>2. DOMAIN x = Fields /\ x.pc = "reread" /\ x.changed = TRUE
    BY <1>0 DEF Fields
  <2> HIDE DEF x
  <2>3. Flags(x) /\ Hosted(x, disk[r], secret')
    BY <2>2 DEF Flags, Hosted
  <2> QED  BY <1>0, <2>1, <2>2, <2>3, HostKept, Zenon
<1> QED  BY <1>1, <1>2

\* It reads it, unless it is gone.
LEMMA ReReadHost ==
    ASSUME HostInv, NEW r \in Replicas, ReRead(r) PROVE HostInv'
<1> DEFINE m == manager[r]
           x == Ensured(m, TRUE)
<1>0. DOMAIN m = Fields /\ m.pc = "reread" /\ disk' = disk /\ secret' = secret
  BY HostOf DEF ReRead
<1>1. CASE secret = Absent
  <2>1. Abandon(r) /\ m.pc \notin Away
    BY <1>0, <1>1 DEF ReRead, Away
  <2> QED  BY <1>0, <2>1, AbandonHost
<1>2. CASE secret # Absent
  <2>1. manager' = [manager EXCEPT ![r] = x] /\ missed' = missed
    BY <1>2, HostOf, Zenon DEF ReRead
  <2>2. DOMAIN x = Fields /\ x.pc \in {"update", "overwrite"} /\ x.changed = TRUE
    BY <1>0, EnsuredFlags, ZenonT(30)
  <2> HIDE DEF x
  <2>3. Flags(x) /\ Hosted(x, disk[r], secret')
    BY <2>2 DEF Flags, Hosted
  <2> QED  BY <1>0, <2>1, <2>2, <2>3, HostKept, Zenon
<1> QED  BY <1>1, <1>2

\* A secret that is overwritten is brought to the host as well.
LEMMA OverwriteHost ==
    ASSUME HostInv, NEW r \in Replicas, Overwrite(r) PROVE HostInv'
<1>0. manager[r].pc \notin Away /\ disk' = disk
  BY DEF Overwrite, Away
<1>1. CASE secret = Absent
  <2>1. Abandon(r) /\ secret' = secret
    BY <1>1 DEF Overwrite
  <2> QED  BY <1>0, <2>1, AbandonHost
<1>2. CASE secret # Absent
  <2>1. Store(r, Generated(manager[r]))
    BY <1>2, SMTT(30) DEF Overwrite
  <2> QED  BY <1>0, <2>1, StoreHost
<1> QED  BY <1>1, <1>2

\* A certificate that was stored with an error leaves every host behind.
LEMMA SecretFailsHost ==
    ASSUME HostInv, NEW r \in Replicas, SecretFails(r) PROVE HostInv'
<1> DEFINE x == Returned(manager[r])
<1>0. /\ manager' = [manager EXCEPT ![r] = x] /\ disk' = disk
      /\ manager[r].pc \notin Away
  BY DEF SecretFails, Away
<1>1. CASE missed' = Behind(r) /\ UNCHANGED <<secret, fresh, history>>
  BY <1>0, <1>1, ReturnedHost, ZenonT(30)
<1>2. CASE missed' = Replicas
  <2>1. DOMAIN x = Fields /\ x.pc \in {"down", "idle"} /\ x.changed = FALSE /\ x.need = FALSE
    BY ReturnedRun, ZenonT(30)
  <2> HIDE DEF x
  <2>2. Flags(x)
    BY <2>1 DEF Flags
  <2>3. /\ DOMAIN manager' = Replicas /\ manager'[r] = x
        /\ \A q \in Replicas \ {r} : manager'[q] = manager[q]
    BY <1>0 DEF HostInv, Records
  <2> QED  BY <1>0, <1>2, <2>1, <2>2, <2>3 DEF HostInv, Records, Files
<1> QED  BY <1>1, <1>2, ZenonT(30) DEF SecretFails

\* A file that was not written: the run had something to bring to the host.
LEMMA WriteFailsHost ==
    ASSUME HostInv, NEW r \in Replicas, WriteFails(r) PROVE HostInv'
<1> DEFINE m == manager[r]
           x == Returned(m)
<1>0. /\ m.pc \in {"cert", "key"} /\ manager' = [manager EXCEPT ![r] = x]
      /\ missed' = Behind(r) /\ secret' = secret
  BY DEF WriteFails, Abandon
<1>1. r \in missed' /\ missed \subseteq missed'
  BY <1>0, HostOf DEF Flags, Behind
<1>2. DOMAIN x = Fields /\ x.pc \in {"down", "idle"} /\ x.changed = FALSE /\ x.need = FALSE
  BY ReturnedRun, ZenonT(30)
<1> HIDE DEF x
<1>3. Flags(x)
  BY <1>2 DEF Flags
<1>4. PICK d : /\ disk' = [disk EXCEPT ![r] = d] \/ (disk' = disk /\ d = disk[r])
               /\ DOMAIN d = {"cert", "key"}
  <2>1. CASE UNCHANGED disk
    BY <2>1, HostOf
  <2>2. CASE disk' = [disk EXCEPT ![r].cert = Blank]
    <3>1. DOMAIN [disk[r] EXCEPT !.cert = Blank] = {"cert", "key"}
      BY HostOf
    <3> QED  BY <2>2, <3>1, ZenonT(30)
  <2>3. CASE disk' = [disk EXCEPT ![r].key = Blank]
    <3>1. DOMAIN [disk[r] EXCEPT !.key = Blank] = {"cert", "key"}
      BY HostOf
    <3> QED  BY <2>3, <3>1, ZenonT(30)
  <2> QED  BY <2>1, <2>2, <2>3 DEF WriteFails
<1> QED  BY <1>0, <1>1, <1>2, <1>3, <1>4, Hosts, ZenonT(30)

\* A run that has updated every configuration ends only if it has nothing to
\* bring to the host.
LEMMA UpdateHost ==
    ASSUME HostInv, NEW r \in Replicas, Update(r) PROVE HostInv'
<1> DEFINE m == manager[r]
           c == All[m.i]
           x == IF m.i < Len(All) THEN [m EXCEPT !.i = m.i + 1]
                ELSE IF hostUpdate(m) THEN [m EXCEPT !.pc = "fetch"]
                ELSE Idle("idle", m.gen, FALSE)
<1>0. DOMAIN m = Fields /\ m.pc = "update" /\ secret' = secret /\ disk' = disk
  BY HostOf DEF Update
<1>1. CASE c \in stale[r]
  <2>1. Abandon(r) /\ m.pc \notin Away
    BY <1>0, <1>1 DEF Update, Away
  <2> QED  BY <1>0, <2>1, AbandonHost
<1>2. CASE c \notin stale[r]
  <2>1. manager' = [manager EXCEPT ![r] = x] /\ missed' = missed
    BY <1>2, HostOf, Zenon DEF Update
  <2>2. /\ DOMAIN x = Fields
        /\ \/ x.pc = "update" /\ x.need = m.need /\ x.changed = m.changed
           \/ x.pc = "fetch" /\ x.need = m.need /\ x.changed = m.changed /\ hostUpdate(m)
           \/ x.pc = "idle" /\ x.need = FALSE /\ x.changed = FALSE /\ ~hostUpdate(m)
    <3>1. LET y == [m EXCEPT !.i = m.i + 1]
          IN  DOMAIN y = Fields /\ y.pc = "update" /\ y.need = m.need /\ y.changed = m.changed
      BY <1>0 DEF Fields
    <3>2. LET y == [m EXCEPT !.pc = "fetch"]
          IN  DOMAIN y = Fields /\ y.pc = "fetch" /\ y.need = m.need /\ y.changed = m.changed
      BY <1>0 DEF Fields
    <3>3. LET y == Idle("idle", m.gen, FALSE)
          IN  DOMAIN y = Fields /\ y.pc = "idle" /\ y.need = FALSE /\ y.changed = FALSE
      BY DEF Idle, Fields
    <3> QED  BY <3>1, <3>2, <3>3, ZenonT(30)
  <2> HIDE DEF x
  <2>3. Flags(x) /\ (r \notin missed' => Hosted(x, disk[r], secret'))
    BY <1>0, <2>1, <2>2, HostOf DEF Flags, Hosted, Away, hostUpdate
  <2> QED  BY <1>0, <2>1, <2>2, <2>3, HostKept, Zenon
<1> QED  BY <1>1, <1>2

\* What is fetched is the secret.
LEMMA FetchHost ==
    ASSUME HostInv, NEW r \in Replicas, Fetch(r) PROVE HostInv'
<1> DEFINE m == manager[r]
           x == [m EXCEPT !.pc = "cert", !.got = secret]
<1>0. DOMAIN m = Fields /\ m.pc = "fetch" /\ secret' = secret /\ disk' = disk
  BY HostOf DEF Fetch
<1>1. CASE secret = Absent
  <2>1. Abandon(r) /\ m.pc \notin Away
    BY <1>0, <1>1 DEF Fetch, Away
  <2> QED  BY <1>0, <2>1, AbandonHost
<1>2. CASE secret # Absent
  <2>1. manager' = [manager EXCEPT ![r] = x] /\ missed' = missed \ {r}
    BY <1>2, HostOf DEF Fetch
  <2>2. /\ DOMAIN x = Fields /\ x.pc = "cert" /\ x.got = secret
        /\ x.need = m.need /\ x.changed = m.changed
    BY <1>0 DEF Fields
  <2> HIDE DEF x
  <2>3. Flags(x) /\ Hosted(x, disk[r], secret')
    BY <1>0, <2>2, HostOf DEF Flags, Hosted
  <2> QED  BY <1>0, <2>1, <2>2, <2>3, HostKept, Zenon
<1> QED  BY <1>1, <1>2

\* Or nothing, and the host is left behind.
LEMMA FetchFailsHost ==
    ASSUME HostInv, NEW r \in Replicas, FetchFails(r) PROVE HostInv'
<1> DEFINE m == manager[r]
           x == [m EXCEPT !.pc = "cert", !.got = Blank]
<1>0. /\ DOMAIN m = Fields /\ m.pc = "fetch"
      /\ secret' = secret /\ disk' = disk /\ missed' = missed \cup {r}
  BY HostOf DEF FetchFails, cluster
<1>1. manager' = [manager EXCEPT ![r] = x]
  BY HostOf DEF FetchFails
<1>2. DOMAIN x = Fields /\ x.pc = "cert" /\ x.need = m.need /\ x.changed = m.changed
  BY <1>0 DEF Fields
<1> HIDE DEF x
<1>3. Flags(x)
  BY <1>0, <1>2, HostOf DEF Flags
<1> QED  BY <1>0, <1>1, <1>2, <1>3, HostKept, Zenon

\* The certificate is written, then the key.
LEMMA WriteCertHost ==
    ASSUME HostInv, NEW r \in Replicas, WriteCert(r) PROVE HostInv'
<1> DEFINE m == manager[r]
           x == [m EXCEPT !.pc = "key"]
           d == [disk[r] EXCEPT !.cert = m.got]
<1>0. DOMAIN m = Fields /\ m.pc = "cert" /\ secret' = secret /\ missed' = missed
  BY HostOf DEF WriteCert, cluster
<1>1. manager' = [manager EXCEPT ![r] = x] /\ disk' = [disk EXCEPT ![r] = d]
  BY HostOf DEF WriteCert
<1>2. /\ DOMAIN x = Fields /\ x.pc = "key" /\ x.got = m.got
      /\ x.need = m.need /\ x.changed = m.changed
  BY <1>0 DEF Fields
<1>3. DOMAIN d = {"cert", "key"} /\ d.cert = m.got
  BY HostOf
<1> HIDE DEF x, d
<1>4. Flags(x) /\ (r \notin missed' => Hosted(x, d, secret'))
  BY <1>0, <1>2, <1>3, HostOf DEF Flags, Hosted
<1> QED  BY <1>0, <1>1, <1>2, <1>3, <1>4, Hosts, Zenon

\* Then the host has both.
LEMMA WriteKeyHost ==
    ASSUME HostInv, NEW r \in Replicas, WriteKey(r) PROVE HostInv'
<1> DEFINE m == manager[r]
           x == Idle("idle", m.gen, FALSE)
           d == [disk[r] EXCEPT !.key = m.got]
<1>0. m.pc = "key" /\ secret' = secret /\ missed' = missed
  BY HostOf DEF WriteKey, cluster
<1>1. manager' = [manager EXCEPT ![r] = x] /\ disk' = [disk EXCEPT ![r] = d]
  BY HostOf DEF WriteKey
<1>2. DOMAIN x = Fields /\ x.pc = "idle" /\ x.need = FALSE /\ x.changed = FALSE
  BY DEF Idle, Fields
<1>3. DOMAIN d = {"cert", "key"} /\ d.cert = disk[r].cert /\ d.key = m.got
  BY HostOf
<1> HIDE DEF x, d
<1>4. Flags(x) /\ (r \notin missed' => Hosted(x, d, secret'))
  BY <1>0, <1>2, <1>3, HostOf DEF Flags, Hosted
<1> QED  BY <1>0, <1>1, <1>2, <1>3, <1>4, Hosts, Zenon

\* A stopped process manages nothing.
LEMMA CrashHost ==
    ASSUME HostInv, NEW r \in Replicas, Crash(r) PROVE HostInv'
<1> DEFINE x == Idle("down", 0, TRUE)
<1>1. /\ manager' = [manager EXCEPT ![r] = x]
      /\ secret' = secret /\ disk' = disk /\ missed \subseteq missed'
  BY HostOf DEF Crash, Behind
<1>2. DOMAIN x = Fields /\ x.pc = "down"
  BY DEF Idle, Fields
<1> HIDE DEF x
<1>3. Flags(x) /\ Hosted(x, disk[r], secret')
  BY <1>2 DEF Flags, Hosted, Away
<1> QED  BY <1>1, <1>2, <1>3, HostKept, ZenonT(30)

\* At first no process runs.
LEMMA HostInit == Init => HostInv
<1> SUFFICES ASSUME Init PROVE HostInv
  OBVIOUS
<1>1. PICK deployed :
        manager = [r \in Replicas |->
          Idle(IF r \in deployed THEN "down" ELSE "undeployed", 0, TRUE)]
  BY Zenon DEF Init
<1>2. ASSUME NEW r \in Replicas
      PROVE  DOMAIN manager[r] = Fields /\ manager[r].pc \in {"down", "undeployed"}
  BY <1>1 DEF Idle, Fields
<1>3. ASSUME NEW r \in Replicas
      PROVE  Flags(manager[r]) /\ Hosted(manager[r], disk[r], secret)
  BY <1>2 DEF Flags, Hosted, Away
<1>4. DOMAIN manager = Replicas /\ Files
  BY <1>1, SMTT(30) DEF Init, Files
<1> QED  BY <1>2, <1>3, <1>4 DEF HostInv, Records

\* Every step keeps what is known of the hosts.
LEMMA HostStep == HostInv /\ [Next]_certVars => HostInv'
<1> SUFFICES ASSUME HostInv, [Next]_certVars PROVE HostInv'
  OBVIOUS
<1>1. ASSUME NEW r \in Replicas, Works(r) PROVE HostInv'
  BY <1>1, StartHost, TickHost, GetConfigHost, ReadHost, CreateHost, ReReadHost,
     OverwriteHost, UpdateHost, FetchHost, WriteCertHost, WriteKeyHost DEF Works
<1>2. ASSUME NEW r \in Replicas, Fails(r) PROVE HostInv'
  <2>1. ASSUME ConfigFails(r) \/ UpdateFails(r) PROVE HostInv'
    <3>1. /\ manager' = [manager EXCEPT ![r] = Returned(manager[r])]
          /\ missed' = Behind(r) /\ secret' = secret /\ disk' = disk
          /\ manager[r].pc \notin Away
      BY <2>1 DEF ConfigFails, UpdateFails, Abandon, Away
    <3> QED  BY <3>1, ReturnedHost, ZenonT(30)
  <2> QED
    BY <1>2, <2>1, ReadFailsHost, FetchFailsHost, SecretFailsHost, WriteFailsHost DEF Fails
<1>3. ASSUME Age \/ (\E c \in Configs : Reapply(c)) \/ UNCHANGED certVars
      PROVE  HostInv'
  <2>1. UNCHANGED <<manager, secret, disk, missed>>
    BY <1>3 DEF Age, Reapply, certVars, cluster, history
  <2> QED  BY <2>1 DEF HostInv, Records, Files
<1>4. CASE DeleteSecret
  <2>1. missed' = Replicas /\ UNCHANGED <<manager, disk>>
    BY <1>4 DEF DeleteSecret
  <2> QED  BY <2>1 DEF HostInv, Records, Files
<1> QED
  BY <1>1, <1>2, <1>3, <1>4, CrashHost DEF Next

\* Between two runs a host that the code did not leave behind has the
\* certificate and the key of the secret: HostCert for any number of replicas,
\* configurations, failed calls and crashes.
THEOREM HostCertHolds == Spec => []HostCert
<1>1. HostInv => HostCert
  BY DEF HostInv, HostCert, Flags, Hosted, Away
<1> QED  BY <1>1, HostInit, HostStep, PTL DEF Spec

----------------------------------------------------------------------------
(* CertTypeOK.  It is not inductive in what it says of CABundles: that they  *)
(* are sequences, and that a manager about to update has one with a CA.      *)

Places == {"undeployed", "down", "skip", "idle", "get", "read", "create", "reread",
           "overwrite", "update", "fetch", "cert", "key"}

\* A manager, where the secret has held certificates C of the CAs R.
Typed(m, R, C) ==
    /\ DOMAIN m = Fields
    /\ m.pc \in Places
    /\ m.i \in DOMAIN All
    /\ m.gen \in R \cup {0}
    /\ m.got \in C \cup {Absent, Blank}
    /\ m.common \in Seq(R)
    /\ m.pc = "update" => m.common # <<>>

FilesOf(C) == [cert : C \cup {Absent, Blank}, key : C \cup {Absent, Blank}]

TypeInv ==
    /\ stored \in Nat
    /\ secret \in Certs \cup {Absent}
    /\ fresh \in BOOLEAN /\ (fresh => secret # Absent)
    /\ bundle \in [Configs -> Seq(roots)]
    /\ stale \in [Replicas -> SUBSET Configs]
    /\ disk \in [Replicas -> FilesOf(Certs)]
    /\ DOMAIN manager = Replicas
    /\ \A r \in Replicas : Typed(manager[r], roots, Certs)
    /\ missed \subseteq Replicas

\* The configurations are numbered, and there is a first one.
LEMMA Numbered ==
    /\ DOMAIN All = 1..Len(All) /\ Len(All) \in Nat /\ 1 \in DOMAIN All
    /\ \A i \in DOMAIN All : All[i] \in Configs
<1>1. All \in Seq(Configs)
  BY CertAssumption DEF All
<1>2. All # <<>>
  BY CertAssumption
<1> HIDE DEF All
<1> QED  BY <1>1, <1>2

\* Sequences over a set are sequences over a larger one.
LEMMA SeqGrows ==
    ASSUME NEW A, NEW B, A \subseteq B
    PROVE  Seq(A) \subseteq Seq(B)
<1> SUFFICES ASSUME NEW s \in Seq(A) PROVE s \in Seq(B)
  OBVIOUS
<1>1. Len(s) \in Nat /\ s = [i \in 1..Len(s) |-> s[i]] /\ \A i \in 1..Len(s) : s[i] \in B
  OBVIOUS
<1> QED  BY <1>1

\* What a manager holds stays among the certificates and CAs the secret has held.
LEMMA TypedGrows ==
    ASSUME NEW R, NEW S, NEW C, NEW D, R \subseteq S, C \subseteq D,
           NEW m, Typed(m, R, C)
    PROVE  Typed(m, S, D)
<1>1. m.common \in Seq(S)
  BY SeqGrows DEF Typed
<1> QED  BY <1>1 DEF Typed

\* A manager between two runs.
LEMMA IdleTyped ==
    ASSUME NEW R, NEW C, NEW p \in Places \ {"update"}, NEW g \in R \cup {0}, NEW first
    PROVE  Typed(Idle(p, g, first), R, C)
<1>1. <<>> \in Seq(R)
  OBVIOUS
<1>2. /\ DOMAIN Idle(p, g, first) = Fields /\ Idle(p, g, first).pc = p
      /\ Idle(p, g, first).i = 1 /\ Idle(p, g, first).gen = g
      /\ Idle(p, g, first).got = Absent /\ Idle(p, g, first).common = <<>>
  BY DEF Idle, Fields
<1> QED  BY <1>1, <1>2, Numbered DEF Typed

\* Provision adds the certificate's CA to the bundle, which has one then.
LEMMA ProvisionTyped ==
    ASSUME NEW R, NEW C, NEW m, Typed(m, R, C), NEW cert, cert.ca \in R, NEW changed
    PROVE  Typed(Provision(m, cert, changed), R, C)
<1> DEFINE known == \E j \in DOMAIN m.common : m.common[j] = cert.ca
           new == IF known THEN m.common ELSE Append(m.common, cert.ca)
           x == Provision(m, cert, changed)
<1>1. m.common \in Seq(R) /\ DOMAIN m = Fields
  BY DEF Typed
<1>2. new \in Seq(R) /\ new # <<>>
  <2>1. CASE known
    BY <1>1, <2>1
  <2>2. CASE ~known
    BY <1>1, <2>2
  <2> QED  BY <2>1, <2>2
<1>3. x = [m EXCEPT !.pc = "update", !.i = 1, !.changed = changed \/ ~known,
                    !.common = new]
  BY <1>1 DEF Provision, Fields
<1> HIDE DEF new, known
<1>4. /\ DOMAIN x = Fields /\ x.pc = "update" /\ x.i = 1 /\ x.gen = m.gen
      /\ x.got = m.got /\ x.common = new
  BY <1>1, <1>3 DEF Fields
<1> HIDE DEF x
<1>5. Typed(x, R, C)
  BY <1>2, <1>4, Numbered DEF Typed, Places
<1> QED  BY <1>5 DEF x

\* What handleCommon makes of a secret it has read.
LEMMA EnsuredTyped ==
    ASSUME TypeInv, NEW m, Typed(m, roots, Certs), NEW changed, secret # Absent
    PROVE  Typed(Ensured(m, changed), roots, Certs)
<1> DEFINE known == [m EXCEPT !.gen = secret.ca]
<1>1. secret.ca \in roots
  BY DEF TypeInv, Certs
<1>2. /\ DOMAIN known = Fields /\ known.pc = m.pc /\ known.i = m.i
      /\ known.gen = secret.ca /\ known.got = m.got /\ known.common = m.common
  BY DEF Typed, Fields
<1> HIDE DEF known
<1>3. Typed(known, roots, Certs)
  BY <1>1, <1>2 DEF Typed
<1>4. CASE validCert
  BY <1>1, <1>3, <1>4, ProvisionTyped DEF Ensured, known
<1>5. CASE ~validCert
  <2> DEFINE x == [known EXCEPT !.pc = "overwrite", !.changed = changed]
  <2>1. /\ DOMAIN x = Fields /\ x.pc = "overwrite" /\ x.i = known.i
        /\ x.gen = known.gen /\ x.got = known.got /\ x.common = known.common
    BY <1>2 DEF Fields
  <2>2. Ensured(m, changed) = x
    BY <1>5 DEF Ensured, known
  <2> HIDE DEF x
  <2>3. Typed(x, roots, Certs)
    BY <1>3, <2>1 DEF Typed, Places
  <2> QED  BY <2>2, <2>3
<1> QED  BY <1>4, <1>5

\* A comparison of bundles leaves a bundle.
LEMMA ComparedTyped ==
    ASSUME TypeInv, NEW m, Typed(m, roots, Certs), m.pc = "get"
    PROVE  /\ Typed(Compared(m, m.i), roots, Certs)
           /\ Compared(m, m.i).i = m.i
<1> DEFINE b == bundle[All[m.i]]
           res == compareCABundles(m.common, b)
<1>0. b \in Seq(roots) /\ m.common \in Seq(roots) /\ DOMAIN m = Fields
  BY Numbered DEF TypeInv, Typed
<1>1. res.common \in Seq(roots)
  <2>1. <<>> \in Seq(roots)
    OBVIOUS
  <2>2. res.common \in {b, m.common, <<>>}
    <3> HIDE DEF b
    <3> QED  BY DEF compareCABundles
  <2> QED  BY <1>0, <2>1, <2>2, Zenon
<1>2. Compared(m, m.i) = CASE m.i > Len(Webhooks) -> [m EXCEPT !.common = res.common]
          [] m.i <= Len(Webhooks) /\ m.differ -> m
          [] OTHER -> [m EXCEPT !.common = res.common, !.differ = res.differ]
  BY DEF Compared
<1> HIDE DEF res, b
<1>3. CASE m.i > Len(Webhooks)
  <2>1. ~(m.i <= Len(Webhooks))
    BY <1>3, Numbered, CertAssumption DEF Typed
  <2>2. Compared(m, m.i) = [m EXCEPT !.common = res.common]
    BY <1>2, <1>3, <2>1
  <2> QED  BY <1>0, <1>1, <2>2 DEF Typed, Fields
<1>4. CASE ~(m.i > Len(Webhooks)) /\ m.i <= Len(Webhooks) /\ m.differ
  <2>1. Compared(m, m.i) = m
    BY <1>2, <1>4
  <2> QED  BY <2>1
<1>5. CASE ~(m.i > Len(Webhooks)) /\ ~(m.i <= Len(Webhooks) /\ m.differ)
  <2> DEFINE z == [m EXCEPT !.common = res.common, !.differ = res.differ]
  <2>1. Compared(m, m.i) = z
    BY <1>2, <1>5
  <2>2. /\ DOMAIN z = Fields /\ z.pc = m.pc /\ z.i = m.i /\ z.gen = m.gen
        /\ z.got = m.got /\ z.common = res.common
    BY <1>0 DEF Fields
  <2> HIDE DEF z
  <2>3. Typed(z, roots, Certs)
    BY <1>1, <2>2 DEF Typed
  <2> QED  BY <2>1, <2>2, <2>3
<1> QED  BY <1>3, <1>4, <1>5

\* A step of one replica that stores nothing.
LEMMA TypeStays ==
    ASSUME TypeInv, NEW r \in Replicas, NEW x, Typed(x, roots, Certs),
           manager' = [manager EXCEPT ![r] = x],
           UNCHANGED <<secret, fresh, stored, roots>>,
           bundle' \in [Configs -> Seq(roots)],
           stale' \in [Replicas -> SUBSET Configs],
           disk' \in [Replicas -> FilesOf(Certs)],
           missed' \subseteq Replicas
    PROVE  TypeInv'
<1>1. DOMAIN manager' = Replicas
      /\ \A q \in Replicas : Typed(manager'[q], roots, Certs)
  BY DEF TypeInv
<1>2. Certs' = Certs
  BY DEF Certs
<1> QED  BY <1>1, <1>2 DEF TypeInv

\* What is known of the replica that takes a step.
LEMMA TypeOf ==
    ASSUME TypeInv, NEW r \in Replicas
    PROVE  /\ DOMAIN manager = Replicas /\ DOMAIN manager[r] = Fields
           /\ Typed(manager[r], roots, Certs)
           /\ bundle \in [Configs -> Seq(roots)]
           /\ stale \in [Replicas -> SUBSET Configs]
           /\ disk \in [Replicas -> FilesOf(Certs)]
           /\ missed \subseteq Replicas
BY DEF TypeInv, Typed

\* A run returns an error.
LEMMA ReturnedTyped ==
    ASSUME NEW R, NEW C, NEW m, m.gen \in R \cup {0}
    PROVE  Typed(Returned(m), R, C)
<1>1. "down" \in Places \ {"update"} /\ "idle" \in Places \ {"update"}
  BY DEF Places
<1>2. Typed(Idle("down", 0, TRUE), R, C)
  BY <1>1, IdleTyped, Zenon
<1>3. Typed(Idle("idle", m.gen, FALSE), R, C)
  BY <1>1, IdleTyped, Zenon
<1> QED  BY <1>2, <1>3, Zenon DEF Returned

\* It leaves a replica behind at most, and none of its reads.
LEMMA ReturnedSets ==
    ASSUME TypeInv, NEW r \in Replicas
    PROVE  /\ Typed(Returned(manager[r]), roots, Certs)
           /\ Dropped(r) \in [Replicas -> SUBSET Configs] /\ Behind(r) \subseteq Replicas
<1>1. manager[r].gen \in roots \cup {0}
  BY TypeOf DEF Typed
<1> QED  BY <1>1, ReturnedTyped, TypeOf DEF Dropped, Behind

\* A run ends without having done its work.
LEMMA AbandonFiles ==
    ASSUME TypeInv, NEW r \in Replicas, Abandon(r),
           UNCHANGED <<secret, fresh, stored, roots, bundle>>,
           disk' \in [Replicas -> FilesOf(Certs)]
    PROVE  TypeInv'
<1> DEFINE x == Returned(manager[r])
<1>1. manager' = [manager EXCEPT ![r] = x] /\ stale' = Dropped(r) /\ missed' = Behind(r)
  BY DEF Abandon
<1>2. /\ Typed(x, roots, Certs) /\ stale' \in [Replicas -> SUBSET Configs]
      /\ missed' \subseteq Replicas
  BY <1>1, ReturnedSets, Zenon
<1> HIDE DEF x
<1> QED  BY <1>1, <1>2, TypeOf, TypeStays, Zenon

\* Mostly it has not written a file.
LEMMA AbandonType ==
    ASSUME TypeInv, NEW r \in Replicas, Abandon(r),
           UNCHANGED <<secret, fresh, stored, roots, bundle, disk>>
    PROVE  TypeInv'
BY TypeOf, AbandonFiles

\* The container starts, or the ticker fires.
LEMMA BeginType ==
    ASSUME TypeInv, NEW r \in Replicas, Start(r) \/ Tick(r) PROVE TypeInv'
<1> DEFINE get(g, first, need) == [Idle("get", g, first) EXCEPT !.need = need]
<1>1. "skip" \in Places \ {"update"} /\ "get" \in Places \ {"update"}
  BY DEF Places
<1>2. ASSUME NEW g \in roots \cup {0}, NEW first, NEW need
      PROVE  Typed(get(g, first, need), roots, Certs)
  <2> DEFINE y == Idle("get", g, first)
             x == [y EXCEPT !.need = need]
  <2>1. Typed(y, roots, Certs)
    BY <1>1, IdleTyped
  <2>2. y.pc = "get"
    BY DEF Idle
  <2> HIDE DEF y
  <2>3. /\ DOMAIN x = Fields /\ x.pc = y.pc /\ x.i = y.i /\ x.gen = y.gen
        /\ x.got = y.got /\ x.common = y.common
    BY <2>1 DEF Typed, Fields
  <2> HIDE DEF x
  <2>4. Typed(x, roots, Certs)
    BY <2>1, <2>3 DEF Typed
  <2> QED  BY <2>4 DEF x, y
<1>3. CASE Start(r)
  <2>1. PICK kept \in {disk[r], [cert |-> Absent, key |-> Absent]} :
          /\ disk' = [disk EXCEPT ![r] = kept]
          /\ manager' = [manager EXCEPT ![r] =
               IF certExists(kept) THEN Idle("skip", 0, TRUE) ELSE get(0, TRUE, TRUE)]
    BY <1>3, Zenon DEF Start
  <2> DEFINE x == IF certExists(kept) THEN Idle("skip", 0, TRUE) ELSE get(0, TRUE, TRUE)
  <2>2. Typed(x, roots, Certs)
    <3>1. Typed(Idle("skip", 0, TRUE), roots, Certs)
      BY <1>1, IdleTyped, Zenon
    <3>2. Typed(get(0, TRUE, TRUE), roots, Certs)
      BY <1>2, Zenon
    <3> HIDE DEF get
    <3> QED  BY <3>1, <3>2, Zenon
  <2>3. kept \in FilesOf(Certs)
    BY <2>1, TypeOf DEF FilesOf
  <2>4. disk' \in [Replicas -> FilesOf(Certs)]
    BY <2>1, <2>3, TypeOf
  <2>5. UNCHANGED <<secret, fresh, stored, roots, bundle, stale, missed>>
    BY <1>3 DEF Start, cluster, history
  <2>6. manager' = [manager EXCEPT ![r] = x]
    BY <2>1
  <2> HIDE DEF x
  <2> QED  BY <2>2, <2>4, <2>5, <2>6, TypeOf, TypeStays, Zenon
<1>4. CASE Tick(r)
  <2> DEFINE x == get(manager[r].gen, FALSE, ~certExists(disk[r]))
  <2>1. manager' = [manager EXCEPT ![r] = x]
    BY <1>4, TypeOf DEF Tick
  <2>2. Typed(x, roots, Certs)
    <3>1. manager[r].gen \in roots \cup {0}
      BY TypeOf DEF Typed
    <3> QED  BY <1>2, <3>1, Zenon
  <2>3. UNCHANGED <<secret, fresh, stored, roots, bundle, stale, disk, missed>>
    BY <1>4 DEF Tick, cluster, history
  <2> HIDE DEF x
  <2> QED  BY <2>1, <2>2, <2>3, TypeOf, TypeStays, Zenon
<1> QED  BY <1>3, <1>4

\* The configurations are read, and the secret.
LEMMA ReadType ==
    ASSUME TypeInv, NEW r \in Replicas,
           GetConfig(r) \/ Read(r) \/ ReadFails(r) \/ ReRead(r)
    PROVE  TypeInv'
<1> DEFINE m == manager[r]
<1>0. /\ Typed(m, roots, Certs) /\ DOMAIN m = Fields
      /\ UNCHANGED <<secret, fresh, stored, roots, bundle, disk>>
  BY TypeOf, Zenon DEF GetConfig, Read, ReadFails, ReRead, cluster, history
<1>1. CASE GetConfig(r)
  <2> DEFINE y == Compared(m, m.i)
             x == [y EXCEPT !.i = IF m.i = Len(All) THEN 1 ELSE m.i + 1,
                            !.pc = IF m.i = Len(All) THEN "read" ELSE "get"]
  <2>1. manager' = [manager EXCEPT ![r] = x] /\ UNCHANGED <<stale, missed>>
    BY <1>1, TypeOf DEF GetConfig, cluster
  <2>2. Typed(y, roots, Certs) /\ y.i = m.i
    BY <1>0, <1>1, ComparedTyped DEF GetConfig
  <2> HIDE DEF y
  <2>3. /\ DOMAIN x = Fields /\ x.pc \in {"read", "get"} /\ x.gen = y.gen
        /\ x.got = y.got /\ x.common = y.common
        /\ x.i = IF m.i = Len(All) THEN 1 ELSE m.i + 1
    BY <2>2 DEF Typed, Fields
  <2>4. x.i \in DOMAIN All
    <3>1. m.i \in DOMAIN All
      BY <1>0 DEF Typed
    <3> HIDE DEF x, m
    <3> QED  BY <2>3, <3>1, Numbered
  <2> HIDE DEF x
  <2>5. Typed(x, roots, Certs)
    BY <2>2, <2>3, <2>4 DEF Typed, Places
  <2> QED  BY <1>0, <2>1, <2>5, TypeOf, TypeStays, Zenon
<1>2. CASE Read(r) /\ secret = Absent
  <2> DEFINE x == [m EXCEPT !.pc = "create"]
  <2>1. manager' = [manager EXCEPT ![r] = x] /\ UNCHANGED <<stale, missed>>
    BY <1>2, TypeOf DEF Read, cluster
  <2>2. /\ DOMAIN x = Fields /\ x.pc = "create" /\ x.i = m.i /\ x.gen = m.gen
        /\ x.got = m.got /\ x.common = m.common
    BY <1>0 DEF Fields
  <2> HIDE DEF x, m
  <2>3. Typed(x, roots, Certs)
    BY <1>0, <2>2 DEF Typed, Places
  <2> QED  BY <1>0, <2>1, <2>3, TypeOf, TypeStays, Zenon
<1>3. CASE ReadFails(r)
  <2> DEFINE x == [m EXCEPT !.pc = "overwrite", !.blind = TRUE]
  <2>1. manager' = [manager EXCEPT ![r] = x] /\ UNCHANGED <<stale, missed>>
    BY <1>3, TypeOf DEF ReadFails, cluster
  <2>2. /\ DOMAIN x = Fields /\ x.pc = "overwrite" /\ x.i = m.i /\ x.gen = m.gen
        /\ x.got = m.got /\ x.common = m.common
    BY <1>0 DEF Fields
  <2> HIDE DEF x, m
  <2>3. Typed(x, roots, Certs)
    BY <1>0, <2>2 DEF Typed, Places
  <2> QED  BY <1>0, <2>1, <2>3, TypeOf, TypeStays, Zenon
<1>4. ASSUME NEW changed, secret # Absent, UNCHANGED <<stale, missed>>,
             manager' = [manager EXCEPT ![r] = Ensured(m, changed)]
      PROVE  TypeInv'
  <2> DEFINE x == Ensured(m, changed)
  <2>1. Typed(x, roots, Certs)
    BY <1>0, <1>4, EnsuredTyped
  <2>2. manager' = [manager EXCEPT ![r] = x]
    BY <1>4
  <2> HIDE DEF x
  <2> QED  BY <1>0, <1>4, <2>1, <2>2, TypeOf, TypeStays, Zenon
<1>5. CASE Read(r) /\ secret # Absent
  <2>1. manager' = [manager EXCEPT ![r] = Ensured(m, FALSE)] /\ UNCHANGED <<stale, missed>>
    BY <1>5, TypeOf DEF Read, cluster
  <2> QED  BY <1>4, <1>5, <2>1, Zenon
<1>6. CASE ReRead(r) /\ secret # Absent
  <2>1. manager' = [manager EXCEPT ![r] = Ensured(m, TRUE)] /\ UNCHANGED <<stale, missed>>
    BY <1>6, TypeOf, ZenonT(30) DEF ReRead
  <2> QED  BY <1>4, <1>6, <2>1, Zenon
<1>7. CASE ReRead(r) /\ secret = Absent
  BY <1>0, <1>7, AbandonType DEF ReRead
<1> QED  BY <1>1, <1>2, <1>3, <1>5, <1>6, <1>7

\* A certificate is stored: it joins the ones the secret has held, with its CA.
LEMMA StoredType ==
    ASSUME TypeInv, NEW r \in Replicas, Stored(Generated(manager[r])),
           NEW x, manager' = [manager EXCEPT ![r] = x],
           x \in {Provision(manager[r], Generated(manager[r]), TRUE), Returned(manager[r])},
           stale' \in [Replicas -> SUBSET Configs], missed' \subseteq Replicas,
           UNCHANGED <<bundle, disk>>
    PROVE  TypeInv'
<1> DEFINE m == manager[r]
           cert == Generated(m)
<1>1. /\ secret' = cert /\ fresh' = TRUE /\ stored' = stored + 1 /\ stored \in Nat
      /\ roots' = roots \cup {cert.ca}
      /\ x \in {Provision(m, cert, TRUE), Returned(m)}
  BY ZenonT(30) DEF Stored, TypeInv
<1>2. cert = [sn |-> stored + 1, ca |-> cert.ca] /\ cert.sn = stored + 1
  BY DEF Generated
<1> HIDE DEF cert
<1>3. cert \in [sn : 1..(stored + 1), ca : roots \cup {cert.ca}] /\ cert # Absent
  BY <1>1, <1>2 DEF Absent
<1>4. secret' \in Certs' /\ secret' # Absent
  BY <1>1, <1>3 DEF Certs
<1>5. Certs \subseteq Certs' /\ roots \subseteq roots'
  BY <1>1 DEF Certs
<1>6. \A q \in Replicas : Typed(manager[q], roots', Certs')
  BY <1>5, TypedGrows DEF TypeInv
<1>7. Typed(x, roots', Certs')
  <2>1. Typed(Provision(m, cert, TRUE), roots', Certs')
    BY <1>1, <1>6, ProvisionTyped, Zenon
  <2>2. m.gen \in roots' \cup {0}
    BY <1>6 DEF Typed
  <2>3. Typed(Returned(m), roots', Certs')
    BY <2>2, ReturnedTyped, Zenon
  <2> QED  BY <1>1, <2>1, <2>3, Zenon
<1>8. DOMAIN manager' = Replicas /\ \A q \in Replicas : Typed(manager'[q], roots', Certs')
  BY <1>1, <1>6, <1>7, Zenon DEF TypeInv
<1>9. bundle' \in [Configs -> Seq(roots')]
  BY <1>5, SeqGrows DEF TypeInv
<1>10. disk' \in [Replicas -> FilesOf(Certs')]
  <2>1. FilesOf(Certs) \subseteq FilesOf(Certs')
    BY <1>5 DEF FilesOf
  <2> QED  BY <2>1 DEF TypeInv
<1>11. stored' \in Nat /\ fresh' \in BOOLEAN
  BY <1>1 DEF TypeInv
<1> QED  BY <1>4, <1>8, <1>9, <1>10, <1>11 DEF TypeInv

\* The run that has stored it goes on.
LEMMA StoreType ==
    ASSUME TypeInv, NEW r \in Replicas, Store(r, Generated(manager[r])),
           UNCHANGED <<bundle, stale, disk>>
    PROVE  TypeInv'
<1>1. missed' \subseteq Replicas /\ stale' \in [Replicas -> SUBSET Configs]
  BY TypeOf DEF Store
<1> QED  BY <1>1, StoredType, ZenonT(30) DEF Store

\* The secret is created or overwritten, or was already there or is gone.
LEMMA WriteType ==
    ASSUME TypeInv, NEW r \in Replicas, Create(r) \/ Overwrite(r) PROVE TypeInv'
<1> DEFINE m == manager[r]
<1>1. CASE Create(r) /\ secret = Absent
  BY <1>1, StoreType DEF Create
<1>2. CASE Create(r) /\ secret # Absent
  <2> DEFINE x == [m EXCEPT !.pc = "reread", !.changed = TRUE]
  <2>1. /\ manager' = [manager EXCEPT ![r] = x]
        /\ UNCHANGED <<secret, fresh, stored, roots, bundle, stale, disk, missed>>
    BY <1>2, TypeOf DEF Create
  <2>2. /\ DOMAIN x = Fields /\ x.pc = "reread" /\ x.i = m.i /\ x.gen = m.gen
        /\ x.got = m.got /\ x.common = m.common
    BY TypeOf DEF Fields
  <2> HIDE DEF x, m
  <2>3. Typed(m, roots, Certs)
    BY TypeOf DEF m
  <2>4. Typed(x, roots, Certs)
    BY <2>2, <2>3 DEF Typed, Places
  <2> QED  BY <2>1, <2>4, TypeOf, TypeStays, ZenonT(30)
<1>3. CASE Overwrite(r) /\ secret # Absent
  BY <1>3, StoreType DEF Overwrite
<1>4. CASE Overwrite(r) /\ secret = Absent
  BY <1>4, AbandonType, ZenonT(30) DEF Overwrite
<1> QED  BY <1>1, <1>2, <1>3, <1>4

\* The replicas whose copy of c an update makes stale.
LEMMA UpdatedType ==
    ASSUME TypeInv, NEW r \in Replicas, NEW c \in Configs
    PROVE  Updated(c, r) \in [Replicas -> SUBSET Configs]
BY TypeOf, ZenonT(30) DEF Updated, Changed

\* A configuration is updated with the bundle, or the batch ends.
LEMMA UpdateType ==
    ASSUME TypeInv, NEW r \in Replicas, Update(r) PROVE TypeInv'
<1> DEFINE m == manager[r]
           c == All[m.i]
           x == IF m.i < Len(All) THEN [m EXCEPT !.i = m.i + 1]
                ELSE IF hostUpdate(m) THEN [m EXCEPT !.pc = "fetch"]
                ELSE Idle("idle", m.gen, FALSE)
<1>0. /\ Typed(m, roots, Certs) /\ DOMAIN m = Fields /\ m.i \in DOMAIN All /\ c \in Configs
      /\ m.common \in Seq(roots) /\ m.gen \in roots \cup {0} /\ m.pc = "update"
      /\ UNCHANGED <<secret, fresh, stored, roots, disk>>
  BY TypeOf, Numbered DEF Update, Typed, history
<1>1. CASE c \in stale[r]
  BY <1>0, <1>1, AbandonType DEF Update
<1>2. CASE c \notin stale[r]
  <2>1. /\ manager' = [manager EXCEPT ![r] = x] /\ UNCHANGED missed
        /\ bundle' = [bundle EXCEPT ![c] = m.common]
    BY <1>2, TypeOf, ZenonT(30) DEF Update, Injected
  <2>2. bundle' \in [Configs -> Seq(roots)]
    BY <1>0, <2>1, TypeOf
  <2>3. stale' \in [Replicas -> SUBSET Configs]
    <3>1. Updated(c, r) \in [Replicas -> SUBSET Configs]
      BY <1>0, UpdatedType
    <3>2. stale' = IF m.i < Len(All) THEN Updated(c, r)
                   ELSE [Updated(c, r) EXCEPT ![r] = {}]
      BY <1>2 DEF Update
    <3> QED  BY <3>1, <3>2, ZenonT(30)
  <2>4. Typed(x, roots, Certs)
    <3>1. ASSUME m.i < Len(All) PROVE Typed([m EXCEPT !.i = m.i + 1], roots, Certs)
      <4> DEFINE y == [m EXCEPT !.i = m.i + 1]
      <4>1. /\ DOMAIN y = Fields /\ y.pc = m.pc /\ y.i = m.i + 1 /\ y.gen = m.gen
            /\ y.got = m.got /\ y.common = m.common
        BY <1>0 DEF Fields
      <4>2. m.i + 1 \in DOMAIN All
        BY <1>0, <3>1, Numbered
      <4> HIDE DEF y
      <4>3. Typed(y, roots, Certs)
        BY <1>0, <4>1, <4>2 DEF Typed
      <4> QED  BY <4>3 DEF y
    <3>2. Typed([m EXCEPT !.pc = "fetch"], roots, Certs)
      <4> DEFINE y == [m EXCEPT !.pc = "fetch"]
      <4>1. /\ DOMAIN y = Fields /\ y.pc = "fetch" /\ y.i = m.i /\ y.gen = m.gen
            /\ y.got = m.got /\ y.common = m.common
        BY <1>0 DEF Fields
      <4> HIDE DEF y
      <4>2. Typed(y, roots, Certs)
        BY <1>0, <4>1 DEF Typed, Places
      <4> QED  BY <4>2 DEF y
    <3>3. Typed(Idle("idle", m.gen, FALSE), roots, Certs)
      BY <1>0, IdleTyped, Zenon DEF Places
    <3> HIDE DEF m
    <3> QED  BY <3>1, <3>2, <3>3, Zenon
  <2> HIDE DEF x
  <2> QED  BY <1>0, <2>1, <2>2, <2>3, <2>4, TypeOf, TypeStays, Zenon
<1> QED  BY <1>1, <1>2

\* The certificate is fetched and written to the host.
LEMMA HostType ==
    ASSUME TypeInv, NEW r \in Replicas,
           Fetch(r) \/ FetchFails(r) \/ WriteCert(r) \/ WriteKey(r)
    PROVE  TypeInv'
<1> DEFINE m == manager[r]
<1>0. /\ Typed(m, roots, Certs) /\ DOMAIN m = Fields
      /\ m.got \in Certs \cup {Absent, Blank} /\ m.gen \in roots \cup {0}
      /\ UNCHANGED <<secret, fresh, stored, roots, bundle>>
  BY TypeOf, Zenon DEF Fetch, FetchFails, WriteCert, WriteKey, Typed, cluster, history
<1>1. CASE Fetch(r) /\ secret = Absent
  BY <1>0, <1>1, AbandonType DEF Fetch
<1>2. ASSUME NEW g \in Certs \cup {Absent, Blank}, NEW p \in {"cert", "key"},
             manager' = [manager EXCEPT ![r] = [m EXCEPT !.pc = p, !.got = g]],
             UNCHANGED stale, missed' \subseteq Replicas,
             disk' \in [Replicas -> FilesOf(Certs)]
      PROVE  TypeInv'
  <2> DEFINE x == [m EXCEPT !.pc = p, !.got = g]
  <2>1. /\ DOMAIN x = Fields /\ x.pc = p /\ x.i = m.i /\ x.gen = m.gen
        /\ x.got = g /\ x.common = m.common
    BY <1>0 DEF Fields
  <2>2. manager' = [manager EXCEPT ![r] = x]
    BY <1>2
  <2> HIDE DEF x, m
  <2>3. Typed(x, roots, Certs)
    BY <1>0, <2>1 DEF Typed, Places
  <2> QED  BY <1>0, <1>2, <2>2, <2>3, TypeOf, TypeStays, ZenonT(30)
<1>3. CASE Fetch(r) /\ secret # Absent
  <2>1. /\ manager' = [manager EXCEPT ![r] = [m EXCEPT !.pc = "cert", !.got = secret]]
        /\ UNCHANGED <<stale, disk>> /\ missed' = missed \ {r} /\ secret \in Certs
    BY <1>3, TypeOf DEF Fetch, TypeInv
  <2> QED  BY <1>2, <2>1, TypeOf, Zenon
<1>4. CASE FetchFails(r)
  <2>1. /\ manager' = [manager EXCEPT ![r] = [m EXCEPT !.pc = "cert", !.got = Blank]]
        /\ UNCHANGED <<stale, disk>> /\ missed' = missed \cup {r}
    BY <1>4, TypeOf DEF FetchFails, cluster
  <2> QED  BY <1>2, <2>1, TypeOf, Zenon
<1>5. CASE WriteCert(r)
  <2> DEFINE x == [m EXCEPT !.pc = "key"]
  <2>1. /\ manager' = [manager EXCEPT ![r] = x]
        /\ UNCHANGED <<stale, missed>> /\ disk' = [disk EXCEPT ![r].cert = m.got]
    BY <1>5, TypeOf DEF WriteCert, cluster
  <2>2. disk' \in [Replicas -> FilesOf(Certs)]
    BY <1>0, <2>1, TypeOf, Zenon DEF FilesOf
  <2>3. /\ DOMAIN x = Fields /\ x.pc = "key" /\ x.i = m.i /\ x.gen = m.gen
        /\ x.got = m.got /\ x.common = m.common
    BY <1>0 DEF Fields
  <2> HIDE DEF x, m
  <2>4. Typed(x, roots, Certs)
    BY <1>0, <2>3 DEF Typed, Places
  <2> QED  BY <1>0, <2>1, <2>2, <2>4, TypeOf, TypeStays, Zenon
<1>6. CASE WriteKey(r)
  <2> DEFINE x == Idle("idle", m.gen, FALSE)
  <2>1. /\ manager' = [manager EXCEPT ![r] = x]
        /\ UNCHANGED <<stale, missed>> /\ disk' = [disk EXCEPT ![r].key = m.got]
    BY <1>6, TypeOf DEF WriteKey, cluster
  <2>2. disk' \in [Replicas -> FilesOf(Certs)]
    BY <1>0, <2>1, TypeOf, Zenon DEF FilesOf
  <2>3. Typed(x, roots, Certs)
    BY <1>0, IdleTyped, Zenon DEF Places
  <2> HIDE DEF x
  <2> QED  BY <1>0, <2>1, <2>2, <2>3, TypeOf, TypeStays, Zenon
<1> QED  BY <1>1, <1>3, <1>4, <1>5, <1>6

\* A call or a write fails, before or after it had its effect.
LEMMA FailsType ==
    ASSUME TypeInv, NEW r \in Replicas,
           ConfigFails(r) \/ SecretFails(r) \/ UpdateFails(r) \/ WriteFails(r)
    PROVE  TypeInv'
<1> DEFINE m == manager[r]
           x == Returned(m)
           c == All[m.i]
<1>0. /\ Typed(x, roots, Certs) /\ Dropped(r) \in [Replicas -> SUBSET Configs]
      /\ Behind(r) \subseteq Replicas
      /\ c \in Configs /\ m.common \in Seq(roots)
  BY ReturnedSets, TypeOf, Numbered DEF Typed
<1>1. CASE ConfigFails(r)
  <2>1. Abandon(r) /\ UNCHANGED <<secret, fresh, stored, roots, bundle, disk>>
    BY <1>1 DEF ConfigFails, history
  <2> QED  BY <2>1, AbandonType
<1>2. CASE SecretFails(r)
  <2>0. /\ manager' = [manager EXCEPT ![r] = x] /\ UNCHANGED <<bundle, disk>>
        /\ stale' \in [Replicas -> SUBSET Configs]
    BY <1>0, <1>2 DEF SecretFails
  <2>1. CASE missed' = Behind(r) /\ UNCHANGED <<secret, fresh, history>>
    <3>1. UNCHANGED <<secret, fresh, stored, roots>>
      BY <2>1 DEF history
    <3> HIDE DEF x
    <3> QED  BY <1>0, <2>0, <2>1, <3>1, TypeOf, TypeStays, Zenon
  <2>2. CASE Stored(Generated(m)) /\ missed' = Replicas
    <3>1. x \in {Provision(m, Generated(m), TRUE), Returned(m)} /\ missed' \subseteq Replicas
      BY <2>2
    <3> HIDE DEF x
    <3> QED  BY <2>0, <2>2, <3>1, StoredType, ZenonT(30)
  <2> QED  BY <1>2, <2>1, <2>2 DEF SecretFails
<1>3. CASE UpdateFails(r)
  <2>1. /\ manager' = [manager EXCEPT ![r] = x] /\ missed' \subseteq Replicas
        /\ UNCHANGED <<secret, fresh, stored, roots, disk>>
    BY <1>0, <1>3, ZenonT(30) DEF UpdateFails, history
  <2>2. /\ stale' \in [Replicas -> SUBSET Configs]
        /\ bundle' \in [Configs -> Seq(roots)]
    <3>1. CASE stale' = Dropped(r) /\ UNCHANGED bundle
      BY <1>0, <3>1, TypeOf, ZenonT(30)
    <3>2. CASE /\ bundle' = [bundle EXCEPT ![c] = m.common]
               /\ stale' = [Updated(c, r) EXCEPT ![r] = {}]
      <4>1. Updated(c, r) \in [Replicas -> SUBSET Configs]
        BY <1>0, UpdatedType
      <4> QED  BY <1>0, <3>2, <4>1, TypeOf
    <3> QED  BY <1>3, <3>1, <3>2, ZenonT(30) DEF UpdateFails, Injected
  <2> HIDE DEF x
  <2> QED  BY <1>0, <2>1, <2>2, TypeOf, TypeStays, Zenon
<1>4. CASE WriteFails(r)
  <2>1. Abandon(r) /\ UNCHANGED <<secret, fresh, stored, roots, bundle>>
    BY <1>4 DEF WriteFails, history
  <2>2. disk' \in [Replicas -> FilesOf(Certs)]
    BY <1>4, TypeOf DEF WriteFails, FilesOf
  <2> QED  BY <2>1, <2>2, AbandonFiles
<1> QED  BY <1>1, <1>2, <1>3, <1>4, ZenonT(30)

\* The process ends, with what its run had read.
LEMMA CrashType ==
    ASSUME TypeInv, NEW r \in Replicas, Crash(r) PROVE TypeInv'
<1> DEFINE x == Idle("down", 0, TRUE)
<1>1. manager' = [manager EXCEPT ![r] = x]
      /\ UNCHANGED <<secret, fresh, stored, roots, bundle, disk>>
  BY DEF Crash, history
<1>2. Typed(x, roots, Certs)
  BY IdleTyped, Zenon DEF Places
<1>3. stale' \in [Replicas -> SUBSET Configs] /\ missed' \subseteq Replicas
  BY ReturnedSets DEF Crash
<1> HIDE DEF x
<1> QED  BY <1>1, <1>2, <1>3, TypeOf, TypeStays, Zenon

\* What happens around the managers.
LEMMA AroundType ==
    ASSUME TypeInv,
           Age \/ DeleteSecret \/ (\E c \in Configs : Reapply(c)) \/ UNCHANGED certVars
    PROVE  TypeInv'
<1>1. UNCHANGED <<manager, disk, stored, roots>>
  BY DEF Age, DeleteSecret, Reapply, certVars, cluster, history
<1>2. Certs' = Certs
  BY <1>1 DEF Certs
<1>3. /\ disk' \in [Replicas -> FilesOf(Certs')] /\ stored' \in Nat
      /\ DOMAIN manager' = Replicas
      /\ \A r \in Replicas : Typed(manager'[r], roots', Certs')
  BY <1>1, <1>2 DEF TypeInv
<1>4. /\ secret' \in Certs \cup {Absent}
      /\ fresh' \in BOOLEAN /\ (fresh' => secret' # Absent)
      /\ missed' \subseteq Replicas
  <2>1. CASE Age \/ DeleteSecret
    BY <2>1, ZenonT(30) DEF TypeInv, Age, DeleteSecret
  <2>2. CASE (\E c \in Configs : Reapply(c)) \/ UNCHANGED certVars
    <3>1. UNCHANGED <<secret, fresh, missed>>
      BY <2>2 DEF Reapply, certVars, cluster
    <3> QED  BY <3>1 DEF TypeInv
  <2> QED  BY <2>1, <2>2
<1>5. /\ bundle' \in [Configs -> Seq(roots)]
      /\ stale' \in [Replicas -> SUBSET Configs]
  <2>1. <<>> \in Seq(roots)
    OBVIOUS
  <2>2. CASE \E c \in Configs : Reapply(c)
    BY <2>1, <2>2 DEF Reapply, TypeInv
  <2>3. CASE Age \/ DeleteSecret \/ UNCHANGED certVars
    BY <2>3 DEF Age, DeleteSecret, certVars, cluster, TypeInv
  <2> QED  BY <2>2, <2>3
<1> QED  BY <1>1, <1>2, <1>3, <1>4, <1>5 DEF TypeInv

\* At first nothing is stored, and no bundle has a CA.
LEMMA TypeInit == Init => TypeInv
<1> SUFFICES ASSUME Init PROVE TypeInv
  OBVIOUS
<1>1. PICK deployed :
        manager = [r \in Replicas |->
          Idle(IF r \in deployed THEN "down" ELSE "undeployed", 0, TRUE)]
  BY Zenon DEF Init
<1>2. ASSUME NEW r \in Replicas PROVE Typed(manager[r], roots, Certs)
  <2>1. Typed(Idle("down", 0, TRUE), roots, Certs)
    BY IdleTyped, Zenon DEF Places
  <2>2. Typed(Idle("undeployed", 0, TRUE), roots, Certs)
    BY IdleTyped, Zenon DEF Places
  <2> QED  BY <1>1, <2>1, <2>2, Zenon
<1>3. DOMAIN manager = Replicas
  BY <1>1
<1>4. <<>> \in Seq(roots)
  OBVIOUS
<1>5. bundle \in [Configs -> Seq(roots)] /\ stale \in [Replicas -> SUBSET Configs]
  BY <1>4 DEF Init
<1>6. disk \in [Replicas -> FilesOf(Certs)]
  BY DEF Init, FilesOf
<1>7. /\ stored \in Nat /\ secret \in Certs \cup {Absent} /\ missed \subseteq Replicas
      /\ fresh \in BOOLEAN /\ (fresh => secret # Absent)
  BY ZenonT(30) DEF Init
<1> QED  BY <1>2, <1>3, <1>5, <1>6, <1>7 DEF TypeInv

\* Every step keeps the types.
LEMMA TypeStep == TypeInv /\ [Next]_certVars => TypeInv'
<1> SUFFICES ASSUME TypeInv, [Next]_certVars PROVE TypeInv'
  OBVIOUS
<1>1. ASSUME NEW r \in Replicas, Works(r) \/ ReadFails(r) \/ FetchFails(r)
      PROVE  TypeInv'
  BY <1>1, BeginType, ReadType, WriteType, UpdateType, HostType DEF Works
<1>2. ASSUME NEW r \in Replicas, Fails(r) PROVE TypeInv'
  BY <1>1, <1>2, FailsType DEF Fails
<1> QED  BY <1>1, <1>2, CrashType, AroundType DEF Next

\* The managers, disks and bundles hold what the code can put there, and every
\* CA that a bundle, a disk or a generator holds is one the secret has held:
\* CertTypeOK for any number of replicas, configurations, failures and crashes.
THEOREM CertTypeHolds == Spec => []CertTypeOK
<1>1. TypeInv => CertTypeOK
  <2> SUFFICES ASSUME TypeInv PROVE CertTypeOK
    OBVIOUS
  <2>1. \A c \in Configs : \A i \in DOMAIN bundle[c] : bundle[c][i] \in roots
    BY DEF TypeInv
  <2>2. ASSUME NEW r \in Replicas
        PROVE  \A j \in DOMAIN manager[r].common : manager[r].common[j] \in roots
    BY DEF TypeInv, Typed
  <2>3. disk \in [Replicas -> [cert : Certs \cup {Absent, Blank},
                               key : Certs \cup {Absent, Blank}]]
    BY DEF TypeInv, FilesOf
  <2> QED  BY <2>1, <2>2, <2>3 DEF TypeInv, Typed, Places, CertTypeOK
<1> QED  BY <1>1, TypeInit, TypeStep, PTL DEF Spec

----------------------------------------------------------------------------
(* Trust, once given, is not taken away by the managers themselves.         *)

\* The step that could take trust away is an update with a bundle that was
\* compared and extended before another replica's certificate was stored; it
\* holds a CA, and until the secret is uprooted there is only one.
LEMMA TrustStep ==
    ASSUME RootInv, TypeInv, RootInv', TypeInv', [Next]_certVars,
           NEW c \in Configs, ~uprooted', secret # Absent, Trusts(c), ~Reapply(c)
    PROVE  secret' # Absent /\ Trusts(c)'
<1>1. roots' \subseteq {1} /\ (secret' # Absent => secret'.ca = 1)
  BY DEF RootInv, Rooted
<1>2. secret' # Absent
  <2>1. ASSUME NEW r \in Replicas, Create(r) \/ Overwrite(r) \/ SecretFails(r)
        PROVE  secret' # Absent
    <3>1. secret' \in {secret, Generated(manager[r])}
      BY <2>1, Zenon DEF Create, Overwrite, SecretFails, Store, Stored
    <3> QED  BY <3>1, GeneratedCert DEF RootInv
  <2>2. CASE DeleteSecret
    BY <2>2 DEF DeleteSecret
  <2>3. ASSUME \/ \E r \in Replicas :
                    \/ Start(r) \/ Tick(r) \/ GetConfig(r) \/ Read(r) \/ ReRead(r)
                    \/ Update(r) \/ Fetch(r) \/ WriteCert(r) \/ WriteKey(r)
                    \/ ReadFails(r) \/ FetchFails(r) \/ ConfigFails(r)
                    \/ UpdateFails(r) \/ WriteFails(r) \/ Crash(r)
               \/ Age \/ (\E d \in Configs : Reapply(d)) \/ UNCHANGED certVars
        PROVE  secret' = secret
    BY <2>3, ZenonT(30) DEF Start, Tick, GetConfig, Read, ReRead, Update, Fetch, WriteCert, WriteKey,
       ReadFails, FetchFails, ConfigFails, UpdateFails, WriteFails, Crash, Age, Reapply, certVars,
       cluster
  <2> QED  BY <2>1, <2>2, <2>3 DEF Next, Works, Fails
<1>3. bundle'[c] \in Seq({1})
  BY <1>1, SeqGrows, ZenonT(30) DEF TypeInv
<1>4. bundle'[c] # <<>>
  <2>1. bundle[c] # <<>> /\ bundle \in [Configs -> Seq(roots)]
    BY DEF Trusts, TypeInv
  <2>2. ASSUME NEW r \in Replicas, Update(r) \/ UpdateFails(r)
        PROVE  bundle'[c] # <<>>
    <3>1. manager[r].pc = "update" /\ manager[r].common # <<>>
      BY <2>2, TypeOf, ZenonT(30) DEF Update, UpdateFails, Typed
    <3> QED  BY <2>1, <2>2, <3>1, Zenon DEF Update, UpdateFails, Injected
  <2>3. ASSUME NEW d \in Configs, Reapply(d) PROVE bundle'[c] # <<>>
    BY <2>1, <2>3, Zenon DEF Reapply
  <2>4. ASSUME \/ \E r \in Replicas :
                    \/ Start(r) \/ Tick(r) \/ GetConfig(r) \/ Read(r) \/ ReRead(r)
                    \/ Create(r) \/ Overwrite(r)
                    \/ Fetch(r) \/ WriteCert(r) \/ WriteKey(r)
                    \/ ReadFails(r) \/ FetchFails(r) \/ ConfigFails(r)
                    \/ SecretFails(r) \/ WriteFails(r) \/ Crash(r)
               \/ Age \/ DeleteSecret \/ UNCHANGED certVars
        PROVE  bundle' = bundle
    BY <2>4, ZenonT(30) DEF Start, Tick, GetConfig, Read, ReRead, Create, Overwrite, Fetch, WriteCert,
       WriteKey, ReadFails, FetchFails, ConfigFails, SecretFails, WriteFails, Crash, Age,
       DeleteSecret, certVars, cluster
  <2> QED  BY <2>1, <2>2, <2>3, <2>4, ZenonT(30) DEF Next, Works, Fails
<1>5. 1 \in DOMAIN bundle'[c] /\ bundle'[c][1] = 1
  BY <1>3, <1>4
<1> QED  BY <1>1, <1>2, <1>5 DEF Trusts

\* No step of a manager makes a configuration distrust the certificate in the
\* secret: TrustKept for any number of replicas, configurations and failures.
THEOREM TrustKeptHolds == Spec => TrustKept
<1>1. RootInv /\ TypeInv /\ RootInv' /\ TypeInv' /\ [Next]_certVars =>
        [\A c \in Configs :
            ~uprooted' /\ secret # Absent /\ Trusts(c) =>
                Reapply(c) \/ (secret' # Absent /\ Trusts(c)')]_certVars
  BY TrustStep
<1> QED  BY <1>1, RootInit, RootStep, TypeInit, TypeStep, PTL DEF Spec, TrustKept
============================================================================
