---------------------------- MODULE SourceProofs ----------------------------
(* The source generators, for any jobs, counts, cases, dates and kills:      *)
(* MastersHonest and ChainReadable of SourceGenerators.                      *)
(*                                                                           *)
(* What the resolver makes of well-formed inputs is honest; the rest is that *)
(* its inputs are well-formed.  They are files of other programs, which a    *)
(* program that is killed leaves whole, torn or absent, so the invariant     *)
(* speaks of the files there are and of the operations still to do.  The     *)
(* same operations tell what a chain that begins with pdmis will find.       *)
EXTENDS SourceGenerators, FiniteSetTheorems, SequenceTheorems, TLAPS

-----------------------------------------------------------------------------
(* The resolver *)

(* A dataset of persons: finite, each under a number of its own. *)
Persons(B) ==
  IsFiniteSet(B) /\ \A b, c \in B : b.beneficiary = c.beneficiary => b = c

KeysOf(t) ==
  ({"beneficiary"} \X {b.beneficiary : b \in t.beneficiary_master_sources})
    \cup ({"sacco"} \X t.sacco_master_sources)
    \cup ({"agent"} \X t.agent_master_sources)
    \cup ({"geography"} \X t.geography_master_sources)

(* MastersHonest, of any ten tables. *)
Honest(t) ==
  LET people == t.beneficiary_master_sources
      golden == t.golden_beneficiaries_restricted
      alerts == t.beneficiary_identity_alerts_restricted
  IN /\ \A b, c \in golden : b.nin = c.nin /\ b.nin_verified /\ c.nin_verified => b = c
     /\ \A b \in people : (b \in golden) <=> (b.beneficiary \notin alerts)
     /\ {<<r.domain, r.source>> : r \in t.source_crosswalk} = KeysOf(t)
     /\ Cardinality(t.source_crosswalk) = Cardinality(KeysOf(t))

LEMMA HonestTables == MastersHonest <=> Honest(tables)
BY DEF MastersHonest, Honest, KeysOf

(* What a function makes of a finite set is finite. *)
LEMMA ImageFinite ==
  ASSUME NEW S, IsFiniteSet(S), NEW f, DOMAIN f = S
  PROVE  IsFiniteSet({f[x] : x \in S})
<1> DEFINE T == {f[x] : x \in S}
           g == [x \in S |-> f[x]]
<1>1. g \in Surjection(S, T)
  BY DEF Surjection
<1>2. QED
  BY <1>1, FS_Surjection

(* The status the resolver gives a person. *)
Status(B, b) ==
  IF b.nin_verified /\ \E o \in B : o.beneficiary # b.beneficiary /\ o.nin = b.nin /\ o.nin_verified
  THEN "QUARANTINED" ELSE "MATCHED"

PersonRow(B, b) ==
  [domain |-> "beneficiary", source |-> b.beneficiary, status |-> Status(B, b)]

PeopleRows(B) == {PersonRow(B, b) : b \in B}

LEMMA PeopleResolved ==
  ASSUME NEW B, Persons(B)
  PROVE  /\ resolve_beneficiaries(B) = {PersonRow(B, b) : b \in B}
         /\ \A b \in B : (CHOOSE r \in resolve_beneficiaries(B) : r.source = b.beneficiary) = PersonRow(B, b)
<1>1. resolve_beneficiaries(B) = {PersonRow(B, b) : b \in B}
  BY DEF resolve_beneficiaries, PersonRow, Status
<1>2. ASSUME NEW b \in B
      PROVE  (CHOOSE r \in resolve_beneficiaries(B) : r.source = b.beneficiary) = PersonRow(B, b)
  <2> DEFINE c == CHOOSE r \in resolve_beneficiaries(B) : r.source = b.beneficiary
  <2>1. PersonRow(B, b) \in resolve_beneficiaries(B) /\ PersonRow(B, b).source = b.beneficiary
    BY <1>1 DEF PersonRow
  <2>2. c \in resolve_beneficiaries(B) /\ c.source = b.beneficiary
    BY <2>1, Zenon
  <2> HIDE DEF c
  <2>3. PICK o \in B : c = PersonRow(B, o)
    BY <1>1, <2>2
  <2>4. o.beneficiary = b.beneficiary
    BY <2>2, <2>3 DEF PersonRow
  <2>5. o = b
    BY <2>4 DEF Persons
  <2>6. QED
    BY <2>3, <2>5 DEF c
<1>3. QED
  BY <1>1, <1>2

(* The ten tables, of whatever the three files hold. *)
LEMMA Resolved ==
  ASSUME NEW B, NEW S, NEW A, Persons(B)
  PROVE  /\ build_resolved_mdm(B, S, A).beneficiary_master_sources = B
         /\ build_resolved_mdm(B, S, A).sacco_master_sources = DOMAIN S
         /\ build_resolved_mdm(B, S, A).agent_master_sources = DOMAIN A
         /\ build_resolved_mdm(B, S, A).geography_master_sources = {b.location : b \in B}
         /\ build_resolved_mdm(B, S, A).golden_beneficiaries_restricted
              = {b \in B : Status(B, b) = "MATCHED"}
         /\ build_resolved_mdm(B, S, A).beneficiary_identity_alerts_restricted
              = {b.beneficiary : b \in {o \in B : Status(B, o) = "QUARANTINED"}}
         /\ build_resolved_mdm(B, S, A).source_crosswalk
              = PeopleRows(B)
                  \cup resolve_simple_domain("sacco", DOMAIN S)
                  \cup resolve_simple_domain("agent", DOMAIN A)
                  \cup resolve_simple_domain("geography", {b.location : b \in B})
<1> DEFINE t == build_resolved_mdm(B, S, A)
           people == resolve_beneficiaries(B)
           places == {b.location : b \in B}
<1>1. /\ people = {PersonRow(B, b) : b \in B}
      /\ \A b \in B : (CHOOSE r \in people : r.source = b.beneficiary) = PersonRow(B, b)
  BY PeopleResolved
<1>2. /\ t.beneficiary_master_sources = B /\ t.sacco_master_sources = DOMAIN S
      /\ t.agent_master_sources = DOMAIN A /\ t.geography_master_sources = places
      /\ t.golden_beneficiaries_restricted
           = {b \in B : (CHOOSE r \in people : r.source = b.beneficiary).status = "MATCHED"}
      /\ t.beneficiary_identity_alerts_restricted
           = {r.source : r \in {q \in people : q.status = "QUARANTINED"}}
      /\ t.source_crosswalk = people
           \cup resolve_simple_domain("sacco", DOMAIN S)
           \cup resolve_simple_domain("agent", DOMAIN A)
           \cup resolve_simple_domain("geography", places)
  BY DEF build_resolved_mdm
<1> HIDE DEF t, people
<1>3. \A b \in B : PersonRow(B, b).status = Status(B, b) /\ PersonRow(B, b).source = b.beneficiary
  BY DEF PersonRow
<1>4. {b \in B : (CHOOSE r \in people : r.source = b.beneficiary).status = "MATCHED"}
        = {b \in B : Status(B, b) = "MATCHED"}
  BY <1>1, <1>3
<1>5. {r.source : r \in {q \in people : q.status = "QUARANTINED"}}
        = {b.beneficiary : b \in {o \in B : Status(B, o) = "QUARANTINED"}}
  BY <1>1, <1>3
<1>6. QED
  BY <1>1, <1>2, <1>4, <1>5 DEF t, PeopleRows

LEMMA SimpleRow ==
  ASSUME NEW domain, NEW keys, IsFiniteSet(keys)
  PROVE  /\ IsFiniteSet(resolve_simple_domain(domain, keys))
         /\ \A r \in resolve_simple_domain(domain, keys) :
              r.domain = domain /\ r.source \in keys /\ r.status = "MATCHED"
         /\ \A k \in keys : \E r \in resolve_simple_domain(domain, keys) :
              r.domain = domain /\ r.source = k
         /\ \A r, s \in resolve_simple_domain(domain, keys) : r.source = s.source => r = s
<1> DEFINE f == [k \in keys |-> [domain |-> domain, source |-> k, status |-> "MATCHED"]]
<1>1. resolve_simple_domain(domain, keys) = {f[k] : k \in keys}
  BY DEF resolve_simple_domain
<1>2. /\ DOMAIN f = keys
      /\ \A k \in keys : f[k].domain = domain /\ f[k].source = k /\ f[k].status = "MATCHED"
  OBVIOUS
<1> HIDE DEF f
<1>3. IsFiniteSet({f[k] : k \in keys})
  BY <1>2, ImageFinite
<1>4. QED
  BY <1>1, <1>2, <1>3

LEMMA PersonRows ==
  ASSUME NEW B, Persons(B)
  PROVE  /\ IsFiniteSet(PeopleRows(B))
         /\ \A r \in PeopleRows(B) :
              r.domain = "beneficiary" /\ \E b \in B : r.source = b.beneficiary
         /\ \A b \in B : \E r \in PeopleRows(B) :
              r.domain = "beneficiary" /\ r.source = b.beneficiary
         /\ \A r, s \in PeopleRows(B) : r.source = s.source => r = s
<1> DEFINE f == [b \in B |-> PersonRow(B, b)]
           rows == PeopleRows(B)
<1>1. IsFiniteSet(rows)
  <2>1. rows = {f[b] : b \in B} /\ DOMAIN f = B
    BY DEF PeopleRows
  <2> HIDE DEF f, rows
  <2>2. QED
    BY <2>1, ImageFinite DEF Persons
<1>2. \A b \in B : PersonRow(B, b).domain = "beneficiary" /\ PersonRow(B, b).source = b.beneficiary
  BY DEF PersonRow
<1>3. \A r, s \in rows : r.source = s.source => r = s
  BY <1>2 DEF Persons, PeopleRows
<1>4. QED
  BY <1>1, <1>2, <1>3 DEF PeopleRows

(* build_resolved_mdm: two persons with one verified national ID are both    *)
(* quarantined, and every row has its crosswalk.                             *)
LEMMA ResolvedHonest ==
  ASSUME NEW B, NEW S, NEW A, Persons(B), IsFiniteSet(DOMAIN S), IsFiniteSet(DOMAIN A)
  PROVE  Honest(build_resolved_mdm(B, S, A))
<1> DEFINE t == build_resolved_mdm(B, S, A)
           places == {b.location : b \in B}
           W == PeopleRows(B)
           X == resolve_simple_domain("sacco", DOMAIN S)
           Y == resolve_simple_domain("agent", DOMAIN A)
           Z == resolve_simple_domain("geography", places)
<1>1. /\ t.beneficiary_master_sources = B /\ t.sacco_master_sources = DOMAIN S
      /\ t.agent_master_sources = DOMAIN A /\ t.geography_master_sources = places
      /\ t.golden_beneficiaries_restricted = {b \in B : Status(B, b) = "MATCHED"}
      /\ t.beneficiary_identity_alerts_restricted
           = {b.beneficiary : b \in {o \in B : Status(B, o) = "QUARANTINED"}}
      /\ t.source_crosswalk = W \cup X \cup Y \cup Z
  <2> HIDE DEF W, X, Y, Z, places
  <2>1. t.beneficiary_master_sources = B /\ t.sacco_master_sources = DOMAIN S
    BY Resolved
  <2>2. t.agent_master_sources = DOMAIN A /\ t.geography_master_sources = places
    BY Resolved DEF places
  <2>3. t.golden_beneficiaries_restricted = {b \in B : Status(B, b) = "MATCHED"}
    BY Resolved
  <2>4. t.beneficiary_identity_alerts_restricted
          = {b.beneficiary : b \in {o \in B : Status(B, o) = "QUARANTINED"}}
    BY Resolved
  <2>5. t.source_crosswalk = W \cup X \cup Y \cup Z
    BY Resolved DEF W, X, Y, Z, places
  <2>6. QED
    BY <2>1, <2>2, <2>3, <2>4, <2>5
<1> HIDE DEF t
<1>2. \A b \in B : Status(B, b) \in {"MATCHED", "QUARANTINED"}
  BY DEF Status
<1>3. \A b, c \in t.golden_beneficiaries_restricted :
        b.nin = c.nin /\ b.nin_verified /\ c.nin_verified => b = c
  <2>1. SUFFICES ASSUME NEW b \in B, NEW c \in B, Status(B, b) = "MATCHED",
                        b.nin = c.nin, b.nin_verified, c.nin_verified
                 PROVE  b = c
    BY <1>1
  <2>2. b.beneficiary = c.beneficiary
    BY <2>1 DEF Status
  <2>3. QED
    BY <2>2 DEF Persons
<1>4. \A b \in B : (b \in t.golden_beneficiaries_restricted)
                     <=> (b.beneficiary \notin t.beneficiary_identity_alerts_restricted)
  BY <1>1, <1>2 DEF Persons
<1>5. IsFiniteSet(places)
  <2> DEFINE f == [b \in B |-> b.location]
  <2>1. places = {f[b] : b \in B} /\ DOMAIN f = B
    OBVIOUS
  <2>2. IsFiniteSet(B)
    BY DEF Persons
  <2> HIDE DEF f, places
  <2>3. QED
    BY <2>1, <2>2, ImageFinite
<1> HIDE DEF places
<1>6. /\ IsFiniteSet(W) /\ IsFiniteSet(X) /\ IsFiniteSet(Y) /\ IsFiniteSet(Z)
      /\ \A r \in W : r.domain = "beneficiary" /\ \E b \in B : r.source = b.beneficiary
      /\ \A r \in X : r.domain = "sacco" /\ r.source \in DOMAIN S
      /\ \A r \in Y : r.domain = "agent" /\ r.source \in DOMAIN A
      /\ \A r \in Z : r.domain = "geography" /\ r.source \in places
  <2>1. IsFiniteSet(W) /\ \A r \in W : r.domain = "beneficiary" /\ \E b \in B : r.source = b.beneficiary
    BY PersonRows
  <2>2. IsFiniteSet(X) /\ \A r \in X : r.domain = "sacco" /\ r.source \in DOMAIN S
    BY SimpleRow
  <2>3. IsFiniteSet(Y) /\ \A r \in Y : r.domain = "agent" /\ r.source \in DOMAIN A
    BY SimpleRow
  <2>4. IsFiniteSet(Z) /\ \A r \in Z : r.domain = "geography" /\ r.source \in places
    BY <1>5, SimpleRow
  <2> HIDE DEF W, X, Y, Z
  <2>5. QED
    BY <2>1, <2>2, <2>3, <2>4
<1>7. /\ \A b \in B : \E r \in W : r.domain = "beneficiary" /\ r.source = b.beneficiary
      /\ \A k \in DOMAIN S : \E r \in X : r.domain = "sacco" /\ r.source = k
      /\ \A k \in DOMAIN A : \E r \in Y : r.domain = "agent" /\ r.source = k
      /\ \A k \in places : \E r \in Z : r.domain = "geography" /\ r.source = k
  <2>1. \A b \in B : \E r \in W : r.domain = "beneficiary" /\ r.source = b.beneficiary
    BY PersonRows
  <2>2. \A k \in DOMAIN S : \E r \in X : r.domain = "sacco" /\ r.source = k
    BY SimpleRow
  <2>3. \A k \in DOMAIN A : \E r \in Y : r.domain = "agent" /\ r.source = k
    BY SimpleRow
  <2>4. \A k \in places : \E r \in Z : r.domain = "geography" /\ r.source = k
    BY <1>5, SimpleRow
  <2> HIDE DEF W, X, Y, Z
  <2>5. QED
    BY <2>1, <2>2, <2>3, <2>4
<1>8. /\ \A r, s \in W : r.source = s.source => r = s
      /\ \A r, s \in X : r.source = s.source => r = s
      /\ \A r, s \in Y : r.source = s.source => r = s
      /\ \A r, s \in Z : r.source = s.source => r = s
  <2>1. \A r, s \in W : r.source = s.source => r = s
    BY PersonRows
  <2>2. \A r, s \in X : r.source = s.source => r = s
    BY SimpleRow
  <2>3. \A r, s \in Y : r.source = s.source => r = s
    BY SimpleRow
  <2>4. \A r, s \in Z : r.source = s.source => r = s
    BY <1>5, SimpleRow
  <2> HIDE DEF W, X, Y, Z
  <2>5. QED
    BY <2>1, <2>2, <2>3, <2>4
<1> HIDE DEF W, X, Y, Z
<1> DEFINE rows == t.source_crosswalk
           keys == KeysOf(t)
           g == [r \in rows |-> <<r.domain, r.source>>]
<1>9. keys = ({"beneficiary"} \X {b.beneficiary : b \in B}) \cup ({"sacco"} \X DOMAIN S)
               \cup ({"agent"} \X DOMAIN A) \cup ({"geography"} \X places)
  BY <1>1 DEF KeysOf
<1>10. \A r \in rows : <<r.domain, r.source>> \in keys
  BY <1>1, <1>6, <1>9
<1>11. \A k \in keys : \E r \in rows : <<r.domain, r.source>> = k
  BY <1>1, <1>7, <1>9
<1>12. \A r, s \in rows : r.domain = s.domain /\ r.source = s.source => r = s
  BY <1>1, <1>6, <1>8
<1> HIDE DEF rows, keys
<1>13. {<<r.domain, r.source>> : r \in rows} = keys
  BY <1>10, <1>11
<1>14. Cardinality(rows) = Cardinality(keys)
  <2>1. IsFiniteSet(rows)
    <3>1. IsFiniteSet(W \cup X)
      BY <1>6, FS_Union
    <3>2. IsFiniteSet(W \cup X \cup Y)
      BY <1>6, <3>1, FS_Union
    <3>3. IsFiniteSet(W \cup X \cup Y \cup Z)
      BY <1>6, <3>2, FS_Union
    <3>4. QED
      BY <1>1, <3>3 DEF rows
  <2>2. g \in [rows -> keys]
    BY <1>10
  <2>3. g \in Surjection(rows, keys)
    BY <1>11, <2>2 DEF Surjection
  <2>4. \A r, s \in rows : g[r] = g[s] => r = s
    BY <1>12
  <2>5. g \in Injection(rows, keys)
    BY <2>2, <2>4 DEF Injection, IsInjective
  <2>6. QED
    BY <2>1, <2>3, <2>5, FS_Surjection
<1>15. QED
  BY <1>1, <1>3, <1>4, <1>13, <1>14 DEF Honest, t, rows, keys

-----------------------------------------------------------------------------
(* The dataset of a job *)

LEMMA SaccosFinite == IsFiniteSet(Saccos)
<1>1. IsFiniteSet(Regions)
  <2>1. \A m, n \in Int : IsFiniteSet(m..n)
    BY FS_Interval
  <2>2. 1 \in Int /\ 9 \in Int
    OBVIOUS
  <2>3. QED
    BY <2>1, <2>2, Zenon DEF Regions
<1>2. LocationsIn - 1 \in Int
  BY LocationsAssumption
<1>3. IsFiniteSet(0..(LocationsIn - 1))
  BY <1>2, FS_Interval
<1>4. QED
  BY <1>1, <1>3, FS_Product DEF Saccos

(* What pdmis_generator writes about a job: finite, and each person once. *)
LEMMA DatasetProper ==
  ASSUME NEW count, NEW cases, NEW asOf, IsFiniteSet(cases)
  PROVE  /\ Persons(Dataset(count, cases, asOf).beneficiaries)
         /\ IsFiniteSet(Dataset(count, cases, asOf).loans)
         /\ IsFiniteSet(DOMAIN Dataset(count, cases, asOf).saccos)
<1> DEFINE B == {generate_beneficiary(count, i) : i \in cases}
           a(i) == Repaying(generate_loan(count, i, asOf), asOf)
           A == {a(i) : i \in cases}
           f == [i \in cases |-> generate_beneficiary(count, i)]
           g == [i \in cases |-> a(i).loan]
<1>1. /\ Dataset(count, cases, asOf).beneficiaries = B
      /\ Dataset(count, cases, asOf).loans = {x.loan : x \in A}
      /\ Dataset(count, cases, asOf).saccos = generate_saccos({x.loan : x \in A})
  <2> HIDE DEF B, A
  <2>1. /\ Datasets(B, A).beneficiaries = B
        /\ Datasets(B, A).loans = {x.loan : x \in A}
        /\ Datasets(B, A).saccos = generate_saccos({x.loan : x \in A})
    BY DEF Datasets
  <2>2. Dataset(count, cases, asOf) = Datasets(B, A)
    BY DEF Dataset, B, A
  <2>3. QED
    BY <2>1, <2>2
<1>2. Persons(B)
  <2>1. \A i \in cases : generate_beneficiary(count, i).beneficiary = i
    BY DEF generate_beneficiary
  <2>2. IsFiniteSet(B)
    <3>1. B = {f[i] : i \in cases} /\ DOMAIN f = cases
      OBVIOUS
    <3> HIDE DEF f, B
    <3>2. QED
      BY <3>1, ImageFinite
  <2>3. \A b, c \in B : b.beneficiary = c.beneficiary => b = c
    BY <2>1
  <2>4. QED
    BY <2>2, <2>3 DEF Persons
<1>3. IsFiniteSet({x.loan : x \in A})
  <2> HIDE DEF a
  <2>1. {x.loan : x \in A} = {g[i] : i \in cases} /\ DOMAIN g = cases
    OBVIOUS
  <2> HIDE DEF g, A
  <2>2. QED
    BY <2>1, ImageFinite
<1>4. IsFiniteSet(DOMAIN generate_saccos({x.loan : x \in A}))
  BY SaccosFinite DEF generate_saccos
<1>5. QED
  BY <1>1, <1>2, <1>3, <1>4

-----------------------------------------------------------------------------
(* Operations *)

(* What the resolver may read under a path. *)
Proper(path, c) ==
  /\ path = <<"beneficiaries", 0>> => Persons(c)
  /\ path = <<"loans", 0>> => IsFiniteSet(c)
  /\ path \in {<<"saccos", 0>>, <<"agent_profiles", 0>>} => IsFiniteSet(DOMAIN c)

Inputs == {<<"beneficiaries", 0>>, <<"loans", 0>>, <<"saccos", 0>>}

(* Nothing but the roster itself concerns the roster. *)
OpTrue(o) ==
  /\ o.op = "write" => Proper(o.path, o.content)
  /\ o.op = "clean" => o.paths # {} /\ <<"agent_profiles", 0>> \notin o.paths
  /\ o.op = "persist" => Honest(o.content)

(* The inputs of the other programs stay. *)
Harmless(o) ==
  /\ o.op = "write" => o.path \notin Inputs
  /\ o.op = "clean" => o.paths \cap Inputs = {}

TrueOps(s, keep) == \E T : s \in Seq(T) /\ \A o \in T : OpTrue(o) /\ (keep => Harmless(o))

LEMMA NoOps == \A keep : TrueOps(<<>>, keep)
<1> DEFINE T == {}
<1>1. <<>> \in Seq(T) /\ \A o \in T : FALSE
  OBVIOUS
<1> HIDE DEF T
<1>2. QED
  BY <1>1, Zenon DEF TrueOps

LEMMA RestOps ==
  ASSUME NEW s, NEW keep, TrueOps(s, keep), s # <<>>
  PROVE  OpTrue(Head(s)) /\ (keep => Harmless(Head(s))) /\ TrueOps(Tail(s), keep)
<1>1. PICK T : s \in Seq(T) /\ \A o \in T : OpTrue(o) /\ (keep => Harmless(o))
  BY DEF TrueOps
<1>2. Head(s) \in T /\ Tail(s) \in Seq(T)
  BY <1>1
<1>3. QED
  BY <1>1, <1>2 DEF TrueOps

LEMMA BothOps ==
  ASSUME NEW s, NEW u, NEW keep, TrueOps(s, keep), TrueOps(u, keep)
  PROVE  TrueOps(s \o u, keep)
<1>1. PICK T : s \in Seq(T) /\ \A o \in T : OpTrue(o) /\ (keep => Harmless(o))
  BY DEF TrueOps
<1>2. PICK U : u \in Seq(U) /\ \A o \in U : OpTrue(o) /\ (keep => Harmless(o))
  BY DEF TrueOps
<1>3. s \in Seq(T \cup U) /\ u \in Seq(T \cup U)
  BY <1>1, <1>2
<1>4. s \o u \in Seq(T \cup U)
  BY <1>3
<1>5. \A o \in T \cup U : OpTrue(o) /\ (keep => Harmless(o))
  BY <1>1, <1>2
<1>6. QED
  BY <1>4, <1>5 DEF TrueOps

LEMMA OneOp ==
  ASSUME NEW o, NEW keep, OpTrue(o), keep => Harmless(o)
  PROVE  TrueOps(<<o>>, keep)
<1> DEFINE T == {o}
<1>1. <<o>> \in Seq(T) /\ \A q \in T : OpTrue(q) /\ (keep => Harmless(q))
  OBVIOUS
<1> HIDE DEF T
<1>2. QED
  BY <1>1, Zenon DEF TrueOps

LEMMA AnyKeep ==
  ASSUME NEW s, TrueOps(s, TRUE)
  PROVE  \A keep : TrueOps(s, keep)
BY Zenon DEF TrueOps

LEMMA ListedOps ==
  ASSUME NEW n \in Nat, NEW s, DOMAIN s = 1..n, s = [i \in 1..n |-> s[i]], NEW keep,
         \A i \in 1..n : OpTrue(s[i]) /\ (keep => Harmless(s[i]))
  PROVE  TrueOps(s, keep)
<1> DEFINE T == {s[i] : i \in 1..n}
<1>1. s \in Seq(T)
  <2>1. s \in [1..n -> T]
    OBVIOUS
  <2> HIDE DEF T
  <2>2. QED
    BY <2>1
<1>2. \A o \in T : OpTrue(o) /\ (keep => Harmless(o))
  OBVIOUS
<1> HIDE DEF T
<1>3. QED
  BY <1>1, <1>2, Zenon DEF TrueOps

(* An operation on another file, or on none. *)
Free(o) ==
  /\ o.op \notin {"persist", "clean"}
  /\ o.op = "write" => o.path[1] \notin {"beneficiaries", "loans", "saccos", "agent_profiles"}

LEMMA FreeOp ==
  ASSUME NEW o, Free(o)
  PROVE  OpTrue(o) /\ Harmless(o)
BY DEF Free, OpTrue, Proper, Harmless, Inputs

-----------------------------------------------------------------------------
(* The programs *)

LEMMA ListedFree ==
  ASSUME NEW n \in Nat, NEW s, DOMAIN s = 1..n, s = [i \in 1..n |-> s[i]],
         \A i \in 1..n : Free(s[i])
  PROVE  TrueOps(s, TRUE)
BY ListedOps, FreeOp

(* load_pdmis_context makes a list. *)
LEMMA ContextsListed ==
  ASSUME NEW loans, IsFiniteSet(loans), NEW count \in Nat
  PROVE  Len(load_pdmis_context(loans, count)) \in Nat
<1> DEFINE paid == {l \in loans : l.status # "REJECTED"}
           n == Min({Cardinality(paid), count})
<1>1. Cardinality(paid) \in Nat
  <2>1. IsFiniteSet(paid)
    BY FS_Subset
  <2>2. QED
    BY <2>1, FS_CardinalityType
<1> HIDE DEF paid
<1>2. n \in Nat
  <2> DEFINE two == {Cardinality(paid), count}
  <2>1. \E x \in two : \A y \in two : x <= y
    BY <1>1
  <2>2. n \in two
    BY <2>1 DEF Min
  <2>3. QED
    BY <1>1, <2>2
<1> HIDE DEF n
<1>3. load_pdmis_context(loans, count)
        = [k \in 1..n |-> Context(CHOOSE l \in paid : Cardinality({m \in paid : m.loan < l.loan}) = k - 1)]
  BY DEF load_pdmis_context, paid, n
<1>4. QED
  BY <1>2, <1>3

LEMMA IcmnOps ==
  ASSUME NEW contexts, Len(contexts) \in Nat
  PROVE  TrueOps(icmn_main(contexts), TRUE)
<1> DEFINE s == icmn_main(contexts)
           n == 2 * Len(contexts)
<1>1. n \in Nat
  OBVIOUS
<1>2. DOMAIN s = 1..n /\ s = [i \in 1..n |-> s[i]] /\ \A i \in 1..n : Free(s[i])
  BY DEF icmn_main, Each, WriteOp, Free
<1> HIDE DEF s, n
<1>3. TrueOps(s, TRUE)
  BY <1>1, <1>2, ListedFree
<1>4. QED
  BY <1>3 DEF s

LEMMA CpoOps ==
  ASSUME NEW contexts, Len(contexts) \in Nat
  PROVE  TrueOps(cpo_main(contexts), TRUE)
<1> DEFINE s == cpo_main(contexts)
           n == 2 * Len(contexts)
<1>1. n \in Nat
  OBVIOUS
<1>2. DOMAIN s = 1..n /\ s = [i \in 1..n |-> s[i]] /\ \A i \in 1..n : Free(s[i])
  BY DEF cpo_main, Each, WriteOp, Free
<1> HIDE DEF s, n
<1>3. TrueOps(s, TRUE)
  BY <1>1, <1>2, ListedFree
<1>4. QED
  BY <1>3 DEF s

LEMMA AgentOps ==
  ASSUME NEW contexts, Len(contexts) \in Nat
  PROVE  TrueOps(agent_main(contexts), TRUE)
<1> DEFINE s == agent_main(contexts)
           n == 1 * Len(contexts)
<1>1. n \in Nat
  OBVIOUS
<1>2. DOMAIN s = 1..n /\ s = [i \in 1..n |-> s[i]] /\ \A i \in 1..n : Free(s[i])
  BY DEF agent_main, Each, WriteOp, Op, Free
<1> HIDE DEF s, n
<1>3. TrueOps(s, TRUE)
  BY <1>1, <1>2, ListedFree
<1>4. QED
  BY <1>3 DEF s

LEMMA MobileOps ==
  ASSUME NEW contexts, Len(contexts) \in Nat
  PROVE  TrueOps(mobile_main(contexts), TRUE)
<1> DEFINE s == mobile_main(contexts)
           n == 2 * Len(contexts)
<1>1. n \in Nat
  OBVIOUS
<1>2. DOMAIN s = 1..n /\ s = [i \in 1..n |-> s[i]] /\ \A i \in 1..n : Free(s[i])
  BY DEF mobile_main, Each, WriteOp, Free
<1> HIDE DEF s, n
<1>3. TrueOps(s, TRUE)
  BY <1>1, <1>2, ListedFree
<1>4. QED
  BY <1>3 DEF s

LEMMA WendiOps ==
  ASSUME NEW contexts, Len(contexts) \in Nat, NEW loans, NEW saccos
  PROVE  TrueOps(wendi_main(contexts, loans, saccos), TRUE)
<1> DEFINE file(k, j) ==
             CASE j = 1 -> WriteOp(<<"pain001", k>>, generate_pain001(contexts[k]))
               [] j = 2 -> WriteOp(<<"pain002", k>>, generate_pain002(contexts[k]))
               [] j = 3 /\ Settled(contexts[k]) -> WriteOp(<<"camt053", k>>, generate_camt053(contexts[k]))
               [] j = 4 /\ Settled(contexts[k]) -> WriteOp(<<"camt054", k>>, generate_camt054(contexts[k]))
               [] OTHER -> Op("skip")
           n == 4 * Len(contexts)
           s == [i \in 1..n |-> file(((i - 1) \div 4) + 1, ((i - 1) % 4) + 1)]
<1>1. PICK x, y : wendi_main(contexts, loans, saccos)
                    = s \o <<WriteOp(<<"camt052", 0>>, x), JsonOp("wendi_transactions", y)>>
  BY DEF wendi_main, Each
<1>2. ASSUME NEW k, NEW j
      PROVE  Free(file(k, j))
  <2>1. Free(Op("skip"))
    BY DEF Op, Free
  <2>2. \A name \in {"pain001", "pain002", "camt053", "camt054"} : \A c : Free(WriteOp(<<name, k>>, c))
    BY DEF WriteOp, Free
  <2>3. QED
    BY <2>1, <2>2
<1>3. n \in Nat
  OBVIOUS
<1>4. DOMAIN s = 1..n /\ s = [i \in 1..n |-> s[i]] /\ \A i \in 1..n : Free(s[i])
  <2> HIDE DEF file, n
  <2>1. QED
    BY <1>2
<1> HIDE DEF s, n, file
<1>5. TrueOps(s, TRUE)
  BY <1>3, <1>4, ListedFree
<1>6. Free(WriteOp(<<"camt052", 0>>, x)) /\ Free(JsonOp("wendi_transactions", y))
  BY DEF WriteOp, JsonOp, Free
<1>7. TrueOps(<<WriteOp(<<"camt052", 0>>, x), JsonOp("wendi_transactions", y)>>, TRUE)
  <2> DEFINE a == WriteOp(<<"camt052", 0>>, x)
             b == JsonOp("wendi_transactions", y)
             u == <<a, b>>
  <2> HIDE DEF a, b
  <2>1. DOMAIN u = 1..2 /\ u = [i \in 1..2 |-> u[i]] /\ \A i \in 1..2 : Free(u[i])
    BY <1>6 DEF a, b
  <2> HIDE DEF u
  <2>2. TrueOps(u, TRUE)
    BY <2>1, ListedFree
  <2>3. QED
    BY <2>2 DEF u, a, b
<1>8. QED
  BY <1>1, <1>5, <1>7, BothOps

LEMMA PdmisOps ==
  ASSUME NEW d, Persons(d.beneficiaries), IsFiniteSet(d.loans), IsFiniteSet(DOMAIN d.saccos)
  PROVE  TrueOps(PdmisWrites(d), FALSE)
<1> DEFINE s == PdmisWrites(d)
<1>1. DOMAIN s = 1..8 /\ s = [i \in 1..8 |-> s[i]]
  BY DEF PdmisWrites
<1>2. /\ OpTrue(s[1]) /\ OpTrue(s[2]) /\ OpTrue(s[3]) /\ OpTrue(s[4])
      /\ OpTrue(s[5]) /\ OpTrue(s[6]) /\ OpTrue(s[7]) /\ OpTrue(s[8])
  <2>1. OpTrue(JsonOp("beneficiaries", d.beneficiaries))
    BY DEF JsonOp, WriteOp, OpTrue, Proper
  <2>2. OpTrue(JsonOp("loans", d.loans))
    BY DEF JsonOp, WriteOp, OpTrue, Proper
  <2>3. OpTrue(JsonOp("saccos", d.saccos))
    BY DEF JsonOp, WriteOp, OpTrue, Proper
  <2>4. OpTrue(Op("check"))
    BY DEF Op, OpTrue
  <2>5. \A name \in {"households", "repayments", "business_plans", "special_groups"} :
          \A c : OpTrue(JsonOp(name, c))
    BY DEF JsonOp, WriteOp, OpTrue, Proper
  <2>6. QED
    BY <2>1, <2>2, <2>3, <2>4, <2>5 DEF PdmisWrites
<1> HIDE DEF s
<1>3. \A i \in 1..8 : OpTrue(s[i])
  <2>1. \A i \in 1..8 : i = 1 \/ i = 2 \/ i = 3 \/ i = 4 \/ i = 5 \/ i = 6 \/ i = 7 \/ i = 8
    OBVIOUS
  <2>2. QED
    BY <1>2, <2>1
<1>4. TrueOps(s, FALSE)
  BY <1>1, <1>3, ListedOps
<1>5. QED
  BY <1>4 DEF s

LEMMA RosterOps ==
  ASSUME NEW loans, NEW saccos, IsFiniteSet(DOMAIN saccos)
  PROVE  TrueOps(<<JsonOp("agent_profiles", generate_roster(loans, saccos)),
                   JsonOp("agent_locations", DOMAIN generate_roster(loans, saccos)), Op("load")>>, TRUE)
<1> DEFINE r == generate_roster(loans, saccos)
           s == <<JsonOp("agent_profiles", r), JsonOp("agent_locations", DOMAIN r), Op("load")>>
<1>1. DOMAIN r = DOMAIN saccos
  BY DEF generate_roster
<1> HIDE DEF r
<1>2. OpTrue(JsonOp("agent_profiles", r)) /\ Harmless(JsonOp("agent_profiles", r))
  BY <1>1 DEF JsonOp, WriteOp, OpTrue, Proper, Harmless, Inputs
<1>3. /\ OpTrue(JsonOp("agent_locations", DOMAIN r)) /\ Harmless(JsonOp("agent_locations", DOMAIN r))
      /\ OpTrue(Op("load")) /\ Harmless(Op("load"))
  BY DEF JsonOp, WriteOp, Op, OpTrue, Proper, Harmless, Inputs
<1>4. DOMAIN s = 1..3 /\ s = [i \in 1..3 |-> s[i]] /\ \A i \in 1..3 : OpTrue(s[i]) /\ Harmless(s[i])
  BY <1>2, <1>3
<1> HIDE DEF s
<1>5. TrueOps(s, TRUE)
  BY <1>4, ListedOps
<1>6. QED
  BY <1>5 DEF s, r

LEMMA MdmOps ==
  ASSUME NEW gen, NEW data, Honest(data)
  PROVE  TrueOps(mdm_main(gen, data), TRUE)
<1>1. CASE gen = "mdm_postgres"
  <2>1. OpTrue([op |-> "persist", content |-> data]) /\ Harmless([op |-> "persist", content |-> data])
    BY DEF OpTrue, Harmless
  <2>2. QED
    BY <1>1, <2>1, OneOp DEF mdm_main
<1>2. CASE gen # "mdm_postgres"
  <2> DEFINE s == [n \in DOMAIN MdmFiles |-> JsonOp(MdmFiles[n], data[MdmFiles[n]])]
  <2>1. DOMAIN MdmFiles = 1..10
    BY DEF MdmFiles
  <2>2. \A n \in 1..10 : MdmFiles[n] \notin {"beneficiaries", "loans", "saccos", "agent_profiles"}
    BY DEF MdmFiles
  <2>3. DOMAIN s = 1..10 /\ s = [n \in 1..10 |-> s[n]] /\ \A n \in 1..10 : Free(s[n])
    BY <2>1, <2>2 DEF JsonOp, WriteOp, Free
  <2> HIDE DEF s
  <2>4. TrueOps(s, TRUE)
    BY <2>3, ListedFree
  <2>5. QED
    BY <1>2, <2>4 DEF s, mdm_main
<1>3. QED
  BY <1>1, <1>2

LEMMA CleanOps ==
  ASSUME NEW gen \in DOMAIN Dirs
  PROVE  TrueOps(CleanFor(gen), gen # "pdmis")
<1>1. CASE In(Dirs[gen]) = {}
  BY <1>1, NoOps DEF CleanFor
<1>2. CASE In(Dirs[gen]) # {}
  <2>1. \A p \in In(Dirs[gen]) : p[1] \in Dirs[gen]
    BY DEF In
  <2>2. /\ "agent_profiles" \notin Dirs[gen]
        /\ gen # "pdmis" => {"beneficiaries", "loans", "saccos"} \cap Dirs[gen] = {}
    BY DEF Dirs
  <2>3. /\ <<"agent_profiles", 0>> \notin In(Dirs[gen])
        /\ gen # "pdmis" => In(Dirs[gen]) \cap Inputs = {}
    BY <2>1, <2>2 DEF Inputs
  <2>4. OpTrue(clean_directory(gen)) /\ (gen # "pdmis" => Harmless(clean_directory(gen)))
    BY <1>2, <2>3 DEF clean_directory, OpTrue, Harmless
  <2>5. TrueOps(<<clean_directory(gen)>>, gen # "pdmis")
    BY <2>4, OneOp
  <2>6. QED
    BY <2>5, NoOps DEF CleanFor
<1>3. QED
  BY <1>1, <1>2

-----------------------------------------------------------------------------
(* The invariant *)

DiskProper == \A p \in DOMAIN disk : Proper(p, disk[p])

Fields == {"at", "job", "gens", "todo", "data", "touched"}

(* A program that runs has nothing to do that would spoil a file. *)
RunProper ==
  run.at # "idle" =>
    /\ DOMAIN run = Fields /\ run.job \in Jobs /\ run.gens \in Seq(DOMAIN Dirs) \ {<<>>}
    /\ TrueOps(run.todo, Gen # "pdmis")

MastersInv == DiskProper /\ RunProper /\ Honest(tables)

LEMMA MastersInit == Init => MastersInv
<1> SUFFICES ASSUME Init PROVE MastersInv
  OBVIOUS
<1>1. DOMAIN disk = {}
  BY DEF Init
<1>2. run.at = "idle"
  BY DEF Init, Idle
<1>3. Honest(tables)
  <2>1. Persons({}) /\ IsFiniteSet(DOMAIN << >>)
    BY FS_EmptySet DEF Persons
  <2>2. QED
    BY <2>1, ResolvedHonest DEF Init
<1>4. QED
  BY <1>1, <1>2, <1>3 DEF MastersInv, DiskProper, RunProper

(* The job ends. *)
LEMMA EndProper ==
  ASSUME NEW why, End(why)
  PROVE  RunProper'
BY DEF End, RunProper, Idle

(* The program goes on with other operations. *)
LEMMA GoProper ==
  ASSUME RunProper, run.at # "idle", NEW todo, TrueOps(todo, Gen # "pdmis"), Go(todo)
  PROVE  RunProper'
<1>1. DOMAIN run = Fields
  BY DEF RunProper
<1>2. /\ DOMAIN run' = DOMAIN run /\ run'.job = run.job /\ run'.todo = todo /\ run'.gens = run.gens
  BY <1>1 DEF Go, Fields
<1>3. QED
  BY <1>2 DEF RunProper, Gen

LEMMA ReadProper ==
  ASSUME DiskProper, NEW name, Readable(name)
  PROVE  Proper(<<name, 0>>, File(name))
BY DEF DiskProper, Readable, File

LEMMA FilesProper ==
  ASSUME DiskProper
  PROVE  /\ Readable("beneficiaries") => Persons(File("beneficiaries"))
         /\ Readable("loans") => IsFiniteSet(File("loans"))
         /\ Readable("saccos") => IsFiniteSet(DOMAIN File("saccos"))
         /\ Readable("agent_profiles") => IsFiniteSet(DOMAIN File("agent_profiles"))
BY ReadProper DEF Proper

LEMMA StartKeeps ==
  ASSUME MastersInv, NEW job \in Jobs, Start(job)
  PROVE  MastersInv'
<1>1. RunProper'
  <2>1. /\ DOMAIN run' = Fields /\ run'.job = job /\ run'.gens = job.gens /\ run'.todo = <<>>
    BY DEF Start, Fields
  <2>2. QED
    BY <2>1, NoOps, JobsAssumption DEF RunProper
<1>2. QED
  BY <1>1 DEF MastersInv, Start, DiskProper

(* The generator that runs is one of the eight. *)
LEMMA GenKnown ==
  ASSUME RunProper, run.at # "idle"
  PROVE  /\ Gen \in DOMAIN Dirs /\ run.job \in Jobs /\ DOMAIN run = Fields
         /\ run.gens \in Seq(DOMAIN Dirs) \ {<<>>} /\ TrueOps(run.todo, Gen # "pdmis")
BY DEF RunProper, Gen

LEMMA BeginKeeps ==
  ASSUME MastersInv, Begin
  PROVE  MastersInv'
<1>1. /\ run.at # "idle" /\ RunProper /\ run.job \in Jobs /\ Gen \in DOMAIN Dirs
      /\ DOMAIN run = Fields /\ run.gens \in Seq(DOMAIN Dirs) \ {<<>>}
  BY GenKnown DEF Begin, MastersInv
<1>2. ASSUME Gen = "pdmis", BeginPdmis(DatasetOf[run.job])
      PROVE  MastersInv'
  <2> DEFINE d == DatasetOf[run.job]
  <2>1. d = Dataset(run.job.count, run.job.cases, run.job.as_of)
    BY <1>1 DEF DatasetOf
  <2>2. IsFiniteSet(run.job.cases)
    BY <1>1, JobsAssumption
  <2>3. Persons(d.beneficiaries) /\ IsFiniteSet(d.loans) /\ IsFiniteSet(DOMAIN d.saccos)
    BY <2>1, <2>2, DatasetProper
  <2> HIDE DEF d
  <2>4. TrueOps(CleanFor("pdmis") \o PdmisWrites(d), FALSE)
    <3>1. TrueOps(CleanFor("pdmis"), FALSE)
      BY <1>1, <1>2, CleanOps
    <3>2. QED
      BY <2>3, <3>1, PdmisOps, BothOps
  <2>5. ASSUME ~Valid(run.job.count, d) PROVE RunProper'
    BY <1>2, <2>5, EndProper DEF BeginPdmis, d
  <2>6. ASSUME Valid(run.job.count, d) PROVE RunProper'
    <3>1. run' = [run EXCEPT !.at = "work", !.data = d, !.todo = CleanFor("pdmis") \o PdmisWrites(d)]
      BY <1>2, <2>6 DEF BeginPdmis, d
    <3>2. /\ DOMAIN run' = DOMAIN run /\ run'.job = run.job /\ run'.gens = run.gens
          /\ run'.todo = CleanFor("pdmis") \o PdmisWrites(d)
      BY <1>1, <3>1 DEF Fields
    <3>3. QED
      BY <1>1, <1>2, <2>4, <3>2 DEF RunProper, Gen
  <2>7. RunProper'
    BY <2>5, <2>6
  <2>8. QED
    BY <2>7 DEF MastersInv, Begin, DiskProper
<1>3. ASSUME NEW todo, TrueOps(todo, Gen # "pdmis"), Go(todo)
      PROVE  MastersInv'
  <2>1. RunProper'
    BY <1>1, <1>3, GoProper
  <2>2. QED
    BY <2>1 DEF MastersInv, Begin, DiskProper
<1>4. TrueOps(<<Op("load")>>, Gen # "pdmis") /\ TrueOps(<<Op("roster")>>, Gen # "pdmis")
  <2>1. OpTrue(Op("load")) /\ OpTrue(Op("roster")) /\ Harmless(Op("load")) /\ Harmless(Op("roster"))
    BY DEF Op, OpTrue, Harmless
  <2>2. QED
    BY <2>1, OneOp
<1>5. /\ TrueOps(CleanFor(Gen) \o <<Op("load")>>, Gen # "pdmis")
      /\ TrueOps(CleanFor(Gen) \o <<Op("roster")>>, Gen # "pdmis")
  BY <1>1, <1>4, CleanOps, BothOps
<1>6. \/ Gen = "pdmis" /\ BeginPdmis(DatasetOf[run.job])
      \/ Go(CleanFor(Gen) \o <<Op("load")>>)
      \/ Go(CleanFor(Gen) \o <<Op("roster")>>) \/ Go(<<Op("load")>>)
  BY Zenon DEF Begin
<1>7. QED
  BY <1>2, <1>3, <1>4, <1>5, <1>6

(* A program at an operation. *)
LEMMA AtOpProper ==
  ASSUME MastersInv, NEW op, AtOp(op)
  PROVE  /\ run.at # "idle" /\ run.job \in Jobs /\ DOMAIN run = Fields
         /\ run.gens \in Seq(DOMAIN Dirs) \ {<<>>} /\ Gen \in DOMAIN Dirs
         /\ OpTrue(Head(run.todo)) /\ (Gen # "pdmis" => Harmless(Head(run.todo)))
         /\ TrueOps(Tail(run.todo), Gen # "pdmis") /\ Head(run.todo).op = op
<1>1. run.at # "idle" /\ run.todo # <<>> /\ Head(run.todo).op = op
  BY DEF AtOp
<1>2. /\ DOMAIN run = Fields /\ run.job \in Jobs /\ Gen \in DOMAIN Dirs
      /\ run.gens \in Seq(DOMAIN Dirs) \ {<<>>} /\ TrueOps(run.todo, Gen # "pdmis")
  BY <1>1, GenKnown DEF MastersInv
<1>3. QED
  BY <1>1, <1>2, RestOps

LEMMA WriteKeeps ==
  ASSUME MastersInv, Write
  PROVE  MastersInv'
<1> DEFINE path == Head(run.todo).path
           c == Head(run.todo).content
<1>1. /\ run.at # "idle" /\ run.job \in Jobs /\ DOMAIN run = Fields
      /\ run.gens \in Seq(DOMAIN Dirs) \ {<<>>} /\ OpTrue(Head(run.todo))
      /\ TrueOps(Tail(run.todo), Gen # "pdmis") /\ Head(run.todo).op = "write"
  BY AtOpProper DEF Write
<1>2. Proper(path, c)
  BY <1>1 DEF OpTrue
<1>3. disk' = [p \in DOMAIN disk \cup {path} |-> IF p = path THEN c ELSE disk[p]]
  BY DEF Write
<1> HIDE DEF path, c
<1>4. DiskProper'
  <2>1. /\ DOMAIN disk' = DOMAIN disk \cup {path}
        /\ \A p \in DOMAIN disk' : disk'[p] = IF p = path THEN c ELSE disk[p]
    BY <1>3
  <2>2. QED
    BY <1>2, <2>1 DEF DiskProper, MastersInv
<1>5. RunProper'
  <2>1. run' = [run EXCEPT !.todo = Tail(@), !.touched = TRUE]
    BY DEF Write
  <2>2. DOMAIN run' = DOMAIN run /\ run'.job = run.job /\ run'.gens = run.gens /\ run'.todo = Tail(run.todo)
    BY <1>1, <2>1 DEF Fields
  <2>3. QED
    BY <1>1, <2>2 DEF RunProper, Gen
<1>6. QED
  BY <1>4, <1>5 DEF MastersInv, Write

(* A file less. *)
LEMMA RemoveProper ==
  ASSUME DiskProper, NEW path, disk' = Restrict(disk, DOMAIN disk \ {path})
  PROVE  DiskProper'
<1>1. /\ DOMAIN disk' = DOMAIN disk \ {path}
      /\ \A p \in DOMAIN disk' : disk'[p] = disk[p]
  BY DEF Restrict
<1>2. QED
  BY <1>1 DEF DiskProper

LEMMA UnlinkKeeps ==
  ASSUME MastersInv, Unlink
  PROVE  MastersInv'
<1> DEFINE paths == Head(run.todo).paths
           path  == CHOOSE p \in paths : TRUE
           left  == IF paths = {path} THEN <<>> ELSE <<[op |-> "clean", paths |-> paths \ {path}]>>
<1>1. /\ AtOp("clean") /\ disk' = Restrict(disk, DOMAIN disk \ {path})
      /\ run' = [run EXCEPT !.todo = left \o Tail(@), !.touched = TRUE] /\ UNCHANGED tables
  BY DEF Unlink
<1>3. /\ run.at # "idle" /\ run.job \in Jobs /\ DOMAIN run = Fields
      /\ run.gens \in Seq(DOMAIN Dirs) \ {<<>>} /\ TrueOps(Tail(run.todo), Gen # "pdmis")
      /\ OpTrue(Head(run.todo)) /\ (Gen # "pdmis" => Harmless(Head(run.todo)))
      /\ Head(run.todo).op = "clean"
  BY <1>1, AtOpProper
<1>2. TrueOps(left, Gen # "pdmis")
  <2>1. path \in paths
    BY <1>3 DEF OpTrue
  <2> HIDE DEF path
  <2> DEFINE o == [op |-> "clean", paths |-> paths \ {path}]
  <2>2. CASE paths = {path}
    BY <2>2, NoOps
  <2>3. CASE paths # {path}
    <3>1. OpTrue(o) /\ (Gen # "pdmis" => Harmless(o))
      BY <1>3, <2>1, <2>3 DEF OpTrue, Harmless
    <3> HIDE DEF o
    <3>2. TrueOps(<<o>>, Gen # "pdmis")
      BY <3>1, OneOp
    <3>3. QED
      BY <2>3, <3>2 DEF o
  <2>4. QED
    BY <2>2, <2>3
<1> HIDE DEF left, path
<1>4. TrueOps(left \o Tail(run.todo), Gen # "pdmis")
  BY <1>2, <1>3, BothOps
<1>5. RunProper'
  <2>1. DOMAIN run' = DOMAIN run /\ run'.job = run.job /\ run'.gens = run.gens /\ run'.todo = left \o Tail(run.todo)
    BY <1>1, <1>3 DEF Fields
  <2>2. QED
    BY <1>3, <1>4, <2>1 DEF RunProper, Gen
<1>6. DiskProper'
  BY <1>1, RemoveProper DEF MastersInv
<1>7. QED
  BY <1>1, <1>5, <1>6 DEF MastersInv

LEMMA SkipKeeps ==
  ASSUME MastersInv, Skip
  PROVE  MastersInv'
<1>1. /\ run.at # "idle" /\ run.job \in Jobs /\ DOMAIN run = Fields
      /\ run.gens \in Seq(DOMAIN Dirs) \ {<<>>} /\ TrueOps(Tail(run.todo), Gen # "pdmis")
  BY AtOpProper DEF Skip
<1>2. DOMAIN run' = DOMAIN run /\ run'.job = run.job /\ run'.gens = run.gens /\ run'.todo = Tail(run.todo)
  BY <1>1 DEF Skip, Fields
<1>3. RunProper'
  BY <1>1, <1>2 DEF RunProper, Gen
<1>4. QED
  BY <1>3 DEF MastersInv, Skip, DiskProper

LEMMA CheckKeeps ==
  ASSUME MastersInv, Check
  PROVE  MastersInv'
<1>1. /\ run.at # "idle" /\ run.job \in Jobs /\ DOMAIN run = Fields
      /\ run.gens \in Seq(DOMAIN Dirs) \ {<<>>} /\ TrueOps(Tail(run.todo), Gen # "pdmis")
  BY AtOpProper DEF Check
<1>2. run' = [run EXCEPT !.todo = Tail(@)] \/ End("empty")
  BY DEF Check
<1>3. ASSUME run' = [run EXCEPT !.todo = Tail(@)] PROVE RunProper'
  <2>1. DOMAIN run' = DOMAIN run /\ run'.job = run.job /\ run'.gens = run.gens /\ run'.todo = Tail(run.todo)
    BY <1>1, <1>3 DEF Fields
  <2>2. QED
    BY <1>1, <2>1 DEF RunProper, Gen
<1>4. RunProper'
  BY <1>2, <1>3, EndProper
<1>5. QED
  BY <1>4 DEF MastersInv, Check, DiskProper

LEMMA RosterKeeps ==
  ASSUME MastersInv, Roster
  PROVE  MastersInv'
<1> DEFINE r == generate_roster(File("loans"), File("saccos"))
           todo == <<JsonOp("agent_profiles", r), JsonOp("agent_locations", DOMAIN r), Op("load")>>
<1>1. RunProper /\ DiskProper /\ run.at # "idle"
  BY AtOpProper DEF MastersInv, Roster
<1>2. \/ Readable("saccos") /\ Go(todo)
      \/ End("unreadable")
  BY Zenon DEF Roster
<1>3. ASSUME Readable("saccos"), Go(todo) PROVE RunProper'
  <2>1. IsFiniteSet(DOMAIN File("saccos"))
    BY <1>1, <1>3, FilesProper
  <2>2. TrueOps(todo, Gen # "pdmis")
    BY <2>1, RosterOps, AnyKeep
  <2> HIDE DEF todo
  <2>3. QED
    BY <1>1, <1>3, <2>2, GoProper
<1>4. RunProper'
  BY <1>2, <1>3, EndProper
<1>5. QED
  BY <1>4 DEF MastersInv, Roster, DiskProper

LEMMA LoadContextsKeeps ==
  ASSUME MastersInv, LoadContexts
  PROVE  MastersInv'
<1> DEFINE contexts == load_pdmis_context(File("loans"), run.job.count)
           todo == CASE Gen = "icmn"  -> icmn_main(contexts)
                     [] Gen = "cpo"   -> cpo_main(contexts)
                     [] Gen = "agent" -> agent_main(contexts)
                     [] Gen = "wendi" -> wendi_main(contexts, File("loans"), File("saccos"))
                     [] OTHER         -> CleanFor("mobile") \o mobile_main(contexts)
<1>1. RunProper /\ DiskProper /\ run.at # "idle" /\ run.job \in Jobs
  BY AtOpProper DEF MastersInv, LoadContexts
<1>2. \/ Readable("loans") /\ Go(todo)
      \/ End("unreadable")
  BY Zenon DEF LoadContexts
<1>3. ASSUME Readable("loans"), Go(todo) PROVE RunProper'
  <2>1. IsFiniteSet(File("loans")) /\ run.job.count \in Nat
    BY <1>1, <1>3, FilesProper, JobsAssumption
  <2>2. Len(contexts) \in Nat
    BY <2>1, ContextsListed
  <2> HIDE DEF contexts
  <2>3. /\ TrueOps(icmn_main(contexts), TRUE) /\ TrueOps(cpo_main(contexts), TRUE)
        /\ TrueOps(agent_main(contexts), TRUE)
        /\ TrueOps(wendi_main(contexts, File("loans"), File("saccos")), TRUE)
    BY <2>2, IcmnOps, CpoOps, AgentOps, WendiOps
  <2>4. TrueOps(CleanFor("mobile") \o mobile_main(contexts), TRUE)
    <3>1. "mobile" \in DOMAIN Dirs
      BY DEF Dirs
    <3>2. TrueOps(CleanFor("mobile"), TRUE)
      BY <3>1, CleanOps
    <3>3. QED
      BY <2>2, <3>2, MobileOps, BothOps
  <2>5. TrueOps(todo, TRUE)
    BY <2>3, <2>4
  <2>6. TrueOps(todo, Gen # "pdmis")
    BY <2>5, AnyKeep
  <2> HIDE DEF todo
  <2>7. QED
    BY <1>1, <1>3, <2>6, GoProper
<1>4. RunProper'
  BY <1>2, <1>3, EndProper
<1>5. QED
  BY <1>4 DEF MastersInv, LoadContexts, DiskProper

LEMMA LoadMastersKeeps ==
  ASSUME MastersInv, LoadMasters
  PROVE  MastersInv'
<1> DEFINE data == build_resolved_mdm(File("beneficiaries"), File("saccos"), File("agent_profiles"))
           todo == mdm_main(Gen, data)
<1>1. RunProper /\ DiskProper /\ run.at # "idle"
  BY AtOpProper DEF MastersInv, LoadMasters
<1>2. \/ Readable("beneficiaries") /\ Readable("saccos") /\ Readable("agent_profiles") /\ Go(todo)
      \/ End("unreadable")
  BY Zenon DEF LoadMasters
<1>3. ASSUME Readable("beneficiaries"), Readable("saccos"), Readable("agent_profiles"), Go(todo)
      PROVE  RunProper'
  <2>1. /\ Persons(File("beneficiaries")) /\ IsFiniteSet(DOMAIN File("saccos"))
        /\ IsFiniteSet(DOMAIN File("agent_profiles"))
    BY <1>1, <1>3, FilesProper
  <2>2. Honest(data)
    BY <2>1, ResolvedHonest
  <2> HIDE DEF data
  <2>3. TrueOps(todo, Gen # "pdmis")
    BY <2>2, MdmOps, AnyKeep
  <2> HIDE DEF todo
  <2>4. QED
    BY <1>1, <1>3, <2>3, GoProper
<1>4. RunProper'
  BY <1>2, <1>3, EndProper
<1>5. QED
  BY <1>4 DEF MastersInv, LoadMasters, DiskProper

LEMMA PersistKeeps ==
  ASSUME MastersInv, Persist
  PROVE  MastersInv'
<1>1. /\ run.at # "idle" /\ run.job \in Jobs /\ DOMAIN run = Fields
      /\ run.gens \in Seq(DOMAIN Dirs) \ {<<>>} /\ OpTrue(Head(run.todo)) /\ Head(run.todo).op = "persist"
  BY AtOpProper DEF Persist
<1>2. CASE tables' = Head(run.todo).content /\ run' = [run EXCEPT !.todo = <<>>]
  <2>1. Honest(tables')
    BY <1>1, <1>2 DEF OpTrue
  <2>2. DOMAIN run' = DOMAIN run /\ run'.job = run.job /\ run'.gens = run.gens /\ run'.todo = <<>>
    BY <1>1, <1>2 DEF Fields
  <2>3. RunProper'
    BY <1>1, <2>2, NoOps DEF RunProper, Gen
  <2>4. QED
    BY <2>1, <2>3 DEF MastersInv, Persist, DiskProper
<1>3. CASE UNCHANGED tables /\ End("rolled back")
  BY <1>3, EndProper DEF MastersInv, Persist, DiskProper
<1>4. QED
  BY <1>2, <1>3, Zenon DEF Persist

LEMMA LongerTail ==
  ASSUME NEW D, NEW s \in Seq(D), s # <<>>, Len(s) # 1
  PROVE  Tail(s) \in Seq(D) \ {<<>>}
<1>1. Len(s) \in Nat /\ Len(s) # 0
  BY EmptySeq
<1>2. Tail(s) \in Seq(D) /\ Len(Tail(s)) = Len(s) - 1
  BY <1>1
<1>3. Len(Tail(s)) # 0
  BY <1>1, <1>2
<1>4. QED
  BY <1>2, <1>3, EmptySeq

LEMMA FinishKeeps ==
  ASSUME MastersInv, Finish
  PROVE  MastersInv'
<1>1. /\ run.at # "idle" /\ run.job \in Jobs /\ DOMAIN run = Fields /\ run.todo = <<>>
      /\ run.gens \in Seq(DOMAIN Dirs) \ {<<>>}
  BY GenKnown DEF Finish, MastersInv
<1>2. ASSUME Len(run.gens) # 1,
             run' = [run EXCEPT !.at = "begin", !.gens = Tail(@), !.data = NoData]
      PROVE  RunProper'
  <2>1. DOMAIN run' = DOMAIN run /\ run'.job = run.job /\ run'.todo = <<>> /\ run'.gens = Tail(run.gens)
    BY <1>1, <1>2 DEF Fields
  <2>2. Tail(run.gens) \in Seq(DOMAIN Dirs) \ {<<>>}
    BY <1>1, <1>2, LongerTail
  <2>3. QED
    BY <1>1, <2>1, <2>2, NoOps DEF RunProper
<1>3. RunProper'
  BY <1>2, EndProper DEF Finish
<1>4. QED
  BY <1>3 DEF MastersInv, Finish, DiskProper

LEMMA FaultKeeps ==
  ASSUME MastersInv, Fault
  PROVE  MastersInv'
<1>1. RunProper' /\ UNCHANGED tables
  BY EndProper DEF Fault
<1>2. CASE UNCHANGED disk
  BY <1>1, <1>2 DEF MastersInv, DiskProper
<1>3. CASE disk' = Restrict(disk, DOMAIN disk \ {Head(run.todo).path})
  BY <1>1, <1>3, RemoveProper DEF MastersInv
<1>4. QED
  BY <1>2, <1>3 DEF Fault

LEMMA MastersNext ==
  ASSUME MastersInv, [Next]_vars
  PROVE  MastersInv'
<1>1. CASE UNCHANGED vars
  BY <1>1 DEF vars, MastersInv, DiskProper, RunProper, Gen
<1>2. CASE \E job \in Jobs : Start(job)
  BY <1>2, StartKeeps
<1>3. CASE Work
  BY <1>3, BeginKeeps, WriteKeeps, UnlinkKeeps, SkipKeeps, CheckKeeps, RosterKeeps,
     LoadContextsKeeps, LoadMastersKeeps, PersistKeeps, FinishKeeps, Zenon DEF Work
<1>4. CASE Fault
  BY <1>4, FaultKeeps
<1>5. QED
  BY <1>1, <1>2, <1>3, <1>4 DEF Next

(* MastersHonest, for any jobs and any kills: the mdm tables never show two  *)
(* golden persons with one verified national ID, a quarantined person with a *)
(* golden record or without an alert, or a row without its one crosswalk     *)
(* entry (build_resolved_mdm and the one transaction of persist_mdm).        *)
THEOREM MastersHonestHolds == Spec => []MastersHonest
<1>1. MastersInv /\ [Next]_vars => MastersInv'
  BY MastersNext
<1>2. MastersInv => MastersHonest
  BY HonestTables DEF MastersInv
<1>3. QED
  BY MastersInit, <1>1, <1>2, PTL DEF Spec

-----------------------------------------------------------------------------
(* A chain that begins with pdmis *)

InChain == run.at # "idle" /\ Head(run.job.gens) = "pdmis"

(* What payment_contexts reads can be loaded. *)
Prepared ==
  /\ Readable("beneficiaries") /\ Readable("loans") /\ Readable("saccos")
  /\ Loadable(File("beneficiaries"), File("loans"), File("saccos"))

(* What is written before the k-th operation of PdmisWrites. *)
Written(d, k) ==
  /\ k > 1 => Readable("beneficiaries") /\ File("beneficiaries") = d.beneficiaries
  /\ k > 3 => Readable("loans") /\ File("loans") = d.loans
  /\ k > 7 => Readable("saccos") /\ File("saccos") = d.saccos

PdmisAhead ==
  LET d == DatasetOf[run.job] IN
  /\ validate_all(run.job.count, d)
  /\ \/ \E k \in 1..9 : run.todo = SubSeq(PdmisWrites(d), k, 8) /\ Written(d, k)
     \/ \E o : o.op = "clean" /\ run.todo = <<o>> \o PdmisWrites(d)

AgentAhead ==
  \/ Readable("agent_profiles")
  \/ run.todo = <<Op("roster")>>
  \/ \E o : o.op = "clean" /\ run.todo = <<o, Op("roster")>>
  \/ /\ run.todo # <<>> /\ Head(run.todo).op = "write"
     /\ Head(run.todo).path = <<"agent_profiles", 0>>

ChainTrue ==
  InChain =>
    /\ Readable("agent_profiles") \/ Rostered(run.gens)
    /\ Gen # "pdmis" => Prepared
    /\ Gen = "pdmis" /\ run.at = "work" => PdmisAhead
    /\ Gen = "agent" /\ run.at = "work" => AgentAhead

ChainInv == ChainTrue /\ ChainReadable

(* What pdmis_generator validates is what load_pdmis_context demands. *)
LEMMA ValidLoadable ==
  ASSUME NEW count, NEW d, validate_all(count, d)
  PROVE  Loadable(d.beneficiaries, d.loans, d.saccos)
<1>1. Cardinality({l.as_of : l \in d.loans}) = 1
  BY DEF validate_all, validate_pdm_loan_amounts
<1>2. ASSUME NEW l \in d.loans
      PROVE  validate_loan_lifecycle_contract(l)
  <2>1. /\ l.status = "DISBURSED" => l.disbursed > 0 /\ LifecycleOrdered(l)
        /\ l.status # "DISBURSED" => Undisbursed(l)
    BY DEF validate_all, validate_pdm_loan_amounts
  <2>2. CASE l.status = "DISBURSED"
    BY <2>1, <2>2 DEF validate_loan_lifecycle_contract
  <2>3. CASE l.status # "DISBURSED"
    <3>1. Undisbursed(l)
      BY <2>1, <2>3
    <3>2. QED
      BY <2>3, <3>1 DEF validate_loan_lifecycle_contract, Undisbursed
  <2>4. QED
    BY <2>2, <2>3
<1>3. ASSUME NEW l \in d.loans
      PROVE  (\E b \in d.beneficiaries : b.beneficiary = l.loan) /\ l.sacco \in DOMAIN d.saccos
  BY DEF validate_all, validate_referential_integrity
<1>4. QED
  BY <1>1, <1>2, <1>3 DEF Loadable

LEMMA WritesRest ==
  ASSUME NEW d
  PROVE  /\ \E T : PdmisWrites(d) \in Seq(T)
         /\ SubSeq(PdmisWrites(d), 1, 8) = PdmisWrites(d) /\ SubSeq(PdmisWrites(d), 9, 8) = <<>>
         /\ \A k \in 1..8 : /\ SubSeq(PdmisWrites(d), k, 8) # <<>>
                            /\ Head(SubSeq(PdmisWrites(d), k, 8)) = PdmisWrites(d)[k]
                            /\ Tail(SubSeq(PdmisWrites(d), k, 8)) = SubSeq(PdmisWrites(d), k + 1, 8)
<1> DEFINE W == PdmisWrites(d)
           T == {W[i] : i \in 1..8}
<1>1. W \in Seq(T) /\ Len(W) = 8
  <2>1. DOMAIN W = 1..8 /\ W = [i \in 1..8 |-> W[i]]
    BY DEF PdmisWrites
  <2> HIDE DEF W
  <2>2. \A n \in Nat : W \in [1..n -> T] => W \in Seq(T) /\ Len(W) = n
    <3> HIDE DEF T
    <3>1. QED
      OBVIOUS
  <2>3. W \in [1..8 -> T]
    BY <2>1
  <2> HIDE DEF T
  <2>4. QED
    BY <2>2, <2>3
<1> HIDE DEF W, T
<1>2. SubSeq(W, 1, 8) = W
  BY <1>1
<1>3. SubSeq(W, 9, 8) = <<>>
  BY <1>1
<1>4. ASSUME NEW k \in 1..8
      PROVE  /\ SubSeq(W, k, 8) # <<>> /\ Head(SubSeq(W, k, 8)) = W[k]
             /\ Tail(SubSeq(W, k, 8)) = SubSeq(W, k + 1, 8)
  <2>0. \A i \in k..8 : W[i] \in T
    BY <1>1
  <2>1. /\ SubSeq(W, k, 8) \in Seq(T) /\ Len(SubSeq(W, k, 8)) = 9 - k
        /\ \A i \in 1..(9 - k) : SubSeq(W, k, 8)[i] = W[k + i - 1]
    BY <2>0, SubSeqProperties
  <2>2. SubSeq(W, k, 8) # <<>> /\ Head(SubSeq(W, k, 8)) = W[k]
    <3>1. Len(SubSeq(W, k, 8)) # 0 /\ SubSeq(W, k, 8)[1] = W[k]
      BY <2>1
    <3>2. SubSeq(W, k, 8) # <<>>
      BY <3>1, EmptySeq
    <3>3. Head(SubSeq(W, k, 8)) = SubSeq(W, k, 8)[1]
      BY <2>1, <3>2
    <3>4. QED
      BY <3>1, <3>2, <3>3
  <2>3. Tail(SubSeq(W, k, 8)) = SubSeq(W, k + 1, 8)
    BY <1>1, <2>1
  <2>4. QED
    BY <2>2, <2>3
<1>5. \E U : W \in Seq(U)
  BY <1>1
<1>6. QED
  BY <1>2, <1>3, <1>4, <1>5 DEF W

(* The inputs as they are. *)
LEMMA PreparedKept ==
  ASSUME Prepared, \A p \in Inputs : p \in DOMAIN disk => p \in DOMAIN disk' /\ disk'[p] = disk[p]
  PROVE  Prepared'
BY DEF Prepared, Readable, File, Inputs

LEMMA EndChain ==
  ASSUME NEW why, End(why), why # "unreadable" \/ Head(run.job.gens) # "pdmis"
  PROVE  ChainInv'
<1>1. run'.at = "idle" /\ done'.why = why /\ done'.job = run.job
  BY DEF End, Idle
<1>2. QED
  BY <1>1 DEF ChainInv, ChainTrue, InChain, ChainReadable

LEMMA ChainInit == Init => ChainInv
BY DEF Init, Idle, ChainInv, ChainTrue, InChain, ChainReadable

LEMMA ChainStart ==
  ASSUME MastersInv, ChainInv, NEW job \in Jobs, Start(job)
  PROVE  ChainInv'
<1>1. run'.job = job /\ run'.gens = job.gens /\ run'.at = "begin" /\ done' = done
  BY DEF Start
<1>2. Head(job.gens) = "pdmis" => Rostered(job.gens)
  BY JobsAssumption
<1>3. InChain' => Gen' = "pdmis" /\ Rostered(run'.gens)
  BY <1>1, <1>2 DEF InChain, Gen
<1>4. ChainTrue'
  BY <1>1, <1>3 DEF ChainTrue
<1>5. QED
  BY <1>1, <1>4 DEF ChainInv, ChainReadable

(* A step of a program that leaves the inputs and the roster where they are. *)
LEMMA ChainStep ==
  ASSUME ChainInv, run.at # "idle", run'.job = run.job, run'.gens = run.gens, UNCHANGED done,
         Gen # "pdmis" => \A p \in Inputs : p \in DOMAIN disk => p \in DOMAIN disk' /\ disk'[p] = disk[p],
         Readable("agent_profiles") => Readable("agent_profiles")',
         InChain /\ Gen = "pdmis" => PdmisAhead',
         InChain /\ Gen = "agent" => AgentAhead'
  PROVE  ChainInv'
<1>1. Gen' = Gen /\ (InChain' => InChain)
  BY DEF Gen, InChain
<1>2. InChain' => Readable("agent_profiles")' \/ Rostered(run'.gens)
  BY <1>1 DEF ChainInv, ChainTrue
<1>3. InChain' /\ Gen' # "pdmis" => Prepared'
  BY <1>1, PreparedKept DEF ChainInv, ChainTrue
<1>4. ChainTrue'
  BY <1>1, <1>2, <1>3 DEF ChainTrue
<1>5. QED
  BY <1>4 DEF ChainInv, ChainReadable

LEMMA ChainBegin ==
  ASSUME MastersInv, ChainInv, Begin
  PROVE  ChainInv'
<1>1. /\ run.at # "idle" /\ run.job \in Jobs /\ DOMAIN run = Fields /\ UNCHANGED disk
  BY GenKnown DEF Begin, MastersInv
<1>2. \A p : p \in DOMAIN disk => p \in DOMAIN disk' /\ disk'[p] = disk[p]
  BY <1>1
<1>3. Readable("agent_profiles") => Readable("agent_profiles")'
  BY <1>1 DEF Readable
<1>4. ASSUME Gen = "pdmis", BeginPdmis(DatasetOf[run.job])
      PROVE  ChainInv'
  <2> DEFINE d == DatasetOf[run.job]
  <2> HIDE DEF d
  <2>1. CASE ~Valid(run.job.count, d)
    BY <1>4, <2>1, EndChain DEF BeginPdmis, d
  <2>2. CASE Valid(run.job.count, d)
    <3>1. UNCHANGED done /\ run' = [run EXCEPT !.at = "work", !.data = d, !.todo = CleanFor("pdmis") \o PdmisWrites(d)]
      BY <1>4, <2>2 DEF BeginPdmis, d
    <3>2. run'.job = run.job /\ run'.gens = run.gens /\ run'.todo = CleanFor("pdmis") \o PdmisWrites(d)
      BY <1>1, <3>1 DEF Fields
    <3>3. validate_all(run.job.count, d)
      BY <2>2 DEF Valid
    <3>4. CASE CleanFor("pdmis") = <<>>
      <4>1. \E T : PdmisWrites(d) \in Seq(T)
        BY WritesRest
      <4>2. run'.todo = PdmisWrites(d)
        BY <3>2, <3>4, <4>1
      <4>3. run'.todo = SubSeq(PdmisWrites(d), 1, 8)
        BY <4>2, WritesRest
      <4>4. Written(d, 1)'
        BY DEF Written
      <4>5. PdmisAhead'
        <5>1. \E k \in 1..9 : run'.todo = SubSeq(PdmisWrites(d), k, 8) /\ Written(d, k)'
          BY <4>3, <4>4
        <5>2. QED
          BY <3>2, <3>3, <5>1 DEF PdmisAhead, d
      <4>6. QED
        BY <1>1, <1>2, <1>3, <1>4, <3>1, <3>2, <4>5, ChainStep
    <3>5. CASE CleanFor("pdmis") = <<clean_directory("pdmis")>>
      <4>1. clean_directory("pdmis").op = "clean"
        BY DEF clean_directory
      <4>2. PdmisAhead'
        BY <3>2, <3>3, <3>5, <4>1 DEF PdmisAhead, d
      <4>3. QED
        BY <1>1, <1>2, <1>3, <1>4, <3>1, <3>2, <4>2, ChainStep
    <3>6. QED
      BY <3>4, <3>5 DEF CleanFor
  <2>3. QED
    BY <2>1, <2>2
<1>5. ASSUME NEW todo, Go(todo), Gen # "pdmis", UNCHANGED done,
             Gen = "agent" => todo = CleanFor(Gen) \o <<Op("roster")>>
      PROVE  ChainInv'
  <2>1. run'.job = run.job /\ run'.gens = run.gens /\ run'.todo = todo
    BY <1>1, <1>5 DEF Go, Fields
  <2>2. Gen = "agent" => AgentAhead'
    <3>1. SUFFICES ASSUME Gen = "agent" PROVE AgentAhead'
      OBVIOUS
    <3>2. CASE CleanFor(Gen) = <<>>
      <4>1. run'.todo = <<Op("roster")>>
        BY <1>5, <2>1, <3>1, <3>2
      <4>2. QED
        BY <4>1 DEF AgentAhead
    <3>3. CASE CleanFor(Gen) = <<clean_directory(Gen)>>
      <4> DEFINE o == clean_directory(Gen)
      <4>1. o.op = "clean"
        BY DEF clean_directory
      <4> HIDE DEF o
      <4>2. run'.todo = <<o, Op("roster")>>
        BY <1>5, <2>1, <3>1, <3>3 DEF o
      <4>3. QED
        BY <4>1, <4>2 DEF AgentAhead
    <3>4. QED
      BY <3>2, <3>3 DEF CleanFor
  <2>3. QED
    BY <1>1, <1>2, <1>3, <1>5, <2>1, <2>2, ChainStep
<1>6. \/ Gen = "pdmis" /\ BeginPdmis(DatasetOf[run.job])
      \/ /\ Gen # "pdmis" /\ Gen # "agent" /\ UNCHANGED done
         /\ Go(CleanFor(Gen) \o <<Op("load")>>) \/ Go(<<Op("load")>>)
      \/ Gen # "pdmis" /\ UNCHANGED done /\ Go(CleanFor(Gen) \o <<Op("roster")>>)
  BY DEF Begin
<1>7. QED
  BY <1>4, <1>5, <1>6

(* The seven files of pdmis and the check between them. *)
LEMMA WritesAre ==
  ASSUME NEW d
  PROVE  /\ PdmisWrites(d)[4].op = "check"
         /\ \A k \in 1..8 \ {4} : PdmisWrites(d)[k].op = "write"
         /\ \A k \in {2, 5, 6, 8} : PdmisWrites(d)[k].path \notin Inputs
         /\ PdmisWrites(d)[1].path = <<"beneficiaries", 0>> /\ PdmisWrites(d)[1].content = d.beneficiaries
         /\ PdmisWrites(d)[3].path = <<"loans", 0>> /\ PdmisWrites(d)[3].content = d.loans
         /\ PdmisWrites(d)[7].path = <<"saccos", 0>> /\ PdmisWrites(d)[7].content = d.saccos
<1> DEFINE W == PdmisWrites(d)
<1>1. /\ W[1] = JsonOp("beneficiaries", d.beneficiaries) /\ W[2] = JsonOp("households", d.households)
      /\ W[3] = JsonOp("loans", d.loans) /\ W[4] = Op("check")
      /\ W[5] = JsonOp("repayments", d.repayments) /\ W[6] = JsonOp("business_plans", d.business_plans)
      /\ W[7] = JsonOp("saccos", d.saccos) /\ W[8] = JsonOp("special_groups", "groups")
  BY DEF PdmisWrites
<1> HIDE DEF W
<1>2. \A name, c : /\ JsonOp(name, c).op = "write" /\ JsonOp(name, c).path = <<name, 0>>
                   /\ JsonOp(name, c).content = c
  BY DEF JsonOp, WriteOp
<1>3. W[4].op = "check"
  BY <1>1 DEF Op
<1>4. ASSUME NEW k \in 1..8 \ {4} PROVE W[k].op = "write"
  <2>1. k = 1 \/ k = 2 \/ k = 3 \/ k = 5 \/ k = 6 \/ k = 7 \/ k = 8
    OBVIOUS
  <2>2. QED
    BY <1>1, <1>2, <2>1
<1>5. \A k \in {2, 5, 6, 8} : W[k].path \notin Inputs
  BY <1>1, <1>2 DEF Inputs
<1>6. QED
  BY <1>1, <1>2, <1>3, <1>4, <1>5 DEF W

(* Where pdmis is at an operation. *)
LEMMA PdmisAt ==
  ASSUME PdmisAhead, NEW op, AtOp(op), NEW d, d = DatasetOf[run.job]
  PROVE  /\ validate_all(run.job.count, d)
         /\ \/ /\ op = "clean" /\ \E o : run.todo = <<o>> \o PdmisWrites(d)
            \/ \E k \in 1..8 : /\ op = PdmisWrites(d)[k].op /\ Head(run.todo) = PdmisWrites(d)[k]
                               /\ Tail(run.todo) = SubSeq(PdmisWrites(d), k + 1, 8) /\ Written(d, k)
<1>1. run.todo # <<>> /\ Head(run.todo).op = op
  BY DEF AtOp
<1>2. validate_all(run.job.count, d)
  BY DEF PdmisAhead
<1>3. CASE \E k \in 1..9 : run.todo = SubSeq(PdmisWrites(d), k, 8) /\ Written(d, k)
  <2>1. PICK k \in 1..9 : run.todo = SubSeq(PdmisWrites(d), k, 8) /\ Written(d, k)
    BY <1>3
  <2>2. k \in 1..8
    <3>1. k # 9
      BY <1>1, <2>1, WritesRest
    <3>2. QED
      BY <3>1
  <2>3. /\ op = PdmisWrites(d)[k].op /\ Head(run.todo) = PdmisWrites(d)[k]
        /\ Tail(run.todo) = SubSeq(PdmisWrites(d), k + 1, 8)
    BY <1>1, <2>1, <2>2, WritesRest
  <2>4. QED
    BY <1>2, <2>1, <2>2, <2>3
<1>4. CASE \E o : o.op = "clean" /\ run.todo = <<o>> \o PdmisWrites(d)
  <2>1. PICK o : o.op = "clean" /\ run.todo = <<o>> \o PdmisWrites(d)
    BY <1>4
  <2>2. PICK T : PdmisWrites(d) \in Seq(T)
    BY WritesRest
  <2>3. Head(run.todo) = o
    BY <2>1, <2>2
  <2>4. QED
    BY <1>1, <1>2, <2>1, <2>3
<1>5. QED
  BY <1>3, <1>4 DEF PdmisAhead

LEMMA PdmisOnly ==
  ASSUME PdmisAhead, NEW op, AtOp(op)
  PROVE  op \in {"write", "check", "clean"}
<1> DEFINE d == DatasetOf[run.job]
<1> HIDE DEF d
<1>1. CASE op = "clean"
  BY <1>1
<1>2. CASE \E k \in 1..8 : op = PdmisWrites(d)[k].op
  BY <1>2, WritesAre
<1>3. QED
  BY <1>1, <1>2, PdmisAt DEF d

LEMMA AgentAt ==
  ASSUME AgentAhead, NEW op, AtOp(op)
  PROVE  \/ Readable("agent_profiles")
         \/ op = "roster"
         \/ op = "clean" /\ Tail(run.todo) = <<Op("roster")>>
         \/ op = "write" /\ Head(run.todo).path = <<"agent_profiles", 0>>
<1>1. run.todo # <<>> /\ Head(run.todo).op = op
  BY DEF AtOp
<1>2. CASE run.todo = <<Op("roster")>>
  <2>1. Head(run.todo) = Op("roster")
    BY <1>2
  <2>2. QED
    BY <1>1, <2>1 DEF Op
<1>3. CASE \E o : o.op = "clean" /\ run.todo = <<o, Op("roster")>>
  <2>1. PICK o : o.op = "clean" /\ run.todo = <<o, Op("roster")>>
    BY <1>3
  <2>2. Head(run.todo) = o /\ Tail(run.todo) = <<Op("roster")>>
    BY <2>1
  <2>3. QED
    BY <1>1, <2>1, <2>2
<1>4. QED
  BY <1>1, <1>2, <1>3 DEF AgentAhead

LEMMA ChainWrite ==
  ASSUME MastersInv, ChainInv, Write
  PROVE  ChainInv'
<1> DEFINE path == Head(run.todo).path
           c == Head(run.todo).content
<1>1. /\ run.at # "idle" /\ run.at = "work" /\ DOMAIN run = Fields
      /\ Gen # "pdmis" => Harmless(Head(run.todo))
      /\ AtOp("write") /\ Head(run.todo).op = "write"
  BY AtOpProper DEF Write, AtOp
<1>2. /\ run' = [run EXCEPT !.todo = Tail(@), !.touched = TRUE] /\ UNCHANGED done
      /\ disk' = [p \in DOMAIN disk \cup {path} |-> IF p = path THEN c ELSE disk[p]]
  BY DEF Write
<1>3. run'.job = run.job /\ run'.gens = run.gens /\ run'.todo = Tail(run.todo)
  BY <1>1, <1>2 DEF Fields
<1> HIDE DEF path, c
<1>4. /\ path \in DOMAIN disk' /\ disk'[path] = c
      /\ \A p \in DOMAIN disk : p \in DOMAIN disk' /\ (p # path => disk'[p] = disk[p])
  BY <1>2
<1>5. Gen # "pdmis" => \A p \in Inputs : p \in DOMAIN disk => p \in DOMAIN disk' /\ disk'[p] = disk[p]
  BY <1>1, <1>4 DEF Harmless, path
<1>6. Readable("agent_profiles") => Readable("agent_profiles")'
  BY <1>4 DEF Readable
<1>7. ASSUME InChain, Gen = "pdmis"
      PROVE  PdmisAhead'
  <2> DEFINE d == DatasetOf[run.job]
  <2> HIDE DEF d
  <2>1. PdmisAhead
    BY <1>1, <1>7 DEF ChainInv, ChainTrue
  <2>2. PICK k \in 1..8 : /\ PdmisWrites(d)[k].op = "write" /\ Head(run.todo) = PdmisWrites(d)[k]
                          /\ Tail(run.todo) = SubSeq(PdmisWrites(d), k + 1, 8) /\ Written(d, k)
    BY <1>1, <2>1, PdmisAt DEF d
  <2>3. k # 4
    BY <2>2, WritesAre
  <2>4. Written(d, k + 1)'
    <3>1. /\ k > 1 => Readable("beneficiaries") /\ File("beneficiaries") = d.beneficiaries
          /\ k > 3 => Readable("loans") /\ File("loans") = d.loans
          /\ k > 7 => Readable("saccos") /\ File("saccos") = d.saccos
      BY <2>2 DEF Written
    <3>2. /\ k = 1 => path = <<"beneficiaries", 0>> /\ c = d.beneficiaries
          /\ k = 3 => path = <<"loans", 0>> /\ c = d.loans
          /\ k = 7 => path = <<"saccos", 0>> /\ c = d.saccos
          /\ k \in {2, 5, 6, 8} => path \notin Inputs
      BY <2>2, WritesAre DEF path, c
    <3>3. k = 1 \/ k = 2 \/ k = 3 \/ k = 5 \/ k = 6 \/ k = 7 \/ k = 8
      BY <2>3
    <3>4. <<"beneficiaries", 0>> # <<"loans", 0>> /\ <<"beneficiaries", 0>> # <<"saccos", 0>>
            /\ <<"loans", 0>> # <<"saccos", 0>>
      OBVIOUS
    <3>5. Readable("beneficiaries")' /\ File("beneficiaries")' = d.beneficiaries
      BY <1>4, <3>1, <3>2, <3>3, <3>4 DEF Readable, File, Inputs
    <3>6. k >= 3 => Readable("loans")' /\ File("loans")' = d.loans
      BY <1>4, <3>1, <3>2, <3>3, <3>4 DEF Readable, File, Inputs
    <3>7. k >= 7 => Readable("saccos")' /\ File("saccos")' = d.saccos
      BY <1>4, <3>1, <3>2, <3>3, <3>4 DEF Readable, File, Inputs
    <3>8. k + 1 > 3 => k >= 3
      OBVIOUS
    <3>9. k + 1 > 7 => k >= 7
      OBVIOUS
    <3>10. d' = d
      BY <1>3 DEF d
    <3>11. QED
      BY <3>5, <3>6, <3>7, <3>8, <3>9, <3>10 DEF Written
  <2>5. \E n \in 1..9 : run'.todo = SubSeq(PdmisWrites(d), n, 8) /\ Written(d, n)'
    <3>1. k + 1 \in 1..9
      OBVIOUS
    <3>2. QED
      BY <1>3, <2>2, <2>4, <3>1
  <2>6. validate_all(run.job.count, d)
    BY <2>1 DEF PdmisAhead, d
  <2>7. QED
    BY <1>3, <2>5, <2>6 DEF PdmisAhead, d
<1>8. ASSUME InChain, Gen = "agent"
      PROVE  AgentAhead'
  <2>1. AgentAhead
    BY <1>1, <1>8 DEF ChainInv, ChainTrue
  <2>2. Readable("agent_profiles") \/ path = <<"agent_profiles", 0>>
    BY <1>1, <2>1, AgentAt DEF path
  <2>3. Readable("agent_profiles")'
    BY <1>4, <1>6, <2>2 DEF Readable
  <2>4. QED
    BY <2>3 DEF AgentAhead
<1>9. QED
  BY <1>1, <1>2, <1>3, <1>5, <1>6, <1>7, <1>8, ChainStep

LEMMA TwoOps ==
  ASSUME NEW a, NEW b
  PROVE  <<a>> \o <<b>> = <<a, b>>
<1> DEFINE s == <<a>>
           u == <<b>>
           v == <<a, b>>
<1>1. s \in Seq({a, b}) /\ Len(s) = 1 /\ s[1] = a
  OBVIOUS
<1>2. u \in Seq({a, b}) /\ Len(u) = 1 /\ u[1] = b
  OBVIOUS
<1>3. v \in Seq({a, b}) /\ Len(v) = 2 /\ v[1] = a /\ v[2] = b
  OBVIOUS
<1> HIDE DEF s, u, v
<1>4. /\ s \o u \in Seq({a, b}) /\ Len(s \o u) = 2
      /\ \A i \in 1..2 : (s \o u)[i] = IF i <= 1 THEN s[i] ELSE u[i - 1]
  BY <1>1, <1>2, ConcatProperties
<1>5. \A i \in 1..2 : (s \o u)[i] = v[i]
  BY <1>1, <1>2, <1>3, <1>4
<1>6. s \o u = v
  BY <1>3, <1>4, <1>5, SeqEqual
<1>7. QED
  BY <1>6 DEF s, u, v

LEMMA ChainUnlink ==
  ASSUME MastersInv, ChainInv, Unlink
  PROVE  ChainInv'
<1> DEFINE paths == Head(run.todo).paths
           path  == CHOOSE p \in paths : TRUE
           o     == [op |-> "clean", paths |-> paths \ {path}]
           left  == IF paths = {path} THEN <<>> ELSE <<o>>
<1>1. /\ AtOp("clean") /\ disk' = Restrict(disk, DOMAIN disk \ {path}) /\ UNCHANGED done
      /\ run' = [run EXCEPT !.todo = left \o Tail(@), !.touched = TRUE]
  BY DEF Unlink
<1>2. /\ run.at # "idle" /\ run.at = "work" /\ DOMAIN run = Fields
      /\ OpTrue(Head(run.todo)) /\ (Gen # "pdmis" => Harmless(Head(run.todo)))
      /\ Head(run.todo).op = "clean"
  BY <1>1, AtOpProper DEF AtOp
<1>3. path \in paths
  BY <1>2 DEF OpTrue
<1> HIDE DEF path
<1>4. o.op = "clean"
  OBVIOUS
<1> HIDE DEF o
<1>5. left = <<>> \/ left = <<o>>
  OBVIOUS
<1> HIDE DEF left
<1>6. run'.job = run.job /\ run'.gens = run.gens /\ run'.todo = left \o Tail(run.todo)
  BY <1>1, <1>2 DEF Fields
<1>7. \A p \in DOMAIN disk : p # path => p \in DOMAIN disk' /\ disk'[p] = disk[p]
  BY <1>1 DEF Restrict
<1>8. Gen # "pdmis" => \A p \in Inputs : p \in DOMAIN disk => p \in DOMAIN disk' /\ disk'[p] = disk[p]
  <2>1. Gen # "pdmis" => path \notin Inputs
    BY <1>2, <1>3 DEF Harmless
  <2>2. QED
    BY <1>7, <2>1
<1>9. Readable("agent_profiles") => Readable("agent_profiles")'
  <2>1. path # <<"agent_profiles", 0>>
    BY <1>2, <1>3 DEF OpTrue
  <2>2. QED
    BY <1>7, <2>1 DEF Readable
<1>10. ASSUME InChain, Gen = "pdmis"
       PROVE  PdmisAhead'
  <2> DEFINE d == DatasetOf[run.job]
  <2> HIDE DEF d
  <2>1. PdmisAhead
    BY <1>2, <1>10 DEF ChainInv, ChainTrue
  <2>2. \A k \in 1..8 : PdmisWrites(d)[k].op # "clean"
    BY WritesAre
  <2>3. validate_all(run.job.count, d) /\ \E q : run.todo = <<q>> \o PdmisWrites(d)
    BY <1>1, <2>1, <2>2, PdmisAt DEF d
  <2>4. PICK T : PdmisWrites(d) \in Seq(T)
    BY WritesRest
  <2>5. Tail(run.todo) = PdmisWrites(d)
    BY <2>3, <2>4
  <2>6. CASE left = <<>>
    <3>1. run'.todo = PdmisWrites(d)
      BY <1>6, <2>4, <2>5, <2>6
    <3>2. run'.todo = SubSeq(PdmisWrites(d), 1, 8)
      BY <3>1, WritesRest
    <3>3. Written(d, 1)'
      BY DEF Written
    <3>4. \E k \in 1..9 : run'.todo = SubSeq(PdmisWrites(d), k, 8) /\ Written(d, k)'
      BY <3>2, <3>3
    <3>5. QED
      BY <1>6, <2>3, <3>4 DEF PdmisAhead, d
  <2>7. CASE left = <<o>>
    <3>1. \E q : q.op = "clean" /\ run'.todo = <<q>> \o PdmisWrites(d)
      BY <1>4, <1>6, <2>5, <2>7
    <3>2. QED
      BY <1>6, <2>3, <3>1 DEF PdmisAhead, d
  <2>8. QED
    BY <1>5, <2>6, <2>7
<1>11. ASSUME InChain, Gen = "agent"
       PROVE  AgentAhead'
  <2>1. AgentAhead
    BY <1>2, <1>11 DEF ChainInv, ChainTrue
  <2>2. Readable("agent_profiles") \/ Tail(run.todo) = <<Op("roster")>>
    BY <1>1, <2>1, AgentAt
  <2>3. CASE Readable("agent_profiles")
    BY <1>9, <2>3 DEF AgentAhead
  <2>4. CASE Tail(run.todo) = <<Op("roster")>> /\ left = <<>>
    <3>1. run'.todo = <<Op("roster")>>
      BY <1>6, <2>4
    <3>2. QED
      BY <3>1 DEF AgentAhead
  <2>5. CASE Tail(run.todo) = <<Op("roster")>> /\ left = <<o>>
    <3>1. left \o Tail(run.todo) = <<o>> \o <<Op("roster")>>
      BY <2>5
    <3>2. run'.todo = <<o, Op("roster")>>
      BY <1>6, <3>1, TwoOps
    <3>3. QED
      BY <1>4, <3>2 DEF AgentAhead
  <2>6. QED
    BY <1>5, <2>2, <2>3, <2>4, <2>5
<1>12. QED
  BY <1>1, <1>2, <1>6, <1>8, <1>9, <1>10, <1>11, ChainStep

(* A step that touches no file, and that no program but the fitting one takes. *)
LEMMA ChainQuiet ==
  ASSUME MastersInv, ChainInv, run.at = "work", run'.job = run.job, run'.gens = run.gens,
         UNCHANGED <<done, disk>>,
         InChain /\ Gen = "pdmis" => PdmisAhead',
         InChain /\ Gen = "agent" => Readable("agent_profiles")
  PROVE  ChainInv'
<1>1. \A p \in DOMAIN disk : p \in DOMAIN disk' /\ disk'[p] = disk[p]
  OBVIOUS
<1>2. Readable("agent_profiles") => Readable("agent_profiles")'
  BY DEF Readable
<1>3. InChain /\ Gen = "agent" => AgentAhead'
  BY <1>2 DEF AgentAhead
<1>4. QED
  BY <1>1, <1>2, <1>3, ChainStep

(* An operation that pdmis does not have, and the roster does not wait for. *)
LEMMA OtherOp ==
  ASSUME ChainInv, NEW op, AtOp(op), InChain, op \notin {"write", "check", "clean", "roster"}
  PROVE  Gen # "pdmis" /\ Prepared /\ (Gen = "agent" => Readable("agent_profiles"))
<1>1. run.at = "work"
  BY DEF AtOp
<1>2. Gen # "pdmis"
  BY <1>1, PdmisOnly DEF ChainInv, ChainTrue
<1>3. Gen = "agent" => Readable("agent_profiles")
  BY <1>1, AgentAt DEF ChainInv, ChainTrue
<1>4. QED
  BY <1>1, <1>2, <1>3 DEF ChainInv, ChainTrue

LEMMA ChainSkip ==
  ASSUME MastersInv, ChainInv, Skip
  PROVE  ChainInv'
<1>1. AtOp("skip") /\ run.at = "work" /\ DOMAIN run = Fields
  BY AtOpProper DEF Skip, AtOp
<1>2. run'.job = run.job /\ run'.gens = run.gens /\ UNCHANGED <<done, disk>>
  BY <1>1 DEF Skip, Fields
<1>3. InChain => Gen # "pdmis" /\ (Gen = "agent" => Readable("agent_profiles"))
  BY <1>1, OtherOp
<1>4. QED
  BY <1>1, <1>2, <1>3, ChainQuiet

LEMMA ChainCheck ==
  ASSUME MastersInv, ChainInv, Check
  PROVE  ChainInv'
<1>1. AtOp("check") /\ run.at = "work" /\ DOMAIN run = Fields /\ UNCHANGED disk
  BY AtOpProper DEF Check, AtOp
<1>2. CASE End("empty")
  BY <1>2, EndChain
<1>3. CASE run' = [run EXCEPT !.todo = Tail(@)] /\ UNCHANGED done
  <2>1. run'.job = run.job /\ run'.gens = run.gens /\ run'.todo = Tail(run.todo)
    BY <1>1, <1>3 DEF Fields
  <2>2. ASSUME InChain, Gen = "pdmis" PROVE PdmisAhead'
    <3> DEFINE d == DatasetOf[run.job]
    <3> HIDE DEF d
    <3>1. PdmisAhead
      BY <1>1, <2>2 DEF ChainInv, ChainTrue
    <3>2. PICK k \in 1..8 : /\ PdmisWrites(d)[k].op = "check" /\ Head(run.todo) = PdmisWrites(d)[k]
                            /\ Tail(run.todo) = SubSeq(PdmisWrites(d), k + 1, 8) /\ Written(d, k)
      BY <1>1, <3>1, PdmisAt DEF d
    <3>3. k = 4
      BY <3>2, WritesAre
    <3>4. d' = d
      BY <2>1 DEF d
    <3>5. Written(d, 5)'
      BY <1>1, <3>2, <3>3, <3>4 DEF Written, Readable, File
    <3>6. \E n \in 1..9 : run'.todo = SubSeq(PdmisWrites(d), n, 8) /\ Written(d, n)'
      <4>1. 4 + 1 = 5 /\ 5 \in 1..9
        OBVIOUS
      <4>2. run'.todo = SubSeq(PdmisWrites(d), 5, 8)
        BY <2>1, <3>2, <3>3, <4>1
      <4>3. QED
        BY <3>5, <4>1, <4>2
    <3>7. validate_all(run.job.count, d)
      BY <3>1 DEF PdmisAhead, d
    <3>8. QED
      BY <2>1, <3>6, <3>7 DEF PdmisAhead, d
  <2>3. InChain /\ Gen = "agent" => Readable("agent_profiles")
    BY <1>1, AgentAt DEF ChainInv, ChainTrue
  <2>4. QED
    BY <1>1, <1>3, <2>1, <2>2, <2>3, ChainQuiet
<1>4. QED
  BY <1>2, <1>3 DEF Check

LEMMA ChainRoster ==
  ASSUME MastersInv, ChainInv, Roster
  PROVE  ChainInv'
<1> DEFINE r == generate_roster(File("loans"), File("saccos"))
           todo == <<JsonOp("agent_profiles", r), JsonOp("agent_locations", DOMAIN r), Op("load")>>
<1>1. AtOp("roster") /\ run.at = "work" /\ DOMAIN run = Fields /\ UNCHANGED disk
  BY AtOpProper DEF Roster, AtOp
<1>2. InChain => Gen # "pdmis" /\ Readable("saccos") /\ Readable("loans")
  <2>1. InChain => Gen # "pdmis"
    BY <1>1, PdmisOnly DEF ChainInv, ChainTrue
  <2>2. QED
    BY <2>1 DEF ChainInv, ChainTrue, Prepared
<1>3. CASE Readable("saccos") /\ Readable("loans")
  <2>1. Go(todo) /\ UNCHANGED done
    BY <1>3 DEF Roster
  <2>2. todo # <<>> /\ Head(todo) = JsonOp("agent_profiles", r)
    OBVIOUS
  <2> HIDE DEF todo, r
  <2>3. run'.job = run.job /\ run'.gens = run.gens /\ run'.todo = todo
    BY <1>1, <2>1 DEF Go, Fields
  <2>4. Head(todo).op = "write" /\ Head(todo).path = <<"agent_profiles", 0>>
    BY <2>2 DEF JsonOp, WriteOp
  <2>5. AgentAhead'
    BY <2>2, <2>3, <2>4 DEF AgentAhead
  <2>6. \A p \in DOMAIN disk : p \in DOMAIN disk' /\ disk'[p] = disk[p]
    BY <1>1
  <2>7. Readable("agent_profiles") => Readable("agent_profiles")'
    BY <1>1 DEF Readable
  <2>8. QED
    BY <1>1, <1>2, <2>1, <2>3, <2>5, <2>6, <2>7, ChainStep
<1>4. CASE ~(Readable("saccos") /\ Readable("loans"))
  <2>1. End("unreadable")
    BY <1>4 DEF Roster
  <2>2. Head(run.job.gens) # "pdmis"
    BY <1>1, <1>2, <1>4 DEF InChain
  <2>3. QED
    BY <2>1, <2>2, EndChain
<1>5. QED
  BY <1>3, <1>4

LEMMA ChainLoadContexts ==
  ASSUME MastersInv, ChainInv, LoadContexts
  PROVE  ChainInv'
<1> DEFINE ready == /\ Readable("beneficiaries") /\ Readable("loans") /\ Readable("saccos")
                    /\ Loadable(File("beneficiaries"), File("loans"), File("saccos"))
<1>1. AtOp("load") /\ run.at = "work" /\ DOMAIN run = Fields /\ UNCHANGED disk
  BY AtOpProper DEF LoadContexts, AtOp
<1>2. InChain => Gen # "pdmis" /\ ready /\ (Gen = "agent" => Readable("agent_profiles"))
  BY <1>1, OtherOp DEF Prepared
<1>3. \/ \E todo : Go(todo) /\ UNCHANGED done
      \/ ~ready /\ End("unreadable")
  <2>1. CASE ready
    BY <2>1, Zenon DEF LoadContexts
  <2>2. CASE ~ready
    BY <2>2, Zenon DEF LoadContexts
  <2>3. QED
    BY <2>1, <2>2
<1> HIDE DEF ready
<1>4. CASE \E todo : Go(todo) /\ UNCHANGED done
  <2>1. run'.job = run.job /\ run'.gens = run.gens
    BY <1>1, <1>4 DEF Go, Fields
  <2>2. QED
    BY <1>1, <1>2, <1>4, <2>1, ChainQuiet
<1>5. CASE ~ready /\ End("unreadable")
  <2>1. Head(run.job.gens) # "pdmis"
    BY <1>1, <1>2, <1>5 DEF InChain
  <2>2. QED
    BY <1>5, <2>1, EndChain
<1>6. QED
  BY <1>3, <1>4, <1>5

LEMMA ChainLoadMasters ==
  ASSUME MastersInv, ChainInv, LoadMasters
  PROVE  ChainInv'
<1> DEFINE ready == Readable("beneficiaries") /\ Readable("saccos") /\ Readable("agent_profiles")
<1>1. AtOp("load") /\ run.at = "work" /\ DOMAIN run = Fields /\ UNCHANGED disk /\ Gen \in Masters
      /\ run.gens \in Seq(DOMAIN Dirs) \ {<<>>}
  BY AtOpProper DEF LoadMasters, AtOp
<1>2. ~Rostered(run.gens)
  <2>1. 1 \in DOMAIN run.gens /\ run.gens[1] = Gen
    BY <1>1 DEF Gen
  <2>2. 1..(1 - 1) = {}
    OBVIOUS
  <2>3. QED
    BY <1>1, <2>1, <2>2 DEF Rostered
<1>3. InChain => Gen # "pdmis" /\ ready /\ (Gen = "agent" => Readable("agent_profiles"))
  BY <1>1, <1>2, OtherOp DEF Prepared, ChainInv, ChainTrue
<1>4. \/ \E todo : Go(todo) /\ UNCHANGED done
      \/ ~ready /\ End("unreadable")
  <2>1. CASE ready
    BY <2>1, Zenon DEF LoadMasters
  <2>2. CASE ~ready
    BY <2>2, Zenon DEF LoadMasters
  <2>3. QED
    BY <2>1, <2>2
<1> HIDE DEF ready
<1>5. CASE \E todo : Go(todo) /\ UNCHANGED done
  <2>1. run'.job = run.job /\ run'.gens = run.gens
    BY <1>1, <1>5 DEF Go, Fields
  <2>2. QED
    BY <1>1, <1>3, <1>5, <2>1, ChainQuiet
<1>6. CASE ~ready /\ End("unreadable")
  <2>1. Head(run.job.gens) # "pdmis"
    BY <1>1, <1>3, <1>6 DEF InChain
  <2>2. QED
    BY <1>6, <2>1, EndChain
<1>7. QED
  BY <1>4, <1>5, <1>6

LEMMA ChainPersist ==
  ASSUME MastersInv, ChainInv, Persist
  PROVE  ChainInv'
<1>1. AtOp("persist") /\ run.at = "work" /\ DOMAIN run = Fields /\ UNCHANGED disk
  BY AtOpProper DEF Persist, AtOp
<1>2. CASE End("rolled back")
  BY <1>2, EndChain
<1>3. CASE run' = [run EXCEPT !.todo = <<>>] /\ UNCHANGED done
  <2>1. run'.job = run.job /\ run'.gens = run.gens
    BY <1>1, <1>3 DEF Fields
  <2>2. InChain => Gen # "pdmis" /\ (Gen = "agent" => Readable("agent_profiles"))
    BY <1>1, OtherOp
  <2>3. QED
    BY <1>1, <1>3, <2>1, <2>2, ChainQuiet
<1>4. QED
  BY <1>2, <1>3 DEF Persist

(* The next program of the chain finds what this one was to leave. *)
LEMMA ChainFinish ==
  ASSUME MastersInv, ChainInv, Finish
  PROVE  ChainInv'
<1>1. /\ run.at = "work" /\ run.todo = <<>> /\ run.at # "idle" /\ DOMAIN run = Fields /\ UNCHANGED disk
      /\ run.gens \in Seq(DOMAIN Dirs) \ {<<>>}
  BY GenKnown DEF Finish, MastersInv
<1>2. CASE End("ok")
  BY <1>2, EndChain
<1>3. CASE /\ Len(run.gens) # 1 /\ UNCHANGED done
           /\ run' = [run EXCEPT !.at = "begin", !.gens = Tail(@), !.data = NoData]
  <2>1. run'.job = run.job /\ run'.gens = Tail(run.gens) /\ run'.at = "begin"
    BY <1>1, <1>3 DEF Fields
  <2>2. SUFFICES ASSUME InChain
                 PROVE  (Readable("agent_profiles") \/ Rostered(Tail(run.gens))) /\ Prepared
    <3>1. Prepared => Prepared'
      BY <1>1 DEF Prepared, Readable, File
    <3>2. Readable("agent_profiles") => Readable("agent_profiles")'
      BY <1>1 DEF Readable
    <3>3. InChain' => InChain
      BY <1>1, <2>1 DEF InChain
    <3>4. ChainTrue'
      BY <2>1, <2>2, <3>1, <3>2, <3>3 DEF ChainTrue
    <3>5. QED
      BY <1>3, <3>4 DEF ChainInv, ChainReadable
  <2>3. Prepared
    <3>1. CASE Gen # "pdmis"
      BY <2>2, <3>1 DEF ChainInv, ChainTrue
    <3>2. CASE Gen = "pdmis"
      <4> DEFINE d == DatasetOf[run.job]
      <4>1. PdmisAhead
        BY <1>1, <2>2, <3>2 DEF ChainInv, ChainTrue
      <4> HIDE DEF d
      <4>2. validate_all(run.job.count, d)
        BY <4>1 DEF PdmisAhead, d
      <4>3. Loadable(d.beneficiaries, d.loans, d.saccos)
        BY <4>2, ValidLoadable
      <4>4. PICK T : PdmisWrites(d) \in Seq(T)
        BY WritesRest
      <4>5. \A o : <<o>> \o PdmisWrites(d) # <<>>
        <5>1. SUFFICES ASSUME NEW o PROVE <<o>> \o PdmisWrites(d) # <<>>
          OBVIOUS
        <5>2. Len(<<o>> \o PdmisWrites(d)) # 0
          BY <4>4
        <5>3. QED
          BY <5>2, EmptySeq
      <4>6. PICK k \in 1..9 : SubSeq(PdmisWrites(d), k, 8) = <<>> /\ Written(d, k)
        BY <1>1, <4>1, <4>5 DEF PdmisAhead, d
      <4>7. k = 9
        <5>1. k \notin 1..8
          BY <4>6, WritesRest
        <5>2. QED
          BY <5>1
      <4>8. QED
        BY <4>3, <4>6, <4>7 DEF Written, Prepared
    <3>3. QED
      BY <3>1, <3>2
  <2>4. ASSUME ~Readable("agent_profiles")
        PROVE  Rostered(Tail(run.gens))
    <3>1. Rostered(run.gens)
      BY <2>2, <2>4 DEF ChainInv, ChainTrue
    <3>2. run.gens[1] # "agent"
      <4>1. ASSUME Gen = "agent" PROVE FALSE
        <5>1. AgentAhead
          BY <1>1, <2>2, <4>1 DEF ChainInv, ChainTrue
        <5>2. \A a, b : <<a>> # <<>> /\ <<a, b>> # <<>>
          OBVIOUS
        <5>3. QED
          BY <1>1, <2>4, <5>1, <5>2 DEF AgentAhead
      <4>2. Gen = run.gens[1]
        BY <1>1 DEF Gen
      <4>3. QED
        BY <4>1, <4>2
    <3>3. /\ Len(run.gens) \in Nat /\ Len(run.gens) # 0 /\ DOMAIN run.gens = 1..Len(run.gens)
          /\ DOMAIN Tail(run.gens) = 1..(Len(run.gens) - 1)
          /\ \A i \in 1..(Len(run.gens) - 1) : Tail(run.gens)[i] = run.gens[i + 1]
      <4>1. Len(run.gens) \in Nat /\ Len(run.gens) # 0 /\ DOMAIN run.gens = 1..Len(run.gens)
        BY <1>1, EmptySeq, LenProperties
      <4>2. /\ Tail(run.gens) \in Seq(DOMAIN Dirs) /\ Len(Tail(run.gens)) = Len(run.gens) - 1
            /\ \A i \in 1..Len(Tail(run.gens)) : Tail(run.gens)[i] = run.gens[i + 1]
        BY <1>1, HeadTailProperties
      <4>3. DOMAIN Tail(run.gens) = 1..Len(Tail(run.gens))
        BY <4>2, LenProperties
      <4>4. QED
        BY <4>1, <4>2, <4>3
    <3>4. ASSUME NEW i \in 1..(Len(run.gens) - 1), Tail(run.gens)[i] \in Masters
          PROVE  \E k \in 1..(i - 1) : Tail(run.gens)[k] = "agent"
      <4>1. i + 1 \in DOMAIN run.gens /\ run.gens[i + 1] \in Masters
        BY <3>3, <3>4
      <4>2. PICK k \in 1..((i + 1) - 1) : run.gens[k] = "agent"
        BY <3>1, <4>1 DEF Rostered
      <4>3. k # 1
        BY <3>2, <4>2
      <4>4. k - 1 \in 1..(i - 1) /\ k - 1 \in 1..(Len(run.gens) - 1) /\ (k - 1) + 1 = k
        BY <3>3, <4>2, <4>3
      <4>5. Tail(run.gens)[k - 1] = "agent"
        BY <3>3, <4>2, <4>4
      <4>6. QED
        BY <4>4, <4>5
    <3>5. QED
      BY <3>3, <3>4 DEF Rostered
  <2>5. QED
    BY <2>3, <2>4
<1>4. QED
  BY <1>2, <1>3 DEF Finish

LEMMA ChainFault ==
  ASSUME MastersInv, ChainInv, Fault
  PROVE  ChainInv'
BY EndChain DEF Fault

(* ChainReadable, for any jobs, files that earlier jobs have left and kills: *)
(* no program of a chain that begins with pdmis fails over an input that is  *)
(* missing, torn or dangling (generate_all_sources, payment_contexts,        *)
(* generate_roster, mdm_generator).                                          *)
THEOREM ChainReadableHolds == Spec => []ChainReadable
<1>1. MastersInv /\ ChainInv /\ [Next]_vars => MastersInv' /\ ChainInv'
  <2> SUFFICES ASSUME MastersInv, ChainInv, [Next]_vars PROVE ChainInv'
    BY MastersNext
  <2>1. CASE UNCHANGED vars
    BY <2>1 DEF vars, ChainInv, ChainTrue, ChainReadable, InChain, Prepared, PdmisAhead, AgentAhead,
                Written, Readable, File, Gen
  <2>2. CASE \E job \in Jobs : Start(job)
    BY <2>2, ChainStart
  <2>3. CASE Work
    BY <2>3, ChainBegin, ChainWrite, ChainUnlink, ChainSkip, ChainCheck, ChainRoster,
       ChainLoadContexts, ChainLoadMasters, ChainPersist, ChainFinish, Zenon DEF Work
  <2>4. CASE Fault
    BY <2>4, ChainFault
  <2>5. QED
    BY <2>1, <2>2, <2>3, <2>4 DEF Next
<1>2. ChainInv => ChainReadable
  BY DEF ChainInv
<1>3. QED
  BY MastersInit, ChainInit, <1>1, <1>2, PTL DEF Spec
=============================================================================
