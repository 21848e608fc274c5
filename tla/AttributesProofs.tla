-------------------------- MODULE AttributesProofs --------------------------
(***************************************************************************)
(* What is proved of Attributes, for any mapping, any registry and any     *)
(* number of changes and kills: the types, and that a field is given       *)
(* nothing but what the registry wants of an attribute that is mapped to   *)
(* it.  The invariant beside the types says that the listener's lists are  *)
(* those it made of the registry when it was started.                      *)
(***************************************************************************)
EXTENDS Attributes, WellFoundedInduction, FiniteSetTheorems, TLAPS

Loaded == attrs = Load(loaded)

IInv == TypeOK /\ Loaded

-----------------------------------------------------------------------------
(* Operators.                                                              *)

\* Natural numbers have a least one among them: what the choice of the first
\* attribute of the registry (connector.py:731) rests on.
LEMMA LeastNat ==
  ASSUME NEW S, S \subseteq Nat, S # {}
  PROVE  \E i \in S : \A j \in S : i <= j
<1> DEFINE R == {ss \in Nat \X Nat : ss[1] < ss[2]}
<1>1. IsWellFoundedOn(R, Nat)
  BY NatLessThanWellFounded DEF OpToRel
<1>2. PICK i \in S : \A j \in S : ~ (<<j, i>> \in R)
  <2> HIDE DEF R
  <2> QED BY <1>1, WFMin
<1>3. ASSUME NEW j \in S PROVE i <= j
  <2>1. i \in Nat /\ j \in Nat /\ <<j, i>> \in Nat \X Nat OBVIOUS
  <2>2. ~ (j < i)
    <3> SUFFICES ASSUME j < i PROVE FALSE OBVIOUS
    <3>1. <<j, i>> \in R BY <2>1
    <3> QED BY <1>2, <3>1
  <2> QED BY <2>1, <2>2
<1> QED BY <1>3

LEMMA ContentsType ==
  ASSUME NEW a \in Attr
  PROVE  Contents[a] \subseteq Seq(Value) /\ Contents[a] # {}
BY AttrAssumption DEF Range

\* An attribute has a shortest contents, which the entry begins with.
LEMMA LeastType ==
  ASSUME NEW a \in Attr
  PROVE  Least(a) \in Contents[a]
<1> DEFINE C == Contents[a]
           L == {Len(c) : c \in C}
<1>1. C \subseteq Seq(Value) /\ C # {}
  BY ContentsType
<1>2. L \subseteq Nat /\ L # {}
  <2>1. \A c \in C : Len(c) \in Nat
    BY <1>1
  <2>2. PICK c \in C : TRUE
    BY <1>1
  <2>3. Len(c) \in L
    BY <2>2
  <2> HIDE DEF C
  <2> QED BY <2>1, <2>3
<1>3. PICK n \in L : \A m \in L : n <= m
  <2> HIDE DEF L
  <2> QED BY <1>2, LeastNat
<1>4. PICK c \in C : Len(c) = n
  OBVIOUS
<1>5. \A d \in C : Len(c) <= Len(d)
  BY <1>3, <1>4
<1> QED BY <1>4, <1>5 DEF Least

\* ConnectorAttributes (connector.py:138) makes lists of the registry that
\* have nothing in common.
LEMMA LoadType ==
  ASSUME NEW c \in Config
  PROVE  Load(c) \in AttrSets /\ Apart(Load(c))
<1>1. c \in AttrSets
  BY ConfigAssumption DEF AttrSets
<1>2. \A d \in AttrSets : \A S : Without(d, S) \in AttrSets
  BY DEF AttrSets, Without
<1>3. Sanitize(c) \in AttrSets
  BY <1>1, <1>2 DEF Sanitize
<1>4. \A d \in AttrSets : Disjoint(d) \in AttrSets /\ Apart(Disjoint(d))
  BY DEF AttrSets, Disjoint, Apart
<1> QED BY <1>3, <1>4 DEF Load

\* What the lists say of an attribute is what the registry wanted: never before
\* anonymize before static before sync (connector.py:199).
LEMMA LoadWanted ==
  ASSUME NEW c \in Config, NEW a \in (AllSyncKeys(Load(c)) \ System) \cap Mapped
  PROVE  /\ a \in Load(c).anonymize => Wanted(c, a) = {<<a, "uuid">>}
         /\ a \in Load(c).static => Wanted(c, a) = {<<a, "static">>}
         /\ a \notin Load(c).anonymize \cup Load(c).static => Wanted(c, a) = Plain(a)
<1> DEFINE S == AllSyncKeys(c) \ (Mapped \cup System)
           d == Without(c, S)
           s == Sanitize(c)
<1>1. c \in AttrSets
  BY ConfigAssumption DEF AttrSets
<1>2. /\ d \in AttrSets
      /\ d.never = c.never /\ d.anonymize = c.anonymize \ S
      /\ d.static = c.static \ S /\ d.sync = c.sync \ S
  BY <1>1 DEF AttrSets, Without
<1>3. s = d \/ s = Without(d, Dangerous)
  BY DEF Sanitize
<1>4. PICK T : /\ T = {} \/ T = Dangerous
               /\ s \in AttrSets
               /\ s.never = c.never /\ s.anonymize = (c.anonymize \ S) \ T
               /\ s.static = (c.static \ S) \ T /\ s.sync = (c.sync \ S) \ T
  <2> HIDE DEF d, s
  <2>1. CASE s = d
    <3>1. /\ s.anonymize = (c.anonymize \ S) \ {} /\ s.static = (c.static \ S) \ {}
          /\ s.sync = (c.sync \ S) \ {}
      BY <1>2, <2>1
    <3> QED BY <1>2, <2>1, <3>1
  <2>2. CASE s = Without(d, Dangerous)
    <3>1. /\ s \in AttrSets
          /\ s.never = d.never /\ s.anonymize = d.anonymize \ Dangerous
          /\ s.static = d.static \ Dangerous /\ s.sync = d.sync \ Dangerous
      BY <1>2, <2>2 DEF AttrSets, Without
    <3> QED BY <1>2, <3>1
  <2> QED BY <1>3, <2>1, <2>2
<1>5. AllSyncKeys(s) \cap Dangerous = {}
  <2>1. CASE AllSyncKeys(d) \cap Dangerous = {}
    BY <2>1 DEF Sanitize
  <2>2. CASE AllSyncKeys(d) \cap Dangerous # {}
    <3>1. s = Without(d, Dangerous)
      BY <2>2 DEF Sanitize
    <3> HIDE DEF d, s
    <3>2. /\ s.anonymize = d.anonymize \ Dangerous
          /\ s.static = d.static \ Dangerous /\ s.sync = d.sync \ Dangerous
      BY <1>2, <3>1 DEF AttrSets, Without
    <3> QED BY <3>2 DEF AllSyncKeys
  <2> QED BY <2>1, <2>2
<1> HIDE DEF d, s
<1>6. /\ Load(c).never = s.never
      /\ Load(c).anonymize = s.anonymize \ s.never
      /\ Load(c).static = (s.static \ s.never) \ (s.anonymize \ s.never)
      /\ Load(c).sync = ((s.sync \ s.never) \ (s.anonymize \ s.never))
                          \ ((s.static \ s.never) \ (s.anonymize \ s.never))
  BY <1>4 DEF Load, Disjoint, AttrSets, s
<1>7. a \in (s.static \cup s.sync \cup s.anonymize) /\ a \notin s.never
  BY <1>6 DEF AllSyncKeys
<1>8. a \notin c.never \cup Dangerous \cup System \cup (Attr \ Mapped)
  BY <1>4, <1>5, <1>7 DEF AllSyncKeys
<1>9. a \notin S /\ a \notin T
  BY <1>4, <1>8
<1> HIDE DEF S
<1>10. /\ a \in s.anonymize <=> a \in c.anonymize
       /\ a \in s.static <=> a \in c.static
       /\ a \in s.sync <=> a \in c.sync
  BY <1>4, <1>9
<1>11. CASE a \in c.anonymize
  <2>1. a \in Load(c).anonymize /\ a \notin Load(c).static
    BY <1>6, <1>7, <1>10, <1>11
  <2> QED BY <1>8, <1>11, <2>1 DEF Wanted
<1>12. CASE a \notin c.anonymize /\ a \in c.static
  <2>1. a \notin Load(c).anonymize /\ a \in Load(c).static
    BY <1>6, <1>7, <1>10, <1>12
  <2> QED BY <1>8, <1>12, <2>1 DEF Wanted
<1>13. CASE a \notin c.anonymize /\ a \notin c.static
  <2>1. a \notin Load(c).anonymize /\ a \notin Load(c).static /\ a \in c.sync
    BY <1>6, <1>7, <1>10, <1>13
  <2> QED BY <1>8, <1>13, <2>1 DEF Wanted
<1> QED BY <1>11, <1>12, <1>13

LEMMA SentHas ==
  /\ \A a \in Attr : Plain(a) \cup {<<a, "uuid">>, <<a, "static">>} \subseteq Sent
  /\ <<"none", "no name">> \in Sent /\ <<"none", "country">> \in Sent
<1>1. \A a \in Attr : Said(a) \subseteq Sent
  BY DEF Sent
<1>2. Unsaid \subseteq Sent
  BY DEF Sent
<1> QED BY <1>1, <1>2 DEF Said, Unsaid

LEMMA WantedSent ==
  ASSUME NEW c, NEW a \in Attr
  PROVE  Wanted(c, a) \subseteq Sent
<1>1. /\ Plain(a) \subseteq Sent
      /\ {<<a, "uuid">>} \subseteq Sent /\ {<<a, "static">>} \subseteq Sent
  BY SentHas
<1>2. \/ Wanted(c, a) = {} \/ Wanted(c, a) = Plain(a)
      \/ Wanted(c, a) = {<<a, "uuid">>} \/ Wanted(c, a) = {<<a, "static">>}
  BY DEF Wanted
<1> QED BY <1>1, <1>2

\* The attribute that decides is one of those that make the field.
LEMMA LeadingType ==
  ASSUME NEW S, S \subseteq Mapped, S # {}
  PROVE  Leading(S) \in S
<1> DEFINE I == {i \in DOMAIN Order : Order[i] \in S}
<1>1. Order \in Seq(Attr) /\ DOMAIN Order = 1 .. Len(Order) /\ Len(Order) \in Nat
  BY AttrAssumption
<1>2. I \subseteq Nat /\ I # {}
  BY <1>1 DEF Mapped, Range
<1>3. PICK i \in I : \A j \in I : i <= j
  <2> HIDE DEF I
  <2> QED BY <1>2, LeastNat
<1>4. \A j \in 1 .. i - 1 : Order[j] \notin S
  <2> SUFFICES ASSUME NEW j \in 1 .. i - 1, Order[j] \in S
               PROVE  FALSE
    OBVIOUS
  <2>1. i \in 1 .. Len(Order)
    BY <1>1
  <2>2. j \in I /\ ~ (i <= j)
    BY <1>1, <2>1
  <2> QED BY <1>3, <2>2
<1>5. \E a \in S : \E k \in DOMAIN Order :
        Order[k] = a /\ \A j \in 1 .. k - 1 : Order[j] \notin S
  BY <1>3, <1>4
<1> QED BY <1>5 DEF Leading

LEMMA TagPlain ==
  ASSUME NEW a \in Attr, NEW c \in Contents[a]
  PROVE  /\ Range(Tag(a, c)) \subseteq Plain(a)
         /\ c # <<>> => Tag(a, c)[1] \in Plain(a)
<1>1. c \in Seq(Value)
  BY ContentsType
<1>2. \A i \in DOMAIN c : Tag(a, c)[i] \in Plain(a)
  <2> SUFFICES ASSUME NEW i \in DOMAIN c
               PROVE  <<a, c[i]>> \in Plain(a)
    BY DEF Tag
  <2>1. c[i] \in Range(c)
    BY DEF Range
  <2>2. c[i] \in UNION {Range(d) : d \in Contents[a]}
    BY <2>1
  <2> QED BY <2>2 DEF Plain
<1>3. Range(Tag(a, c)) \subseteq Plain(a)
  BY <1>2 DEF Range, Tag
<1>4. c # <<>> => 1 \in DOMAIN c
  BY <1>1
<1> QED BY <1>2, <1>3, <1>4

-----------------------------------------------------------------------------
(* What parse makes of an entry.                                           *)

\* A value is left, replaced or masked as the registry wanted it
\* (connector.py:642).
LEMMA ConvertedWanted ==
  ASSUME IInv, NEW e \in Entry, NEW a \in Present(e) \cap Mapped
  PROVE  /\ Range(Converted(e, a)) \subseteq Wanted(loaded, a)
         /\ Converted(e, a)[1] \in Wanted(loaded, a)
<1>1. loaded \in Config /\ attrs = Load(loaded)
  BY DEF IInv, TypeOK, Loaded
<1>2. a \in Attr
  BY AttrAssumption DEF Mapped, Range
<1>3. e.at[a] \in Contents[a] /\ e.at[a] # <<>>
  BY <1>2 DEF Entry, Present
<1>4. a \in (AllSyncKeys(Load(loaded)) \ System) \cap Mapped
  BY <1>1 DEF Present
<1>5. /\ a \in attrs.anonymize => Wanted(loaded, a) = {<<a, "uuid">>}
      /\ a \in attrs.static => Wanted(loaded, a) = {<<a, "static">>}
      /\ a \notin attrs.anonymize \cup attrs.static => Wanted(loaded, a) = Plain(a)
  BY <1>1, <1>4, LoadWanted
<1>6. CASE a \in attrs.anonymize
  <2>1. Converted(e, a) = <<<<a, "uuid">>>>
    BY <1>6 DEF Converted
  <2> QED BY <1>5, <1>6, <2>1 DEF Range
<1>7. CASE a \notin attrs.anonymize /\ a \in attrs.static
  <2>1. Converted(e, a) = <<<<a, "static">>>>
    BY <1>7 DEF Converted
  <2> QED BY <1>5, <1>7, <2>1 DEF Range
<1>8. CASE a \notin attrs.anonymize /\ a \notin attrs.static
  <2>1. Converted(e, a) = Tag(a, e.at[a])
    BY <1>8 DEF Converted
  <2> QED BY <1>2, <1>3, <1>5, <1>8, <2>1, TagPlain
<1> QED BY <1>6, <1>7, <1>8

LEMMA DataWanted ==
  ASSUME IInv, NEW e \in Entry, NEW f \in Field, NEW x \in Data(e, f)
  PROVE  \E a \in Mapped : MapTo[a] = f /\ x \in Wanted(loaded, a)
<1> DEFINE S == Sources(e, f)
<1>1. S # {}
  BY DEF Data
<1>2. \A a \in S : a \in Present(e) \cap Mapped /\ MapTo[a] = f
  BY DEF Sources
<1>3. \A a \in S : /\ Range(Converted(e, a)) \subseteq Wanted(loaded, a)
                   /\ Converted(e, a)[1] \in Wanted(loaded, a)
  BY <1>2, ConvertedWanted
<1>4. CASE f \in Many \ FirstOnly
  <2>1. x \in UNION {Range(Converted(e, a)) : a \in S}
    BY <1>1, <1>4 DEF Data
  <2>2. PICK a \in S : x \in Range(Converted(e, a))
    BY <2>1
  <2> QED BY <1>2, <1>3, <2>2
<1>5. CASE f \notin Many \ FirstOnly
  <2>1. x = Converted(e, Leading(S))[1]
    BY <1>1, <1>5 DEF Data
  <2>2. Leading(S) \in S
    <3> HIDE DEF S
    <3>1. S \subseteq Mapped
      BY <1>2
    <3> QED BY <1>1, <3>1, LeadingType
  <2> HIDE DEF S
  <2> QED BY <1>2, <1>3, <2>1, <2>2
<1> QED BY <1>4, <1>5

\* What parse gives for a field is of the registry's making, but for a name
\* that is missing and the two fields it fills itself (connector.py:717).
LEMMA ParseWanted ==
  ASSUME IInv, NEW e \in Entry, NEW f \in Field, NEW x \in Parse(e)[f]
  PROVE  \/ f \in {"userPrincipalName", "usageLocation"} /\ x \in Sent
         \/ x = <<"none", "no name">>
         \/ \E a \in Mapped : MapTo[a] = f /\ x \in Wanted(loaded, a)
<1>1. "mailPrimaryAddress" \in Attr /\ "st" \in Attr /\ <<>> \notin Contents["mailPrimaryAddress"]
  BY AttrAssumption
<1>2. \A a \in Attr : e.at[a] \in Contents[a]
  BY DEF Entry
<1>3. \A a \in Attr : Plain(a) \subseteq Sent
  BY SentHas
<1>4. CASE f = "userPrincipalName"
  <2>1. x = Tag("mailPrimaryAddress", e.at["mailPrimaryAddress"])[1]
    BY <1>4 DEF Parse
  <2>2. Tag("mailPrimaryAddress", e.at["mailPrimaryAddress"])[1] \in Plain("mailPrimaryAddress")
    BY <1>1, <1>2, TagPlain
  <2> QED BY <1>1, <1>3, <1>4, <2>1, <2>2
<1>5. CASE f = "usageLocation"
  <2>1. x = IF e.at["st"] = <<>> THEN <<"none", "country">> ELSE Tag("st", e.at["st"])[1]
    BY <1>5 DEF Parse
  <2>2. e.at["st"] # <<>> => Tag("st", e.at["st"])[1] \in Plain("st")
    BY <1>1, <1>2, TagPlain
  <2>3. <<"none", "country">> \in Sent
    BY SentHas
  <2> QED BY <1>1, <1>3, <1>5, <2>1, <2>2, <2>3
<1>6. CASE f \notin {"userPrincipalName", "usageLocation"}
  <2>1. x = <<"none", "no name">> \/ x \in Data(e, f)
    BY <1>6 DEF Parse, Default
  <2> QED BY <2>1, DataWanted
<1> QED BY <1>4, <1>5, <1>6

LEMMA ParseType ==
  ASSUME IInv, NEW e \in Entry
  PROVE  Parse(e) \in [Field -> SUBSET Sent]
<1>1. ASSUME NEW f \in Field, NEW x \in Parse(e)[f] PROVE x \in Sent
  <2>1. <<"none", "no name">> \in Sent
    BY SentHas
  <2>2. Mapped \subseteq Attr
    BY AttrAssumption DEF Mapped, Range
  <2> QED BY <2>1, <2>2, ParseWanted, WantedSent
<1>2. Parse(e) = [f \in Field |-> Parse(e)[f]]
  BY DEF Parse
<1> HIDE DEF Parse
<1> QED BY <1>1, <1>2

\* update changes a field only to the value it was asked for.
LEMMA UpdateOf ==
  ASSUME TypeOK, NEW old \in [Field -> SUBSET Sent], NEW new \in [Field -> SUBSET Sent]
  PROVE  /\ Update(old, new) \in [Field -> SUBSET Sent]
         /\ \A f \in Field : Update(old, new)[f] \in {new[f], account.has[f]}
<1>1. account.has \in [Field -> SUBSET Sent]
  BY DEF TypeOK, Azure
<1>2. PICK D : Update(old, new) = [f \in Field |-> IF f \in D THEN new[f] ELSE account.has[f]]
  BY DEF Update
<1> QED BY <1>1, <1>2

-----------------------------------------------------------------------------
(* The initial states and the steps.                                       *)

LEMMA JobType ==
  ASSUME TypeOK, busy
  PROVE  job \in Job
BY DEF TypeOK, busy

LEMMA InitInv == Init => IInv
<1> SUFFICES ASSUME Init PROVE IInv
  OBVIOUS
<1>1. Config \subseteq AttrSets
  BY ConfigAssumption DEF AttrSets
<1>2. loaded = ucr /\ ucr \in Config /\ attrs = Load(loaded)
  BY DEF Init
<1>3. attrs \in AttrSets /\ Apart(attrs)
  BY <1>2, LoadType
<1>4. ldap \in Entry
  <2>1. [a \in Attr |-> Least(a)] \in [Attr -> Seq(Value)]
    BY LeastType, ContentsType
  <2> QED BY <2>1, LeastType DEF Init, Entry
<1>5. account \in Azure
  BY DEF Init, NoAccount, Azure
<1>6. seen \in Entry /\ job \in Job \cup {Idle}
  BY <1>4 DEF Init
<1>7. changes \in 0 .. MaxChanges /\ crashes \in 0 .. MaxCrashes
  <2>1. changes = 0 /\ crashes = 0
    BY DEF Init
  <2> QED BY <2>1, BoundsAssumption
<1>8. failed \in BOOLEAN /\ raced \in BOOLEAN /\ outdated \in BOOLEAN
  BY Zenon DEF Init
<1> QED BY <1>2, <1>3, <1>4, <1>5, <1>6, <1>7, <1>8 DEF IInv, TypeOK, Loaded

\* Whatever is done to the entry, it stays one.
LEMMA PutType ==
  ASSUME TypeOK, NEW e \in Entry, Put(e)
  PROVE  TypeOK'
<1>1. changes' \in 0 .. MaxChanges
  BY BoundsAssumption DEF TypeOK, Put
<1> QED BY <1>1 DEF TypeOK, Put, config, Apart

LEMMA LoadConfigType ==
  ASSUME TypeOK, LoadConfig
  PROVE  /\ ucr' \in Config /\ loaded' \in Config /\ attrs' \in AttrSets /\ Apart(attrs)'
         /\ outdated' \in BOOLEAN /\ Loaded'
<1>1. ucr \in Config /\ outdated \in BOOLEAN
  BY DEF TypeOK
<1>2. attrs' = Load(ucr) /\ loaded' = ucr /\ ucr' = ucr
  BY DEF LoadConfig
<1>3. PICK c \in Config : c = ucr
  BY <1>1
<1>4. Load(c) \in AttrSets /\ Apart(Load(c))
  BY LoadType
<1>5. attrs' = Load(c) /\ loaded' = c
  BY <1>2, <1>3
<1>6. Apart(attrs)' /\ attrs' \in AttrSets
  BY <1>4, <1>5 DEF Apart
<1>7. Loaded'
  BY <1>5 DEF Loaded
<1> QED BY <1>1, <1>2, <1>6, <1>7 DEF LoadConfig

LEMMA SameConfig ==
  ASSUME IInv, UNCHANGED config
  PROVE  /\ ucr' \in Config /\ loaded' \in Config /\ attrs' \in AttrSets /\ Apart(attrs)'
         /\ Loaded'
<1>1. ucr \in Config /\ loaded \in Config /\ attrs \in AttrSets /\ Apart(attrs)
  BY DEF IInv, TypeOK
<1>2. attrs = Load(loaded)
  BY DEF IInv, Loaded
<1>3. ucr' = ucr /\ loaded' = loaded /\ attrs' = attrs
  BY DEF config
<1>4. PICK c : c = loaded
  OBVIOUS
<1>5. attrs' = Load(c) /\ loaded' = c
  BY <1>2, <1>3, <1>4
<1> QED BY <1>1, <1>3, <1>5 DEF Loaded, Apart

\* The administrators' steps.
LEMMA AdminInv ==
  ASSUME IInv, Admin
  PROVE  IInv'
<1>0. TypeOK /\ ldap \in Entry
  BY DEF IInv, TypeOK
<1>1. CASE Switch
  <2>1. [ldap EXCEPT !.on = ~@] \in Entry
    BY <1>0 DEF Entry
  <2>2. Put([ldap EXCEPT !.on = ~@])
    BY <1>1 DEF Switch
  <2> QED BY <1>0, <2>1, <2>2, PutType, SameConfig DEF IInv, Put
<1>2. CASE \E a \in Attr : SetAttribute(a)
  <2>0. PICK a \in Attr : SetAttribute(a)
    BY <1>2
  <2>1. PICK c \in Contents[a] : Put([ldap EXCEPT !.at[a] = c])
    BY <2>0 DEF SetAttribute
  <2>2. c \in Seq(Value)
    BY ContentsType
  <2>3. [ldap EXCEPT !.at[a] = c] \in Entry
    <3>1. [ldap.at EXCEPT ![a] = c] \in [Attr -> Seq(Value)]
      BY <1>0, <2>2 DEF Entry
    <3>2. \A b \in Attr : [ldap.at EXCEPT ![a] = c][b] \in Contents[b]
      BY <1>0 DEF Entry
    <3> QED BY <1>0, <3>1, <3>2 DEF Entry
  <2> QED BY <1>0, <2>1, <2>3, PutType, SameConfig DEF IInv, Put
<1>3. CASE Configure
  <2>1. changes' \in 0 .. MaxChanges
    BY <1>0, <1>3, BoundsAssumption DEF TypeOK, Configure
  <2>2. ucr' \in Config
    BY <1>3 DEF Configure
  <2>3. attrs = Load(loaded) /\ attrs' = attrs /\ loaded' = loaded
    BY <1>3 DEF IInv, Loaded, Configure
  <2>4. PICK c : c = loaded
    OBVIOUS
  <2>5. attrs' = Load(c) /\ loaded' = c
    BY <2>3, <2>4
  <2> QED BY <1>0, <1>3, <2>1, <2>2, <2>5 DEF TypeOK, IInv, Loaded, Configure, entries, Apart
<1> QED BY <1>1, <1>2, <1>3 DEF Admin

\* The listener's steps that leave its lists alone.
LEMMA HandlerInv ==
  ASSUME IInv, busy, Handler
  PROVE  IInv'
<1>0. TypeOK /\ job \in Job /\ job.old \in Entry /\ job.new \in Entry
  BY JobType DEF IInv, Job
<1>1. UNCHANGED config
  BY DEF Handler, PostNew, PostTake, EditNew, Edit, Off, OffUnknown, Write, Finish, Return
<1>2. /\ ucr' \in Config /\ loaded' \in Config /\ attrs' \in AttrSets /\ Apart(attrs)'
      /\ Loaded'
  BY <1>1, SameConfig
<1>3. job' \in Job \cup {Idle}
  BY <1>0 DEF Handler, PostNew, PostTake, EditNew, Edit, Off, OffUnknown, Write, Finish, Return, Job
<1>4. ldap' \in Entry /\ seen' \in Entry
  BY <1>0 DEF Handler, PostNew, PostTake, EditNew, Edit, Off, OffUnknown, Write, Finish,
              Return, entries, TypeOK, Entry
<1>5. account' \in Azure
  <2>0. account \in Azure
    BY <1>0 DEF TypeOK
  <2>1. \A e \in Entry : Parse(e) \in [Field -> SUBSET Sent]
    BY ParseType
  <2>2. CASE PostNew
    BY <1>0, <2>1, <2>2 DEF PostNew, Azure
  <2>3. CASE PostTake
    <3>1. Update(account.has, Parse(job.new)) \in [Field -> SUBSET Sent]
      BY <1>0, <2>0, <2>1, UpdateOf DEF Azure
    <3> QED BY <2>3, <3>1 DEF PostTake, Azure
  <2>4. CASE Edit
    <3>1. Update(Parse(job.old), Parse(job.new)) \in [Field -> SUBSET Sent]
      BY <1>0, <2>1, UpdateOf
    <3> QED BY <2>0, <2>4, <3>1 DEF Edit, Azure
  <2>5. CASE Off
    BY <2>0, <2>5, FieldAssumption DEF Off, Azure
  <2>6. CASE EditNew \/ OffUnknown \/ Write \/ Finish
    BY <2>0, <2>6 DEF EditNew, OffUnknown, Write, Finish, Return
  <2> QED BY <2>2, <2>3, <2>4, <2>5, <2>6 DEF Handler
<1>6. /\ changes' \in 0 .. MaxChanges /\ crashes' \in 0 .. MaxCrashes
      /\ failed' \in BOOLEAN /\ raced' \in BOOLEAN /\ outdated' \in BOOLEAN
  BY <1>0 DEF Handler, PostNew, PostTake, EditNew, Edit, Off, OffUnknown, Write, Finish,
              Return, history, TypeOK
<1> QED BY <1>2, <1>3, <1>4, <1>5, <1>6 DEF IInv, TypeOK

LEMMA NextInv == IInv /\ [Next]_vars => IInv'
<1> SUFFICES ASSUME IInv, [Next]_vars PROVE IInv'
  OBVIOUS
<1>0. TypeOK
  BY DEF IInv
<1>1. CASE Admin
  BY <1>1, AdminInv
<1>2. CASE Restart
  <2>1. LoadConfig
    BY <1>2 DEF Restart
  <2> QED BY <1>0, <1>2, <2>1, LoadConfigType DEF Restart, IInv, TypeOK, entries
<1>3. CASE Start
  <2>1. job' \in Job
    BY <1>0, <1>3 DEF Start, Branch, Job, TypeOK
  <2>2. UNCHANGED config
    BY <1>3 DEF Start
  <2> QED BY <1>0, <1>3, <2>1, <2>2, SameConfig DEF Start, IInv, TypeOK, entries, history
<1>4. CASE busy /\ Handler
  BY <1>4, HandlerInv
<1>5. CASE Fails
  <2>1. UNCHANGED config
    BY <1>5 DEF Fails, Return
  <2>2. job \in Job
    BY <1>0, <1>5, JobType DEF Fails
  <2>3. seen' \in Entry
    BY <1>5, <2>2 DEF Fails, Return, Job
  <2> QED BY <1>0, <1>5, <2>1, <2>3, SameConfig DEF Fails, Return, IInv, TypeOK
<1>6. CASE Crash
  <2>1. LoadConfig
    BY <1>6 DEF Crash
  <2>2. crashes' \in 0 .. MaxCrashes
    BY <1>0, <1>6, BoundsAssumption DEF Crash, TypeOK
  <2> QED BY <1>0, <1>6, <2>1, <2>2, LoadConfigType DEF Crash, IInv, TypeOK, entries
<1>7. CASE UNCHANGED vars
  <2>1. UNCHANGED config
    BY <1>7 DEF vars, config
  <2> QED BY <1>0, <1>7, <2>1, SameConfig DEF vars, IInv, TypeOK
<1> QED BY <1>1, <1>2, <1>3, <1>4, <1>5, <1>6, <1>7 DEF Next, Listener

LEMMA Invariance == Spec => []IInv
<1> QED BY InitInv, NextInv, PTL DEF Spec

\* The lists of the listener never have an attribute in common, the entries
\* hold what they may, and what Azure has is of the connector's making.
THEOREM TypeCorrect == Spec => []TypeOK
<1>1. IInv => TypeOK
  BY DEF IInv
<1> QED BY <1>1, Invariance, PTL

-----------------------------------------------------------------------------
(* What is sent.                                                           *)

Governed == Field \ {"userPrincipalName", "usageLocation"}

May(f, x) == \/ x = <<"none", "no name">>
             \/ \E a \in Mapped : MapTo[a] = f /\ x \in Wanted(loaded, a)

LEMMA StepSends ==
  ASSUME IInv, [Next]_vars, NEW f \in Governed,
         NEW x \in account'.has[f] \ account.has[f]
  PROVE  May(f, x)
<1>0. TypeOK /\ f \in Field /\ account \in Azure
  BY DEF IInv, TypeOK, Governed
<1>1. \A e \in Entry : \A y \in Parse(e)[f] : May(f, y)
  BY <1>0, ParseWanted DEF Governed, May
<1>2. \A e \in Entry : Parse(e) \in [Field -> SUBSET Sent]
  BY ParseType
<1>3. busy => job \in Job /\ job.old \in Entry /\ job.new \in Entry
  BY <1>0, JobType DEF Job
<1>4. CASE busy /\ PostNew
  <2>1. account'.has[f] = Parse(job.new)[f]
    BY <1>4 DEF PostNew
  <2> QED BY <1>1, <1>3, <1>4, <2>1
<1>5. CASE busy /\ PostTake
  <2>1. account'.has = Update(account.has, Parse(job.new))
    BY <1>5 DEF PostTake
  <2>2. Update(account.has, Parse(job.new))[f] \in {Parse(job.new)[f], account.has[f]}
    BY <1>0, <1>2, <1>3, <1>5, UpdateOf DEF Azure
  <2> QED BY <1>1, <1>3, <1>5, <2>1, <2>2
<1>6. CASE busy /\ Edit
  <2>1. account'.has = Update(Parse(job.old), Parse(job.new))
    BY <1>0, <1>6 DEF Edit, Azure
  <2>2. Update(Parse(job.old), Parse(job.new))[f] \in {Parse(job.new)[f], account.has[f]}
    BY <1>0, <1>2, <1>3, <1>6, UpdateOf
  <2> QED BY <1>1, <1>3, <1>6, <2>1, <2>2
<1>7. CASE busy /\ Off
  <2>1. account'.has = [account.has EXCEPT !["otherMails"] = {}]
    BY <1>0, <1>7 DEF Off, Azure
  <2>2. account.has \in [Field -> SUBSET Sent]
    BY <1>0 DEF Azure
  <2>3. account'.has[f] \subseteq account.has[f]
    BY <1>0, <2>1, <2>2
  <2> QED BY <2>3
<1>8. CASE UNCHANGED account
  BY <1>8
<1>9. \/ busy /\ (PostNew \/ PostTake \/ Edit \/ Off)
      \/ UNCHANGED account
  <2>1. CASE Admin
    BY <2>1 DEF Admin, Switch, SetAttribute, Put, Configure
  <2>2. CASE Restart \/ Start \/ Fails \/ Crash
    BY <2>2 DEF Restart, Start, Fails, Crash, Return
  <2>3. CASE busy /\ Handler
    BY <2>3 DEF Handler, EditNew, OffUnknown, Write, Finish, Return
  <2>4. CASE UNCHANGED vars
    BY <2>4 DEF vars
  <2> QED BY <2>1, <2>2, <2>3, <2>4 DEF Next, Listener
<1> QED BY <1>4, <1>5, <1>6, <1>7, <1>8, <1>9

LEMMA StepAsWanted ==
  ASSUME IInv, [Next]_vars
  PROVE  [\A f \in Field \ {"userPrincipalName", "usageLocation"} :
            \A x \in account'.has[f] \ account.has[f] :
              \/ x = <<"none", "no name">>
              \/ \E a \in Mapped : MapTo[a] = f /\ x \in Wanted(loaded, a)]_vars
<1>1. \A f \in Governed : \A x \in account'.has[f] \ account.has[f] : May(f, x)
  BY StepSends
<1> QED BY <1>1 DEF Governed, May

\* Whatever is changed, restarted or killed, a field is given nothing that the
\* registry forbids: UserConnector.parse (connector.py:635) and
\* UserAzure.update keep never, anonymize and static.
THEOREM SendsOnlyWhatIsWanted == Spec => OnlyAsWanted
<1>1. IInv /\ [Next]_vars =>
        [\A f \in Field \ {"userPrincipalName", "usageLocation"} :
            \A x \in account'.has[f] \ account.has[f] :
              \/ x = <<"none", "no name">>
              \/ \E a \in Mapped : MapTo[a] = f /\ x \in Wanted(loaded, a)]_vars
  BY StepAsWanted
<1> QED BY <1>1, Invariance, PTL DEF Spec, OnlyAsWanted

-----------------------------------------------------------------------------
(* That the account has what it should.  The invariant says so of fields   *)
(* that two entries agree on, since the listener does not send these.      *)

P == [e \in Entry |-> Parse(e)]

Same(d, e) == d.on = e.on /\ d.at = e.at

\* The account, which contains h, has what p makes of entry e, where p makes the
\* same of d.
Holds(p, h, d, e) ==
  \A f \in Field \ CreateOnly :
    p[e][f] # {} /\ p[d][f] = p[e][f] => h[f] = p[e][f]

\* After a kill, what was handled of the change is done again.
RestOn(l, s, a, n) == s.on => /\ n = 0 => a.enabled
                              /\ n > 0 /\ l.on => a.enabled
RestHas(p, l, s, a, n) == s.on => /\ n = 0 => Holds(p, a.has, s, s)
                                  /\ n > 0 /\ l.on => Holds(p, a.has, s, l)

WorkOn(j, l, s, a, n) ==
  /\ j.old = s /\ s # j.new
  /\ n > 0 => Same(l, j.new) /\ s # l
  /\ j.pc \in {"post", "write"} => j.new.on /\ ~s.on
  /\ j.pc = "edit" => s.on /\ j.new.on
  /\ j.pc = "off" => ~j.new.on
  /\ j.pc \in {"edit", "write"} \/ (j.pc = "done" /\ j.new.on) => a.enabled
WorkHas(p, j, a) ==
  /\ j.pc = "edit" => Holds(p, a.has, j.old, j.new)
  /\ j.pc = "write" \/ (j.pc = "done" /\ j.new.on) => Holds(p, a.has, j.new, j.new)

On == ~failed /\ ~raced => /\ busy => WorkOn(job, ldap, seen, account, crashes)
                           /\ ~busy => RestOn(ldap, seen, account, crashes)
Has == ~failed /\ ~raced /\ ~outdated =>
         /\ busy => WorkHas(P, job, account)
         /\ ~busy => RestHas(P, ldap, seen, account, crashes)

JInv == IInv /\ On /\ Has

\* What parse makes of an entry depends on the lists and the attributes only.
LEMMA ParseSame ==
  ASSUME NEW e, NEW d, e.at = d.at, attrs' = attrs
  PROVE  Parse(e) = Parse(d) /\ Parse(e)' = Parse(e)
<1>1. Present(e) = Present(d) /\ Present(e)' = Present(e)
  BY DEF Present
<1>2. \A a : Converted(e, a) = Converted(d, a) /\ Converted(e, a)' = Converted(e, a)
  BY DEF Converted
<1>3. \A f : Sources(e, f) = Sources(d, f) /\ Sources(e, f)' = Sources(e, f)
  BY <1>1 DEF Sources
<1>4. \A f : Data(e, f) = Data(d, f) /\ Data(e, f)' = Data(e, f)
  BY <1>2, <1>3 DEF Data
<1> QED BY <1>4 DEF Parse

LEMMA PSame ==
  ASSUME attrs' = attrs
  PROVE  P' = P
<1>1. \A e \in Entry : Parse(e)' = Parse(e)
  BY ParseSame
<1> QED BY <1>1 DEF P

LEMMA POf ==
  ASSUME NEW d \in Entry, NEW e \in Entry, d.at = e.at
  PROVE  Parse(d) = Parse(e)
<1>1. Present(e) = Present(d)
  BY DEF Present
<1>2. \A a : Converted(e, a) = Converted(d, a)
  BY DEF Converted
<1>3. \A f : Sources(e, f) = Sources(d, f)
  BY <1>1 DEF Sources
<1>4. ASSUME NEW f PROVE Data(e, f) = Data(d, f)
  <2>1. PICK S : S = Sources(e, f) /\ S = Sources(d, f)
    BY <1>3
  <2>2. \A a : d.at[a] = e.at[a] /\ Converted(e, a) = Converted(d, a)
    BY <1>2
  <2>3. {Range(Converted(e, a)) : a \in S} = {Range(Converted(d, a)) : a \in S}
    BY <2>2
  <2>4. {Converted(e, Leading(S))[1]} = {Converted(d, Leading(S))[1]}
    BY <2>2
  <2> QED BY <2>1, <2>3, <2>4 DEF Data
<1> QED BY <1>4 DEF Parse

LEMMA PType ==
  ASSUME IInv
  PROVE  /\ \A e \in Entry : P[e] = Parse(e) /\ P[e] \in [Field -> SUBSET Sent]
         /\ \A d, e \in Entry : d.at = e.at => P[d] = P[e]
<1>1. \A e \in Entry : P[e] = Parse(e)
  BY DEF P
<1>2. \A e \in Entry : Parse(e) \in [Field -> SUBSET Sent]
  BY ParseType
<1>3. \A d, e \in Entry : d.at = e.at => Parse(d) = Parse(e)
  BY POf
<1> QED BY <1>1, <1>2, <1>3

LEMMA HoldsMore ==
  ASSUME NEW p, NEW h, NEW d, NEW e, Holds(p, h, e, e) \/ Holds(p, h, d, d)
  PROVE  Holds(p, h, d, e)
BY DEF Holds

LEMMA HoldsSame ==
  ASSUME NEW p, NEW h, NEW d, NEW e, NEW c, p[c] = p[e]
  PROVE  /\ Holds(p, h, d, e) => Holds(p, h, d, c)
         /\ Holds(p, h, e, e) => Holds(p, h, e, c)
BY DEF Holds

\* update (azureobjects.py) sends what differs: where the account has what was
\* sent for the old entry, it then has what is sent for the new one.
LEMMA UpdateHolds ==
  ASSUME TypeOK, NEW p, NEW d, NEW e
  PROVE  /\ Holds(p, account.has, d, e) => Holds(p, Update(p[d], p[e]), e, e)
         /\ Holds(p, Update(account.has, p[e]), e, e)
<1>1. \A old, new : \A f \in Field \ CreateOnly :
        new[f] # {} => Update(old, new)[f] = IF old[f] # new[f] \/ Random(new[f])
                                             THEN new[f] ELSE account.has[f]
  BY DEF Update
<1>2. ASSUME NEW f \in Field \ CreateOnly, p[e][f] # {}, Holds(p, account.has, d, e)
      PROVE  Update(p[d], p[e])[f] = p[e][f]
  <2>1. p[d][f] = p[e][f] => account.has[f] = p[e][f]
    BY <1>2 DEF Holds
  <2> QED BY <1>1, <1>2, <2>1
<1>3. ASSUME NEW f \in Field \ CreateOnly, p[e][f] # {}
      PROVE  Update(account.has, p[e])[f] = p[e][f]
  BY <1>1, <1>3
<1> QED BY <1>2, <1>3 DEF Holds

LEMMA InitJ == Init => JInv
<1> SUFFICES ASSUME Init PROVE JInv
  OBVIOUS
<1>1. ~busy /\ ~seen.on
  BY DEF Init, busy
<1>2. On /\ Has
  BY <1>1 DEF On, Has, RestOn, RestHas
<1> QED BY <1>2, InitInv DEF JInv

\* A change of the entry: after a kill it must not come before what was
\* interrupted is done again.
LEMMA PutJ ==
  ASSUME JInv, NEW e \in Entry, Put(e)
  PROVE  On' /\ Has'
<1>0. TypeOK /\ crashes \in Nat /\ seen \in Entry
  BY BoundsAssumption DEF JInv, IInv, TypeOK
<1>1. /\ ldap' = e /\ seen' = seen /\ attrs' = attrs /\ account' = account /\ job' = job
      /\ crashes' = crashes /\ failed' = failed /\ outdated' = outdated
      /\ (busy <=> busy')
      /\ ~raced' => ~raced /\ (crashes > 0 => seen = ldap)
  BY <1>0 DEF Put, entries, config, busy, TypeOK
<1>2. P' = P
  BY <1>1, PSame
<1> SUFFICES ASSUME ~failed', ~raced'
             PROVE  On' /\ Has'
  BY DEF On, Has
<1>3. ~failed /\ ~raced
  BY <1>1
<1>4. CASE busy
  <2>1. WorkOn(job, ldap, seen, account, crashes)
    BY <1>3, <1>4 DEF JInv, On
  <2>2. ~ (crashes > 0)
    BY <1>1, <2>1 DEF WorkOn
  <2>3. WorkOn(job, e, seen, account, crashes)
    BY <2>1, <2>2 DEF WorkOn
  <2>4. On'
    BY <1>1, <1>4, <2>3 DEF On
  <2>5. ~outdated => WorkHas(P, job, account)
    BY <1>3, <1>4 DEF JInv, Has
  <2>6. Has'
    BY <1>1, <1>2, <1>4, <2>5 DEF Has
  <2> QED BY <2>4, <2>6
<1>5. CASE ~busy
  <2>1. RestOn(ldap, seen, account, crashes)
    BY <1>3, <1>5 DEF JInv, On
  <2>2. RestOn(e, seen, account, crashes)
    BY <1>1, <2>1 DEF RestOn
  <2>3. On'
    BY <1>1, <1>5, <2>2 DEF On
  <2>4. ASSUME ~outdated PROVE RestHas(P, e, seen, account, crashes)
    <3>1. RestHas(P, ldap, seen, account, crashes)
      BY <1>3, <1>5, <2>4 DEF JInv, Has
    <3> QED BY <1>1, <3>1, HoldsMore DEF RestHas
  <2>5. Has'
    BY <1>1, <1>2, <1>5, <2>4 DEF Has
  <2> QED BY <2>3, <2>5
<1> QED BY <1>4, <1>5

\* A step that changes the lists, or the registry, only.
LEMMA ConfigJ ==
  ASSUME JInv, job' = job, UNCHANGED <<entries, account, crashes, failed, raced>>,
         (attrs' = attrs /\ outdated' = outdated) \/ outdated' = TRUE
  PROVE  On' /\ Has'
<1>1. /\ ldap' = ldap /\ seen' = seen /\ account' = account /\ crashes' = crashes
      /\ failed' = failed /\ raced' = raced /\ (busy <=> busy')
  BY DEF entries, busy
<1>2. On'
  BY <1>1 DEF JInv, On
<1>3. CASE outdated' = TRUE
  BY <1>2, <1>3 DEF Has
<1>4. CASE attrs' = attrs /\ outdated' = outdated
  <2>1. P' = P
    BY <1>4, PSame
  <2> QED BY <1>1, <1>2, <1>4, <2>1 DEF JInv, Has
<1> QED BY <1>3, <1>4

LEMMA StartJ ==
  ASSUME JInv, Start
  PROVE  On' /\ Has'
<1>0. TypeOK /\ crashes \in Nat /\ seen \in Entry /\ ldap \in Entry
  BY BoundsAssumption DEF JInv, IInv, TypeOK
<1>1. /\ ldap' = ldap /\ seen' = seen /\ attrs' = attrs /\ account' = account
      /\ crashes' = crashes /\ failed' = failed /\ raced' = raced /\ outdated' = outdated
      /\ ~busy /\ seen # ldap
  BY DEF Start, entries, config, history
<1>2. /\ job'.pc = Branch(seen, ldap) /\ job'.old = seen /\ job'.new = ldap /\ busy'
  BY DEF Start, busy, Idle
<1>3. P' = P
  BY <1>1, PSame
<1> SUFFICES ASSUME ~failed', ~raced'
             PROVE  On' /\ Has'
  BY DEF On, Has
<1>4. RestOn(ldap, seen, account, crashes)
  BY <1>1 DEF JInv, On
<1>5. WorkOn(job', ldap, seen, account, crashes)
  BY <1>0, <1>1, <1>2, <1>4 DEF RestOn, WorkOn, Branch, Same
<1>6. On'
  BY <1>1, <1>2, <1>5 DEF On
<1>7. ASSUME ~outdated PROVE WorkHas(P, job', account)
  <2>1. RestHas(P, ldap, seen, account, crashes)
    BY <1>1, <1>7 DEF JInv, Has
  <2>2. seen.on /\ ldap.on => Holds(P, account.has, seen, ldap)
    BY <1>0, <2>1, HoldsMore DEF RestHas
  <2> QED BY <1>2, <2>2 DEF WorkHas, Branch
<1>8. Has'
  BY <1>1, <1>2, <1>3, <1>7 DEF Has
<1> QED BY <1>6, <1>8

LEMMA ReturnJ ==
  ASSUME JInv, busy, Return, job.pc = "done" \/ job.pc = "off", failed' = failed
  PROVE  On' /\ Has'
<1>0. /\ TypeOK /\ IInv /\ crashes \in Nat /\ job \in Job /\ job.old \in Entry /\ job.new \in Entry
      /\ ldap \in Entry
  BY BoundsAssumption, JobType DEF JInv, IInv, TypeOK, Job
<1>1. /\ ldap' = ldap /\ seen' = job.new /\ attrs' = attrs /\ account' = account
      /\ crashes' = crashes /\ raced' = raced /\ outdated' = outdated /\ ~busy'
  BY DEF Return, config, busy
<1>2. P' = P
  BY <1>1, PSame
<1> SUFFICES ASSUME ~failed, ~raced
             PROVE  On' /\ Has'
  BY <1>1 DEF On, Has
<1>3. WorkOn(job, ldap, seen, account, crashes)
  BY DEF JInv, On
<1>4. RestOn(ldap, job.new, account, crashes)
  BY <1>3 DEF WorkOn, RestOn
<1>5. On'
  BY <1>1, <1>4 DEF On
<1>6. ASSUME ~outdated PROVE RestHas(P, ldap, job.new, account, crashes)
  <2>1. WorkHas(P, job, account)
    BY <1>6 DEF JInv, Has
  <2>2. crashes > 0 => P[ldap] = P[job.new]
    BY <1>0, <1>3, PType DEF WorkOn, Same
  <2>3. job.new.on => Holds(P, account.has, job.new, job.new)
    BY <1>3, <2>1 DEF WorkHas, WorkOn
  <2>4. job.new.on /\ crashes > 0 => Holds(P, account.has, job.new, ldap)
    BY <2>2, <2>3, HoldsSame
  <2> QED BY <2>3, <2>4 DEF RestHas
<1>7. Has'
  BY <1>1, <1>2, <1>6 DEF Has
<1> QED BY <1>5, <1>7

\* The steps that write to the account, or the objectId.
LEMMA HandlerJ ==
  ASSUME JInv, busy, Handler
  PROVE  On' /\ Has'
<1>0. /\ TypeOK /\ IInv /\ crashes \in Nat /\ job \in Job /\ job.old \in Entry /\ job.new \in Entry
      /\ ldap \in Entry /\ account \in Azure
  BY BoundsAssumption, JobType DEF JInv, IInv, TypeOK, Job
<1>1. CASE Finish
  BY <1>1, ReturnJ DEF Finish
<1>2. CASE OffUnknown
  BY <1>2, ReturnJ DEF OffUnknown
<1>3. ASSUME PostNew \/ PostTake \/ EditNew \/ Edit \/ Off \/ Write
      PROVE  On' /\ Has'
  <2>1. /\ seen' = seen /\ attrs' = attrs /\ crashes' = crashes /\ raced' = raced
        /\ failed' = failed /\ busy' /\ job'.old = job.old /\ job'.new = job.new
    BY <1>0, <1>3 DEF PostNew, PostTake, EditNew, Edit, Off, Write, entries, config, history,
                      busy, Idle, Job
  <2>2. P' = P
    BY <2>1, PSame
  <2> SUFFICES ASSUME ~failed, ~raced
               PROVE  On' /\ Has'
    BY <2>1 DEF On, Has
  <2>3. WorkOn(job, ldap, seen, account, crashes)
    BY DEF JInv, On
  <2>4. ASSUME WorkOn(job', ldap', seen, account', crashes),
               ~outdated' => WorkHas(P, job', account')
        PROVE  On' /\ Has'
    BY <2>1, <2>2, <2>4 DEF On, Has
  <2>5. CASE PostNew \/ PostTake
    <3>1. /\ job.pc = "post" /\ job'.pc = "write" /\ ldap' = ldap /\ account'.enabled
          /\ account'.has = Parse(job.new) \/ account'.has = Update(account.has, Parse(job.new))
      BY <1>0, <2>5 DEF PostNew, PostTake, entries, Job
    <3>2. WorkOn(job', ldap', seen, account', crashes)
      BY <2>1, <2>3, <3>1 DEF WorkOn
    <3>3. P[job.new] = Parse(job.new)
      BY <1>0, PType
    <3>4. Holds(P, account'.has, job.new, job.new)
      <4>1. Holds(P, Update(account.has, P[job.new]), job.new, job.new)
        BY <1>0, UpdateHolds
      <4>2. Holds(P, P[job.new], job.new, job.new)
        BY DEF Holds
      <4> QED BY <3>1, <3>3, <4>1, <4>2
    <3>5. WorkHas(P, job', account')
      BY <2>1, <3>1, <3>4 DEF WorkHas
    <3> QED BY <2>4, <3>2, <3>5
  <2>6. CASE EditNew
    <3>1. job.pc = "edit" /\ ~account.enabled
      BY <2>6 DEF EditNew, NoAccount
    <3> QED BY <2>3, <3>1 DEF WorkOn
  <2>7. CASE Edit
    <3>1. /\ job.pc = "edit" /\ job'.pc = "done" /\ ldap' = ldap /\ outdated' = outdated
          /\ account'.enabled = account.enabled
          /\ account'.has = Update(Parse(job.old), Parse(job.new))
      BY <1>0, <2>7 DEF Edit, entries, history, Job, Azure
    <3>2. WorkOn(job', ldap', seen, account', crashes)
      BY <2>1, <2>3, <3>1 DEF WorkOn
    <3>3. P[job.new] = Parse(job.new) /\ P[job.old] = Parse(job.old)
      BY <1>0, PType
    <3>4. ASSUME ~outdated PROVE Holds(P, account'.has, job.new, job.new)
      <4>1. Holds(P, account.has, job.old, job.new)
        BY <3>1, <3>4 DEF JInv, Has, WorkHas
      <4> QED BY <1>0, <3>1, <3>3, <4>1, UpdateHolds
    <3>5. ~outdated' => WorkHas(P, job', account')
      BY <2>1, <3>1, <3>4 DEF WorkHas
    <3> QED BY <2>4, <3>2, <3>5
  <2>8. CASE Off
    <3>1. job.pc = "off" /\ job'.pc = "done" /\ ldap' = ldap
      BY <1>0, <2>8 DEF Off, entries, Job
    <3>2. WorkOn(job', ldap', seen, account', crashes)
      BY <2>1, <2>3, <3>1 DEF WorkOn
    <3>3. WorkHas(P, job', account')
      BY <2>1, <2>3, <3>1 DEF WorkHas, WorkOn
    <3> QED BY <2>4, <3>2, <3>3
  <2>9. CASE Write
    <3>1. /\ job.pc = "write" /\ job'.pc = "done" /\ account' = account /\ outdated' = outdated
          /\ Same(ldap', ldap)
      BY <1>0, <2>9 DEF Write, history, Job, Same, Entry
    <3>2. WorkOn(job', ldap', seen, account', crashes)
      <4>1. job.new.on /\ ~seen.on /\ account.enabled
        BY <2>3, <3>1 DEF WorkOn
      <4>2. crashes > 0 => Same(ldap', job.new) /\ seen # ldap'
        BY <2>3, <3>1, <4>1 DEF WorkOn, Same
      <4> QED BY <2>1, <2>3, <3>1, <4>1, <4>2 DEF WorkOn
    <3>3. ~outdated => WorkHas(P, job', account')
      <4>1. ~outdated => WorkHas(P, job, account)
        BY DEF JInv, Has
      <4> QED BY <2>1, <3>1, <4>1 DEF WorkHas
    <3> QED BY <2>4, <3>1, <3>2, <3>3
  <2> QED BY <1>3, <2>5, <2>6, <2>7, <2>8, <2>9
<1> QED BY <1>1, <1>2, <1>3 DEF Handler

\* The listener is killed: what it was doing is known if the entry is still the
\* one it was about.
LEMMA CrashJ ==
  ASSUME JInv, Crash
  PROVE  On' /\ Has'
<1>0. TypeOK /\ crashes \in Nat /\ attrs = Load(loaded)
  BY BoundsAssumption DEF JInv, IInv, TypeOK, Loaded
<1>1. /\ busy /\ ~busy' /\ ldap' = ldap /\ seen' = seen /\ account' = account
      /\ crashes' = crashes + 1 /\ failed' = failed
      /\ ~raced' => ~raced /\ ldap = job.new
      /\ ~outdated' => ~outdated /\ ucr = loaded
  BY <1>0 DEF Crash, LoadConfig, entries, busy, TypeOK
<1>2. attrs' = Load(ucr)
  BY DEF Crash, LoadConfig
<1> SUFFICES ASSUME ~failed', ~raced'
             PROVE  On' /\ Has'
  BY DEF On, Has
<1>3. WorkOn(job, ldap, seen, account, crashes)
  BY <1>1 DEF JInv, On
<1>4. RestOn(ldap, seen, account, crashes + 1)
  <2>1. seen.on /\ ldap.on => job.pc = "edit" \/ job.pc = "done"
    <3>1. job.pc \in {"post", "edit", "off", "write", "done"}
      BY <1>0, <1>1, JobType DEF Job
    <3> QED BY <1>1, <1>3, <3>1 DEF WorkOn
  <2>2. seen.on /\ ldap.on => account.enabled
    BY <1>1, <1>3, <2>1 DEF WorkOn
  <2> QED BY <1>0, <2>2 DEF RestOn
<1>5. On'
  BY <1>1, <1>4 DEF On
<1>6. ASSUME ~outdated' PROVE RestHas(P', ldap, seen, account, crashes + 1)
  <2>1. ~outdated /\ ucr = loaded
    BY <1>1, <1>6
  <2>2. attrs' = attrs
    BY <1>0, <1>2, <2>1
  <2>3. P' = P
    BY <2>2, PSame
  <2>4. WorkHas(P, job, account)
    BY <1>1, <2>1 DEF JInv, Has
  <2>5. seen.on /\ ldap.on => job.pc = "edit" \/ job.pc = "done"
    <3>1. job.pc \in {"post", "edit", "off", "write", "done"}
      BY <1>0, <1>1, JobType DEF Job
    <3> QED BY <1>1, <1>3, <3>1 DEF WorkOn
  <2>6. seen.on /\ ldap.on => Holds(P, account.has, seen, ldap)
    <3>1. ASSUME job.pc = "edit" PROVE Holds(P, account.has, seen, ldap)
      BY <1>1, <1>3, <2>4, <3>1 DEF WorkHas, WorkOn
    <3>2. ASSUME job.pc = "done", ldap.on PROVE Holds(P, account.has, seen, ldap)
      <4>1. Holds(P, account.has, ldap, ldap)
        BY <1>1, <2>4, <3>2 DEF WorkHas
      <4> QED BY <4>1, HoldsMore
    <3> QED BY <2>5, <3>1, <3>2
  <2>7. RestHas(P, ldap, seen, account, crashes + 1)
    BY <1>0, <2>6 DEF RestHas
  <2> QED BY <2>3, <2>7
<1>7. Has'
  BY <1>1, <1>6 DEF Has
<1> QED BY <1>5, <1>7

LEMMA NextJ == JInv /\ [Next]_vars => JInv'
<1> SUFFICES ASSUME JInv, [Next]_vars PROVE On' /\ Has'
  BY NextInv DEF JInv
<1>0. TypeOK /\ ldap \in Entry
  BY DEF JInv, IInv, TypeOK
<1>1. CASE Switch
  <2>1. [ldap EXCEPT !.on = ~@] \in Entry
    BY <1>0 DEF Entry
  <2> QED BY <1>1, <2>1, PutJ DEF Switch
<1>2. CASE \E a \in Attr : SetAttribute(a)
  <2>1. PICK a \in Attr : SetAttribute(a)
    BY <1>2
  <2>2. PICK c \in Contents[a] : Put([ldap EXCEPT !.at[a] = c])
    BY <2>1 DEF SetAttribute
  <2>3. c \in Seq(Value)
    BY ContentsType
  <2>4. [ldap EXCEPT !.at[a] = c] \in Entry
    <3>1. [ldap.at EXCEPT ![a] = c] \in [Attr -> Seq(Value)]
      BY <1>0, <2>3 DEF Entry
    <3>2. \A b \in Attr : [ldap.at EXCEPT ![a] = c][b] \in Contents[b]
      BY <1>0 DEF Entry
    <3> QED BY <1>0, <3>1, <3>2 DEF Entry
  <2> QED BY <2>2, <2>4, PutJ
<1>3. CASE Configure
  BY <1>3, ConfigJ DEF Configure
<1>4. CASE Restart
  <2>1. outdated' = TRUE
    BY <1>4 DEF Restart, LoadConfig
  <2> QED BY <1>4, <2>1, ConfigJ DEF Restart
<1>5. CASE Start
  BY <1>5, StartJ
<1>6. CASE busy /\ Handler
  BY <1>6, HandlerJ
<1>7. CASE Fails
  <2>1. failed' = TRUE
    BY <1>7 DEF Fails
  <2> QED BY <2>1 DEF On, Has
<1>8. CASE Crash
  BY <1>8, CrashJ
<1>9. CASE UNCHANGED vars
  BY <1>9, ConfigJ DEF vars, entries
<1> QED BY <1>1, <1>2, <1>3, <1>4, <1>5, <1>6, <1>7, <1>8, <1>9 DEF Next, Admin, Listener

LEMMA InvarianceJ == Spec => []JInv
<1> QED BY InitJ, NextJ, PTL DEF Spec

\* An attribute the registry wants something of is among those that are read.
LEMMA WantedRead ==
  ASSUME NEW c \in Config, NEW a \in Mapped, Wanted(c, a) # {}
  PROVE  a \in AllSyncKeys(Load(c)) \ System
<1> DEFINE S == AllSyncKeys(c) \ (Mapped \cup System)
           d == Without(c, S)
           s == Sanitize(c)
<1>1. c \in AttrSets
  BY ConfigAssumption DEF AttrSets
<1>2. /\ a \notin c.never \cup Dangerous \cup System
      /\ a \in c.anonymize \cup c.static \cup c.sync
  BY DEF Wanted
<1>3. /\ d \in AttrSets
      /\ d.never = c.never /\ d.anonymize = c.anonymize \ S
      /\ d.static = c.static \ S /\ d.sync = c.sync \ S
  BY <1>1 DEF AttrSets, Without
<1>4. s = d \/ s = Without(d, Dangerous)
  BY DEF Sanitize
<1>5. a \notin S
  OBVIOUS
<1> HIDE DEF S, d
<1>6. a \in d.anonymize \cup d.static \cup d.sync /\ a \notin d.never
  BY <1>2, <1>3, <1>5
<1> HIDE DEF s
<1>7. s \in AttrSets /\ a \in s.anonymize \cup s.static \cup s.sync /\ a \notin s.never
  <2>1. CASE s = d
    BY <1>3, <1>6, <2>1
  <2>2. CASE s = Without(d, Dangerous)
    <3>1. /\ s \in AttrSets
          /\ s.never = d.never /\ s.anonymize = d.anonymize \ Dangerous
          /\ s.static = d.static \ Dangerous /\ s.sync = d.sync \ Dangerous
      BY <1>3, <2>2 DEF AttrSets, Without
    <3> QED BY <1>2, <1>6, <3>1
  <2> QED BY <1>4, <2>1, <2>2
<1>8. Load(c) = Disjoint(s)
  BY DEF Load, s
<1>9. /\ Load(c).never = s.never
      /\ Load(c).anonymize = s.anonymize \ s.never
      /\ Load(c).static = (s.static \ s.never) \ (s.anonymize \ s.never)
      /\ Load(c).sync = ((s.sync \ s.never) \ (s.anonymize \ s.never))
                          \ ((s.static \ s.never) \ (s.anonymize \ s.never))
  BY <1>7, <1>8 DEF Disjoint, AttrSets
<1> QED BY <1>2, <1>7, <1>9 DEF AllSyncKeys

\* All that is due of an attribute is what parse makes of it.
DueOf(e, a) ==
  Wanted(loaded, a) \cap (Range(Tag(a, e.at[a])) \cup {<<a, "uuid">>, <<a, "static">>})

LEMMA DueConverted ==
  ASSUME IInv, NEW e \in Entry, NEW a \in Present(e) \cap Mapped
  PROVE  DueOf(e, a) = Range(Converted(e, a)) /\ Converted(e, a)[1] \in Range(Converted(e, a))
<1>1. loaded \in Config /\ attrs = Load(loaded)
  BY DEF IInv, TypeOK, Loaded
<1>2. a \in Attr
  BY AttrAssumption DEF Mapped, Range
<1>3. e.at[a] \in Contents[a] /\ e.at[a] # <<>> /\ e.at[a] \in Seq(Value)
  BY <1>2, ContentsType DEF Entry, Present
<1>4. a \in (AllSyncKeys(Load(loaded)) \ System) \cap Mapped
  BY <1>1 DEF Present
<1>5. /\ a \in attrs.anonymize => Wanted(loaded, a) = {<<a, "uuid">>}
      /\ a \in attrs.static => Wanted(loaded, a) = {<<a, "static">>}
      /\ a \notin attrs.anonymize \cup attrs.static => Wanted(loaded, a) = Plain(a)
  BY <1>1, <1>4, LoadWanted
<1>6. CASE a \in attrs.anonymize
  <2>1. Converted(e, a) = <<<<a, "uuid">>>>
    BY <1>6 DEF Converted
  <2>2. Range(Converted(e, a)) = {<<a, "uuid">>}
    BY <2>1 DEF Range
  <2> QED BY <1>5, <1>6, <2>1, <2>2 DEF DueOf
<1>7. CASE a \notin attrs.anonymize /\ a \in attrs.static
  <2>1. Converted(e, a) = <<<<a, "static">>>>
    BY <1>7 DEF Converted
  <2>2. Range(Converted(e, a)) = {<<a, "static">>}
    BY <2>1 DEF Range
  <2> QED BY <1>5, <1>7, <2>1, <2>2 DEF DueOf
<1>8. CASE a \notin attrs.anonymize /\ a \notin attrs.static
  <2>1. Converted(e, a) = Tag(a, e.at[a])
    BY <1>8 DEF Converted
  <2>2. Range(Tag(a, e.at[a])) \subseteq Plain(a)
    BY <1>2, <1>3, TagPlain
  <2>3. \A v : <<a, v>> \in Plain(a) => v \in Value
    <3> SUFFICES ASSUME NEW v, <<a, v>> \in Plain(a) PROVE v \in Value
      OBVIOUS
    <3>1. v \in UNION {Range(c) : c \in Contents[a]}
      BY DEF Plain
    <3>2. PICK c \in Contents[a] : v \in Range(c)
      BY <3>1
    <3>3. c \in Seq(Value)
      BY <1>2, ContentsType
    <3> QED BY <3>2, <3>3 DEF Range
  <2>4. <<a, "uuid">> \notin Plain(a) /\ <<a, "static">> \notin Plain(a)
    BY <2>3, AttrAssumption
  <2>5. Wanted(loaded, a) = Plain(a)
    BY <1>5, <1>8
  <2>6. DueOf(e, a) = Range(Tag(a, e.at[a]))
    BY <2>2, <2>4, <2>5 DEF DueOf
  <2>7. 1 \in DOMAIN e.at[a]
    BY <1>3
  <2>8. Tag(a, e.at[a])[1] \in Range(Tag(a, e.at[a]))
    BY <2>7 DEF Range, Tag
  <2> QED BY <2>1, <2>6, <2>8
<1> QED BY <1>6, <1>7, <1>8

LEMMA DueIsData ==
  ASSUME IInv, NEW f \in Field \ {"userPrincipalName", "usageLocation"}, Due(f) # {}
  PROVE  /\ Parse(ldap)[f] # {}
         /\ IF f \in Many \ FirstOnly THEN Parse(ldap)[f] = Due(f)
            ELSE Parse(ldap)[f] \subseteq Due(f) /\ Cardinality(Parse(ldap)[f]) = 1
<1>0. ldap \in Entry /\ loaded \in Config /\ attrs = Load(loaded)
  BY DEF IInv, TypeOK, Loaded
<1> DEFINE S == Sources(ldap, f)
           R == {b \in Mapped : MapTo[b] = f /\ ldap.at[b] # <<>>}
<1>1. Due(f) = UNION {DueOf(ldap, a) : a \in R}
  BY DEF Due, DueOf
<1>2. S \subseteq R
  BY DEF Sources, Present
<1>3. ASSUME NEW a \in R, DueOf(ldap, a) # {} PROVE a \in S
  <2>1. Wanted(loaded, a) # {}
    BY <1>3 DEF DueOf
  <2>2. a \in AllSyncKeys(attrs) \ System
    BY <1>0, <2>1, WantedRead
  <2> QED BY <2>2 DEF Sources, Present
<1>4. ASSUME NEW a \in S
      PROVE  /\ DueOf(ldap, a) = Range(Converted(ldap, a))
             /\ Converted(ldap, a)[1] \in DueOf(ldap, a)
  <2>1. a \in Present(ldap) \cap Mapped
    BY DEF Sources
  <2> QED BY <1>0, <2>1, DueConverted
<1>5. Due(f) = UNION {DueOf(ldap, a) : a \in S}
  <2> HIDE DEF S, R
  <2> QED BY <1>1, <1>2, <1>3
<1>6. S # {} /\ S \subseteq Mapped
  <2>1. S # {}
    BY <1>5
  <2> QED BY <2>1 DEF Sources
<1>7. CASE f \in Many \ FirstOnly
  <2>1. Data(ldap, f) = UNION {Range(Converted(ldap, a)) : a \in S}
    BY <1>6, <1>7 DEF Data
  <2> HIDE DEF S
  <2>2. Data(ldap, f) = Due(f)
    BY <1>4, <1>5, <2>1
  <2>3. f # "displayName"
    BY <1>7, FieldAssumption DEF Mandatory
  <2>4. Parse(ldap)[f] = Data(ldap, f)
    BY <2>3 DEF Parse
  <2> QED BY <1>7, <2>2, <2>4
<1>8. CASE f \notin Many \ FirstOnly
  <2>1. Data(ldap, f) = {Converted(ldap, Leading(S))[1]}
    BY <1>6, <1>8 DEF Data
  <2> HIDE DEF S
  <2>2. Leading(S) \in S
    BY <1>6, LeadingType
  <2>3. PICK x : x = Converted(ldap, Leading(S))[1] /\ x \in Due(f)
    BY <1>4, <1>5, <2>2
  <2>4. Data(ldap, f) = {x}
    BY <2>1, <2>3
  <2>5. Parse(ldap)[f] = {x}
    BY <2>4 DEF Parse, Default
  <2>6. Cardinality({x}) = 1
    BY FS_Singleton
  <2> QED BY <1>8, <2>3, <2>5, <2>6
<1> QED BY <1>7, <1>8

\* When all is handled, the account has what the registry wants of the entry:
\* though the listener only ever sends differences (connector.py:567) it does not
\* lose any, also when it was killed in between.
THEOREM StaysInSync == Spec => []InSync
<1>1. JInv => InSync
  <2> SUFFICES ASSUME JInv, seen = ldap, ~busy, ldap.on, ~failed, ~raced, ~outdated
               PROVE  /\ account.enabled
                      /\ account.has["userPrincipalName"] \subseteq
                           Range(Tag("mailPrimaryAddress", ldap.at["mailPrimaryAddress"]))
                      /\ \A f \in Field \ (CreateOnly \cup {"userPrincipalName", "usageLocation"}) :
                           Due(f) # {} =>
                             IF f \in Many \ FirstOnly THEN account.has[f] = Due(f)
                             ELSE account.has[f] \subseteq Due(f) /\ Cardinality(account.has[f]) = 1
    BY DEF InSync, Quiet
  <2>0. IInv /\ ldap \in Entry /\ crashes \in Nat
    BY BoundsAssumption DEF JInv, IInv, TypeOK
  <2>1. account.enabled
    <3>1. RestOn(ldap, seen, account, crashes)
      BY DEF JInv, On
    <3> QED BY <2>0, <3>1 DEF RestOn
  <2>2. Holds(P, account.has, ldap, ldap)
    <3>1. RestHas(P, ldap, seen, account, crashes)
      BY DEF JInv, Has
    <3> QED BY <2>0, <3>1 DEF RestHas
  <2>3. \A f \in Field \ CreateOnly :
          Parse(ldap)[f] # {} => account.has[f] = Parse(ldap)[f]
    <3>1. P[ldap] = Parse(ldap)
      BY <2>0, PType
    <3> QED BY <2>2, <3>1 DEF Holds
  <2>4. account.has["userPrincipalName"] \subseteq
          Range(Tag("mailPrimaryAddress", ldap.at["mailPrimaryAddress"]))
    <3> DEFINE q == Tag("mailPrimaryAddress", ldap.at["mailPrimaryAddress"])
    <3>1. "userPrincipalName" \in Field \ CreateOnly
      BY FieldAssumption DEF Mandatory
    <3>2. Parse(ldap)["userPrincipalName"] = {q[1]}
      BY <3>1 DEF Parse
    <3>3. /\ ldap.at["mailPrimaryAddress"] \in Seq(Value)
          /\ ldap.at["mailPrimaryAddress"] # <<>>
      BY <2>0, AttrAssumption DEF Entry
    <3>4. 1 \in DOMAIN ldap.at["mailPrimaryAddress"]
      BY <3>3
    <3>5. q[1] \in Range(q)
      BY <3>4 DEF Range, Tag
    <3> HIDE DEF q
    <3>6. account.has["userPrincipalName"] = {q[1]}
      BY <2>3, <3>1, <3>2
    <3>7. account.has["userPrincipalName"] \subseteq Range(q)
      BY <3>5, <3>6
    <3> QED BY <3>7 DEF q
  <2>5. ASSUME NEW f \in Field \ (CreateOnly \cup {"userPrincipalName", "usageLocation"}),
               Due(f) # {}
        PROVE  IF f \in Many \ FirstOnly THEN account.has[f] = Due(f)
               ELSE account.has[f] \subseteq Due(f) /\ Cardinality(account.has[f]) = 1
    <3>1. account.has[f] = Parse(ldap)[f]
      BY <2>0, <2>3, <2>5, DueIsData
    <3> QED BY <2>0, <2>5, <3>1, DueIsData
  <2> QED BY <2>1, <2>4, <2>5
<1> QED BY <1>1, InvarianceJ, PTL

=============================================================================
