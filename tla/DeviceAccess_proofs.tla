------------------------- MODULE DeviceAccess_proofs -------------------------
(***************************************************************************)
(* Proofs about the devices of DeviceAccess, for any numbers of contexts,  *)
(* configurations and descriptors: an I2C context that has a descriptor    *)
(* has the one of the slave it was configured for, and none leaks; for any *)
(* plugins and loads of them: what the table names is mapped until it is   *)
(* unloaded; and for any handles: a GPIO handle leaks no line, has all     *)
(* lines of its configuration or none, and reads back what it wrote; and   *)
(* for arrays of any length in the platform file: a test has the lines of  *)
(* its binding.                                                            *)
(***************************************************************************)
EXTENDS DeviceAccess, FiniteSetTheorems, SequenceTheorems, WellFoundedInduction, TLAPS

\* The descriptors of a context: the one it uses, and the one that a control
\* call is opening.
Held(x) == {fd[x], newFd[x]} \ {Unset}

\* Where a context is says which of its fields are set.
FieldsFollowPlace ==
    \A x \in I2cContext :
        /\ place[x] \in {"bus", "address"} <=> wanted[x] # Unset
        /\ place[x] = "address" <=> newFd[x] # Unset
        /\ fd[x] # Unset => place[x] = "open" /\ settings[x] # Unset

\* A descriptor under way is open on the wanted bus; one in use is open on the
\* slave of the settings.
DescriptorsAreOpen ==
    \A x \in I2cContext :
        /\ newFd[x] # Unset =>
              kernel[newFd[x]] = [bus |-> wanted[x].bus, address |-> Unset]
        /\ fd[x] # Unset => kernel[fd[x]] = settings[x]

\* No descriptor is open that nobody has, and no two contexts have the same.
DescriptorsAreOwned ==
    /\ \A d \in FileDescriptor : kernel[d] # Unset => \E x \in I2cContext : d \in Held(x)
    /\ \A x, y \in I2cContext : x # y => Held(x) \intersect Held(y) = {}

I2cInv == I2cTypeOK /\ FieldsFollowPlace /\ DescriptorsAreOpen /\ DescriptorsAreOwned

\* A configuration is what a descriptor can be open on, and so never Unset.
LEMMA ConfigurationsAreOpenings ==
    /\ I2cConfiguration \subseteq Opening
    /\ Unset \notin I2cConfiguration
    /\ \A c \in I2cConfiguration : [bus |-> c.bus, address |-> Unset] \in Opening
BY I2cAssumption DEF Opening, Bus, Address

\* The invariant is stronger than the property.
LEMMA I2cInvTransfers == I2cInv => TransfersReachTheSlave
<1> SUFFICES ASSUME I2cInv
             PROVE  TransfersReachTheSlave
    OBVIOUS
<1>1. ASSUME NEW d \in FileDescriptor, kernel[d] # Unset
      PROVE  \E x \in I2cContext :
                 /\ d \in {fd[x], newFd[x]}
                 /\ fd[x] # newFd[x]
                 /\ \A y \in I2cContext \ {x} : d \notin {fd[y], newFd[y]}
  <2>1. PICK x \in I2cContext : d \in Held(x)
      BY <1>1 DEF I2cInv, DescriptorsAreOwned
  <2>2. d # Unset
      BY I2cAssumption
  <2>3. fd[x] # newFd[x]
      BY <2>1 DEF I2cInv, FieldsFollowPlace, Held
  <2>4. \A y \in I2cContext \ {x} : d \notin {fd[y], newFd[y]}
      BY <2>1, <2>2 DEF I2cInv, DescriptorsAreOwned, Held
  <2> QED BY <2>1, <2>3, <2>4 DEF Held
<1> QED BY <1>1 DEF TransfersReachTheSlave, I2cInv, DescriptorsAreOpen

\* At the start nothing is open.
LEMMA I2cInitInv == I2cInit => I2cInv
BY DEF I2cInit, I2cInv, I2cTypeOK, FieldsFollowPlace, DescriptorsAreOpen,
       DescriptorsAreOwned, Held

\* Opening a context opens no bus.
LEMMA I2cOpenInv ==
    ASSUME I2cInv, NEW x \in I2cContext, I2cOpen(x)
    PROVE  I2cInv'
<1> USE DEF I2cInv, I2cOpen, Goto
<1>1. I2cTypeOK'
    BY DEF I2cTypeOK
<1>2. FieldsFollowPlace'
    BY DEF I2cTypeOK, FieldsFollowPlace
<1>3. DescriptorsAreOpen' /\ DescriptorsAreOwned'
    BY DEF DescriptorsAreOpen, DescriptorsAreOwned, Held
<1> QED BY <1>1, <1>2, <1>3

\* A context that lets its descriptor go closes it, and no other.
LEMMA ReleaseInv ==
    ASSUME I2cInv, NEW x \in I2cContext, place[x] = "open",
           CloseFd(fd[x]), fd' = [fd EXCEPT ![x] = Unset], newFd' = newFd,
           \A y \in I2cContext \ {x} : wanted'[y] = wanted[y] /\ settings'[y] = settings[y]
    PROVE  DescriptorsAreOpen' /\ DescriptorsAreOwned'
<1> USE DEF I2cInv
<1>1. \A y \in I2cContext : fd'[y] = IF y = x THEN Unset ELSE fd[y]
    BY DEF I2cTypeOK
<1>2. \A d \in FileDescriptor : kernel'[d] = IF d = fd[x] THEN Unset ELSE kernel[d]
    BY DEF CloseFd
<1>3. newFd[x] = Unset
    BY DEF FieldsFollowPlace
<1>4. \A y \in I2cContext \ {x} :
          /\ fd[y] # Unset => fd[y] \in FileDescriptor /\ fd[y] # fd[x]
          /\ newFd[y] # Unset => newFd[y] \in FileDescriptor /\ newFd[y] # fd[x]
    BY DEF I2cTypeOK, DescriptorsAreOwned, Held
<1>5. DescriptorsAreOpen'
    BY <1>1, <1>2, <1>3, <1>4 DEF DescriptorsAreOpen
<1>6. DescriptorsAreOwned'
  <2>1. ASSUME NEW d \in FileDescriptor, kernel'[d] # Unset
        PROVE  \E y \in I2cContext : d \in Held(y)'
    <3>1. d # fd[x] /\ kernel[d] # Unset
        BY <2>1, <1>2
    <3>2. PICK y \in I2cContext : d \in Held(y)
        BY <3>1 DEF DescriptorsAreOwned
    <3>3. y # x
        BY <3>1, <3>2, <1>3 DEF Held
    <3> QED BY <3>2, <3>3, <1>1 DEF Held
  <2>2. \A y \in I2cContext : Held(y)' \subseteq Held(y)
      BY <1>1 DEF Held
  <2> QED BY <2>1, <2>2 DEF DescriptorsAreOwned
<1> QED BY <1>5, <1>6

\* Closing a context gives its descriptor back.
LEMMA I2cCloseInv ==
    ASSUME I2cInv, NEW x \in I2cContext, I2cClose(x)
    PROVE  I2cInv'
<1>1. I2cTypeOK'
    BY DEF I2cInv, I2cTypeOK, I2cClose, Goto, CloseFd
<1>2. FieldsFollowPlace'
    BY DEF I2cInv, I2cTypeOK, FieldsFollowPlace, I2cClose, Goto
<1>3. DescriptorsAreOpen' /\ DescriptorsAreOwned'
    BY ReleaseInv DEF I2cInv, I2cTypeOK, I2cClose, Goto
<1> QED BY <1>1, <1>2, <1>3 DEF I2cInv

\* A new configuration first gives back the descriptor of the old one.
LEMMA SetConfigurationInv ==
    ASSUME I2cInv, NEW x \in I2cContext, NEW c \in I2cConfiguration,
           SetConfiguration(x, c)
    PROVE  I2cInv'
<1>1. I2cTypeOK'
    BY DEF I2cInv, I2cTypeOK, SetConfiguration, Goto, CloseFd
<1>2. FieldsFollowPlace'
    BY ConfigurationsAreOpenings
       DEF I2cInv, I2cTypeOK, FieldsFollowPlace, SetConfiguration, Goto
<1>3. DescriptorsAreOpen' /\ DescriptorsAreOwned'
    BY ReleaseInv DEF I2cInv, I2cTypeOK, SetConfiguration, Goto
<1> QED BY <1>1, <1>2, <1>3 DEF I2cInv

\* A bus is opened on a descriptor that nobody has; one that cannot be opened
\* changes no descriptor.
LEMMA OpenBusInv ==
    ASSUME I2cInv, NEW x \in I2cContext, OpenBus(x)
    PROVE  I2cInv'
<1> USE DEF I2cInv, Goto
<1>0. place[x] = "bus" /\ wanted[x] \in I2cConfiguration /\ newFd[x] = Unset /\ fd[x] = Unset
    BY DEF OpenBus, I2cTypeOK, FieldsFollowPlace
<1>1. ASSUME NEW d \in FileDescriptor, kernel[d] = Unset,
             place' = [place EXCEPT ![x] = "address"],
             kernel' = [kernel EXCEPT ![d] = [bus |-> wanted[x].bus, address |-> Unset]],
             newFd' = [newFd EXCEPT ![x] = d],
             UNCHANGED <<wanted, fd, settings>>
      PROVE  I2cInv'
  <2>1. I2cTypeOK'
      BY <1>0, <1>1, ConfigurationsAreOpenings DEF I2cTypeOK
  <2>2. FieldsFollowPlace'
      BY <1>0, <1>1, I2cAssumption DEF I2cTypeOK, FieldsFollowPlace
  <2>3. \A y \in I2cContext : d \notin Held(y)
    <3>1. ASSUME NEW y \in I2cContext, newFd[y] # Unset
          PROVE  kernel[newFd[y]] # Unset
      <4>1. wanted[y] \in I2cConfiguration
          BY <3>1 DEF FieldsFollowPlace, I2cTypeOK
      <4> QED BY <3>1, <4>1, ConfigurationsAreOpenings, I2cAssumption DEF DescriptorsAreOpen
    <3>2. ASSUME NEW y \in I2cContext, fd[y] # Unset
          PROVE  kernel[fd[y]] # Unset
        BY <3>2 DEF DescriptorsAreOpen, FieldsFollowPlace
    <3> QED BY <1>1, <3>1, <3>2 DEF Held
  <2>4. \A y \in I2cContext : Held(y)' = IF y = x THEN {d} ELSE Held(y)
      BY <1>0, <1>1, I2cAssumption DEF Held, I2cTypeOK
  <2>5. \A e \in FileDescriptor : kernel'[e] =
            IF e = d THEN [bus |-> wanted[x].bus, address |-> Unset] ELSE kernel[e]
      BY <1>1 DEF I2cTypeOK
  <2>6. DescriptorsAreOpen'
      BY <1>0, <1>1, <2>3, <2>5 DEF DescriptorsAreOpen, Held, I2cTypeOK
  <2>7. DescriptorsAreOwned'
    <3>1. ASSUME NEW e \in FileDescriptor, kernel'[e] # Unset
          PROVE  \E y \in I2cContext : e \in Held(y)'
      <4>1. CASE e = d
          BY <4>1, <2>4
      <4>2. CASE e # d
        <5>1. PICK y \in I2cContext : e \in Held(y)
            BY <3>1, <4>2, <2>5 DEF DescriptorsAreOwned
        <5>2. y # x
            BY <5>1, <1>0 DEF Held
        <5> QED BY <5>1, <5>2, <2>4
      <4> QED BY <4>1, <4>2
    <3> QED BY <3>1, <2>3, <2>4 DEF DescriptorsAreOwned
  <2> QED BY <2>1, <2>2, <2>6, <2>7
<1>2. ASSUME place' = [place EXCEPT ![x] = "open"],
             wanted' = [wanted EXCEPT ![x] = Unset],
             UNCHANGED <<newFd, fd, settings, kernel>>
      PROVE  I2cInv'
  <2>1. I2cTypeOK'
      BY <1>2 DEF I2cTypeOK
  <2>2. FieldsFollowPlace'
      BY <1>0, <1>2 DEF I2cTypeOK, FieldsFollowPlace
  <2>3. DescriptorsAreOpen' /\ DescriptorsAreOwned'
      BY <1>0, <1>2 DEF I2cTypeOK, DescriptorsAreOpen, DescriptorsAreOwned, Held
  <2> QED BY <2>1, <2>2, <2>3
<1> QED BY <1>1, <1>2 DEF OpenBus

\* With the address selected the descriptor is the context's; otherwise it is
\* closed.
LEMMA SelectAddressInv ==
    ASSUME I2cInv, NEW x \in I2cContext, SelectAddress(x)
    PROVE  I2cInv'
<1> DEFINE d == newFd[x]
<1> USE DEF I2cInv, Goto
<1>0. /\ place[x] = "address" /\ wanted[x] \in I2cConfiguration
      /\ d \in FileDescriptor /\ d # Unset /\ fd[x] = Unset
      /\ kernel[d] = [bus |-> wanted[x].bus, address |-> Unset]
      /\ place' = [place EXCEPT ![x] = "open"]
      /\ wanted' = [wanted EXCEPT ![x] = Unset]
      /\ newFd' = [newFd EXCEPT ![x] = Unset]
    BY DEF SelectAddress, I2cTypeOK, FieldsFollowPlace, DescriptorsAreOpen
<1>1. \A y \in I2cContext \ {x} : d \notin Held(y)
    BY <1>0 DEF DescriptorsAreOwned, Held
<1>2. CASE /\ kernel' = [kernel EXCEPT ![d].address = wanted[x].address]
           /\ fd' = [fd EXCEPT ![x] = d]
           /\ settings' = [settings EXCEPT ![x] = wanted[x]]
  <2>1. \A e \in FileDescriptor : kernel'[e] = IF e = d THEN wanted[x] ELSE kernel[e]
    <3>1. [kernel[d] EXCEPT !.address = wanted[x].address]
              = [bus |-> wanted[x].bus, address |-> wanted[x].address]
        BY <1>0
    <3>2. wanted[x] = [bus |-> wanted[x].bus, address |-> wanted[x].address]
        BY <1>0, I2cAssumption
    <3> QED BY <1>2, <3>1, <3>2 DEF I2cTypeOK
  <2>2. I2cTypeOK'
    <3>1. kernel' \in [FileDescriptor -> Opening \union {Unset}]
        BY <1>0, <1>2, <2>1, ConfigurationsAreOpenings DEF I2cTypeOK
    <3> QED BY <1>0, <1>2, <3>1 DEF I2cTypeOK
  <2>3. FieldsFollowPlace'
      BY <1>0, <1>2, ConfigurationsAreOpenings DEF I2cTypeOK, FieldsFollowPlace
  <2>4. \A y \in I2cContext : Held(y)' = IF y = x THEN {d} ELSE Held(y)
      BY <1>0, <1>2 DEF Held, I2cTypeOK
  <2>5. DescriptorsAreOpen'
      BY <1>0, <1>1, <1>2, <2>1 DEF DescriptorsAreOpen, Held, I2cTypeOK
  <2>6. DescriptorsAreOwned'
    <3>1. Held(x) = {d}
        BY <1>0 DEF Held
    <3>2. \A y \in I2cContext : Held(y)' = Held(y)
        BY <2>4, <3>1
    <3>3. \A e \in FileDescriptor : kernel'[e] # Unset => kernel[e] # Unset
        BY <1>0, <2>1, ConfigurationsAreOpenings, I2cAssumption
    <3> QED BY <3>2, <3>3 DEF DescriptorsAreOwned
  <2> QED BY <2>2, <2>3, <2>5, <2>6
<1>3. CASE CloseFd(d) /\ UNCHANGED <<fd, settings>>
  <2>1. \A e \in FileDescriptor : kernel'[e] = IF e = d THEN Unset ELSE kernel[e]
      BY <1>3 DEF CloseFd
  <2>2. I2cTypeOK'
      BY <1>0, <1>3 DEF I2cTypeOK, CloseFd
  <2>3. FieldsFollowPlace'
      BY <1>0, <1>3 DEF I2cTypeOK, FieldsFollowPlace
  <2>4. \A y \in I2cContext : Held(y)' = IF y = x THEN {} ELSE Held(y)
      BY <1>0, <1>3 DEF Held, I2cTypeOK
  <2>5. DescriptorsAreOpen'
      BY <1>0, <1>1, <1>3, <2>1 DEF DescriptorsAreOpen, Held, I2cTypeOK
  <2>6. DescriptorsAreOwned'
    <3>1. ASSUME NEW e \in FileDescriptor, kernel'[e] # Unset
          PROVE  \E y \in I2cContext : e \in Held(y)'
      <4>1. e # d /\ kernel[e] # Unset
          BY <3>1, <2>1
      <4>2. PICK y \in I2cContext : e \in Held(y)
          BY <4>1 DEF DescriptorsAreOwned
      <4>3. y # x
          BY <4>1, <4>2, <1>0 DEF Held
      <4> QED BY <4>2, <4>3, <2>4
    <3> QED BY <3>1, <2>4 DEF DescriptorsAreOwned
  <2> QED BY <2>2, <2>3, <2>5, <2>6
<1> QED BY <1>2, <1>3 DEF SelectAddress

\* What is not an I2C step leaves the contexts and descriptors alone.
LEMMA I2cInductive ==
    ASSUME I2cInv, [Next]_vars
    PROVE  I2cInv'
<1>1. CASE I2cStep
    BY <1>1, I2cOpenInv, I2cCloseInv, OpenBusInv, SelectAddressInv, SetConfigurationInv
       DEF I2cStep
<1>2. CASE UNCHANGED i2cVars
    BY <1>2 DEF i2cVars, I2cInv, I2cTypeOK, FieldsFollowPlace, DescriptorsAreOpen,
                DescriptorsAreOwned, Held
<1> QED BY <1>1, <1>2 DEF Next, vars

\* Whatever configurations an I2C context is given and wherever one fails, what
\* it transfers goes to the slave it was last configured for, and every open
\* descriptor belongs to one context.
THEOREM I2cReachesTheSlave == Spec => []TransfersReachTheSlave
<1>1. Init => I2cInv
    BY I2cInitInv DEF Init
<1>2. I2cInv /\ [Next]_vars => I2cInv'
    BY I2cInductive
<1>3. I2cInv => TransfersReachTheSlave
    BY I2cInvTransfers
<1> QED BY <1>1, <1>2, <1>3, PTL DEF Spec

----------------------------------------------------------------------------

\* Where a caller of a plugin object has its library open.
InUse == {"opened", "loaded", "registered", "refused"}

\* The plugin objects whose callers have the library n open.
Users(n) == {p \in Plugin : NameOf[p] = n /\ loading[p] \in InUse}

PluginInv ==
    /\ PluginTypeOK
    /\ IsInjective([k \in DOMAIN plugins |-> NameOf[plugins[k]]])
    /\ \A k \in DOMAIN plugins : loading[plugins[k]] \in {"registered", "unloaded"}
    /\ \A n \in Library : mapped[n] = Cardinality(Users(n))

\* A set of numbers that has an element has a smallest one.
LEMMA MinIsThere ==
    ASSUME NEW S \in SUBSET Nat, S # {}
    PROVE  Min(S) \in S
<1>1. PICK x \in S : \A y \in S : <<y, x>> \notin OpToRel(<, Nat)
    BY NatLessThanWellFounded, WFMin, Zenon
<1>2. ASSUME NEW y \in S, ~(x <= y)
      PROVE  FALSE
  <2>1. <<y, x>> \in Nat \X Nat /\ y < x
      BY <1>2
  <2>2. <<y, x>> \in OpToRel(<, Nat)
      BY <2>1 DEF OpToRel
  <2> QED BY <2>2, <1>1
<1> QED BY <1>2 DEF Min

\* plugin_manager_find misses no entry: a name it does not find is not there.
LEMMA FindFinds ==
    ASSUME plugins \in Seq(Plugin), NEW p \in Plugin, Find(NameOf[p]) = NoPlugin
    PROVE  \A k \in DOMAIN plugins : NameOf[plugins[k]] # NameOf[p]
<1> DEFINE I == {k \in 1 .. Len(plugins) : NameOf[plugins[k]] = NameOf[p]}
<1>1. ASSUME I # {}
      PROVE  FALSE
  <2>1. Min(I) \in I
    <3>1. I \in SUBSET Nat
        OBVIOUS
    <3> HIDE DEF I
    <3> QED BY <1>1, <3>1, MinIsThere
  <2>2. Find(NameOf[p]) = plugins[Min(I)]
      BY <1>1, <2>1 DEF Find, SelectInSeq
  <2> QED BY <2>1, <2>2, PluginAssumption
<1> QED BY <1>1

\* The users of a library can be counted.
LEMMA UsersFinite == \A n : IsFiniteSet(Users(n))
BY PluginAssumption, FS_Subset DEF Users

\* The invariant is stronger than the property: an entry of the table is a user
\* of its library, until it is unloaded.
LEMMA PluginInvLoaded == PluginInv => LoadedOnce
<1> SUFFICES ASSUME PluginInv
             PROVE  LoadedOnce
    OBVIOUS
<1>1. ASSUME NEW p \in ToSet(plugins), loading[p] # "unloaded"
      PROVE  mapped[NameOf[p]] > 0
  <2>1. p \in Plugin /\ NameOf[p] \in Library /\ p \in Users(NameOf[p])
      BY <1>1 DEF PluginInv, PluginTypeOK, ToSet, Users, Library, InUse
  <2>2. Cardinality(Users(NameOf[p])) # 0
      BY <2>1, UsersFinite, FS_EmptySet
  <2> QED BY <2>1, <2>2 DEF PluginInv, PluginTypeOK
<1> QED BY <1>1 DEF LoadedOnce, PluginInv, Users, InUse

\* At the start nothing is mapped.
LEMMA PluginInitInv == PluginInit => PluginInv
<1> SUFFICES ASSUME PluginInit
             PROVE  PluginInv
    OBVIOUS
<1>1. PluginTypeOK
    BY PluginAssumption DEF PluginInit, PluginTypeOK
<1>2. \A n : Users(n) = {}
    BY DEF PluginInit, Users, InUse
<1>3. DOMAIN plugins = {}
    BY DEF PluginInit
<1>4. IsInjective([k \in DOMAIN plugins |-> NameOf[plugins[k]]])
    BY <1>3 DEF IsInjective
<1>5. \A n \in Library : mapped[n] = Cardinality(Users(n))
    BY <1>2, FS_EmptySet DEF PluginInit
<1> QED BY <1>1, <1>3, <1>4, <1>5 DEF PluginInv

\* A step of one plugin object that opens its library, closes it, or neither,
\* keeps the count of the users right.
LEMMA UsersCounted ==
    ASSUME PluginInv, NEW p \in Plugin, NEW to,
           loading' = [loading EXCEPT ![p] = to],
           \/ loading[p] \in InUse /\ to \in InUse /\ mapped' = mapped
           \/ loading[p] \notin InUse /\ to \notin InUse /\ mapped' = mapped
           \/ /\ loading[p] \notin InUse /\ to \in InUse
              /\ mapped' = [mapped EXCEPT ![NameOf[p]] = @ + 1]
           \/ /\ loading[p] \in InUse /\ to \notin InUse
              /\ mapped' = [mapped EXCEPT ![NameOf[p]] = @ - 1]
    PROVE  /\ mapped' \in [Library -> Nat]
           /\ \A n \in Library : mapped'[n] = Cardinality(Users(n)')
<1>1. \A q \in Plugin : loading'[q] = IF q = p THEN to ELSE loading[q]
    BY DEF PluginInv, PluginTypeOK
<1>2. \A n \in Library \ {NameOf[p]} : Users(n)' = Users(n)
    BY <1>1 DEF Users
<1>3. NameOf[p] \in Library
    BY DEF Library
<1>4. /\ IsFiniteSet(Users(NameOf[p])) /\ Cardinality(Users(NameOf[p])) \in Nat
      /\ mapped[NameOf[p]] = Cardinality(Users(NameOf[p]))
    BY <1>3, UsersFinite, FS_CardinalityType DEF PluginInv
<1>5. /\ mapped'[NameOf[p]] \in Nat
      /\ mapped'[NameOf[p]] = Cardinality(Users(NameOf[p])')
  <2>1. CASE /\ mapped' = mapped
             /\ loading[p] \in InUse <=> to \in InUse
    <3>1. Users(NameOf[p])' = Users(NameOf[p])
        BY <2>1, <1>1 DEF Users
    <3> QED BY <3>1, <2>1, <1>4
  <2>2. CASE /\ loading[p] \notin InUse /\ to \in InUse
             /\ mapped' = [mapped EXCEPT ![NameOf[p]] = @ + 1]
    <3>1. Users(NameOf[p])' = Users(NameOf[p]) \union {p} /\ p \notin Users(NameOf[p])
        BY <2>2, <1>1 DEF Users
    <3>2. Cardinality(Users(NameOf[p])') = Cardinality(Users(NameOf[p])) + 1
        BY <3>1, <1>4, FS_AddElement
    <3> QED BY <3>2, <2>2, <1>3, <1>4 DEF PluginInv, PluginTypeOK
  <2>3. CASE /\ loading[p] \in InUse /\ to \notin InUse
             /\ mapped' = [mapped EXCEPT ![NameOf[p]] = @ - 1]
    <3>1. Users(NameOf[p])' = Users(NameOf[p]) \ {p} /\ p \in Users(NameOf[p])
        BY <2>3, <1>1 DEF Users
    <3>2. /\ Cardinality(Users(NameOf[p])') = Cardinality(Users(NameOf[p])) - 1
          /\ Cardinality(Users(NameOf[p])') \in Nat
        BY <3>1, <1>4, FS_RemoveElement, FS_CardinalityType
    <3> QED BY <3>2, <2>3, <1>3, <1>4 DEF PluginInv, PluginTypeOK
  <2> QED BY <2>1, <2>2, <2>3
<1>6. \A n \in Library \ {NameOf[p]} : mapped'[n] = mapped[n]
    BY DEF PluginInv, PluginTypeOK
<1>7. mapped' \in [Library -> Nat]
    BY <1>3, <1>5 DEF PluginInv, PluginTypeOK
<1> QED BY <1>2, <1>5, <1>6, <1>7 DEF PluginInv

\* What a caller does before and after its plugin is in the table does not
\* touch the table.
LEMMA LoadingInv ==
    ASSUME PluginInv, NEW p \in Plugin,
           LoadCheck(p) \/ OpenLibrary(p) \/ ResolveSymbols(p) \/ Unload(p)
    PROVE  PluginInv'
<1>1. PICK to \in {"checked", "failed", "opened", "loaded", "unloaded"} :
          /\ loading[p] = "registered" => to = "unloaded"
          /\ loading[p] # "unloaded"
          /\ loading' = [loading EXCEPT ![p] = to]
          /\ \/ loading[p] \in InUse /\ to \in InUse /\ mapped' = mapped
             \/ loading[p] \notin InUse /\ to \notin InUse /\ mapped' = mapped
             \/ /\ loading[p] \notin InUse /\ to \in InUse
                /\ mapped' = [mapped EXCEPT ![NameOf[p]] = @ + 1]
             \/ /\ loading[p] \in InUse /\ to \notin InUse
                /\ mapped' = [mapped EXCEPT ![NameOf[p]] = @ - 1]
    BY DEF LoadCheck, OpenLibrary, ResolveSymbols, Unload, Proceed, CloseLibrary, InUse
<1>2. plugins' = plugins
    BY DEF LoadCheck, OpenLibrary, ResolveSymbols, Unload
<1>3. /\ mapped' \in [Library -> Nat]
      /\ \A n \in Library : mapped'[n] = Cardinality(Users(n)')
    BY <1>1, UsersCounted
<1>4. PluginTypeOK'
    BY <1>1, <1>2, <1>3 DEF PluginInv, PluginTypeOK
<1>5. \A k \in DOMAIN plugins' : loading'[plugins'[k]] \in {"registered", "unloaded"}
    BY <1>1, <1>2 DEF PluginInv, PluginTypeOK
<1> QED BY <1>2, <1>3, <1>4, <1>5 DEF PluginInv

\* plugin_manager_register looks for the name again, under the lock.
LEMMA RegisterPluginInv ==
    ASSUME PluginInv, NEW p \in Plugin, Register(p)
    PROVE  PluginInv'
<1>1. CASE Len(plugins) < MaxPlugins /\ Find(NameOf[p]) = NoPlugin
  <2>1. /\ loading[p] = "loaded" /\ loading' = [loading EXCEPT ![p] = "registered"]
        /\ plugins' = Append(plugins, p) /\ mapped' = mapped
      BY <1>1 DEF Register, Proceed
  <2>2. /\ mapped' \in [Library -> Nat]
        /\ \A n \in Library : mapped'[n] = Cardinality(Users(n)')
      BY <2>1, UsersCounted DEF InUse
  <2>3. PluginTypeOK'
      BY <1>1, <2>1, <2>2, PluginAssumption DEF PluginInv, PluginTypeOK
  <2>4. /\ DOMAIN plugins' = 1 .. Len(plugins) + 1
        /\ plugins'[Len(plugins) + 1] = p
        /\ \A k \in DOMAIN plugins : k # Len(plugins) + 1 /\ plugins'[k] = plugins[k]
        /\ DOMAIN plugins = 1 .. Len(plugins) /\ Len(plugins) \in Nat
      BY <2>1 DEF PluginInv, PluginTypeOK
  <2>5. \A k \in DOMAIN plugins : NameOf[plugins[k]] # NameOf[p]
      BY <1>1, FindFinds DEF PluginInv, PluginTypeOK
  <2>6. IsInjective([k \in DOMAIN plugins |-> NameOf[plugins[k]]])'
      BY <2>4, <2>5 DEF PluginInv, IsInjective
  <2>7. \A k \in DOMAIN plugins' : loading'[plugins'[k]] \in {"registered", "unloaded"}
      BY <2>1, <2>4 DEF PluginInv, PluginTypeOK
  <2> QED BY <2>2, <2>3, <2>6, <2>7 DEF PluginInv
<1>2. CASE ~(Len(plugins) < MaxPlugins /\ Find(NameOf[p]) = NoPlugin)
  <2>1. /\ loading[p] = "loaded" /\ loading' = [loading EXCEPT ![p] = "refused"]
        /\ plugins' = plugins /\ mapped' = mapped
      BY <1>2 DEF Register, Proceed
  <2>2. \A n \in Library : mapped'[n] = Cardinality(Users(n)')
      BY <2>1, UsersCounted DEF InUse
  <2>3. PluginTypeOK'
      BY <2>1 DEF PluginInv, PluginTypeOK
  <2>4. \A k \in DOMAIN plugins' : loading'[plugins'[k]] \in {"registered", "unloaded"}
      BY <2>1 DEF PluginInv, PluginTypeOK
  <2> QED BY <2>1, <2>2, <2>3, <2>4 DEF PluginInv
<1> QED BY <1>1, <1>2

\* What is not a plugin step leaves the table and the libraries alone.
LEMMA PluginInductive ==
    ASSUME PluginInv, [Next]_vars
    PROVE  PluginInv'
<1>1. CASE \E p \in Plugin : PluginStep(p)
    BY <1>1, LoadingInv, RegisterPluginInv DEF PluginStep
<1>2. CASE UNCHANGED pluginVars
    BY <1>2 DEF pluginVars, PluginInv, PluginTypeOK, Users
<1> QED BY <1>1, <1>2 DEF Next, vars

\* Although plugin_manager_load lets the lock go between its check and the
\* opening of the library: a name is in the table once, its library is mapped
\* until the plugin in the table is unloaded itself, and each caller has closed
\* what it gave up.
THEOREM PluginsAreLoadedOnce == Spec => []LoadedOnce
<1>1. Init => PluginInv
    BY PluginInitInv DEF Init
<1>2. PluginInv /\ [Next]_vars => PluginInv'
    BY PluginInductive
<1>3. PluginInv => LoadedOnce
    BY PluginInvLoaded
<1> QED BY <1>1, <1>2, <1>3, PTL DEF Spec
----------------------------------------------------------------------------
(***************************************************************************)
(* GPIO: what is said of one handle, and what another's step leaves.       *)
(***************************************************************************)

\* The kernel's table and the open chips agree with the context.
Leakless(h) ==
    /\ \A l \in Line : holder[l] = h <=> Contains(lines[h], l)
    /\ opened[h] = Len(lines[h])

\* No handle has a line twice: the second request of it fails.
Differ(h) == \A j, k \in DOMAIN lines[h] : j # k => lines[h][j] # lines[h][k]

\* The lines are the first of the configuration.
Follow(h) ==
    /\ Len(lines[h]) <= Len(configuration[h].lines)
    /\ \A k \in 1 .. Len(lines[h]) : lines[h][k] = configuration[h].lines[k]

\* How far the configuration has come.
FollowPlace(h) ==
    /\ pc[h] = "closed" => lines[h] = <<>>
    /\ pc[h] = "configure" =>
          /\ configuration[h].lines_count <= MaxLines
          /\ Len(lines[h]) <= configuration[h].lines_count
          /\ Follow(h)
    /\ pc[h] = "open" =>
          \/ lines[h] = <<>>
          \/ configuration[h].lines_count > MaxLines
          \/ /\ Follow(h)
             /\ \/ Len(lines[h]) = configuration[h].lines_count
                \/ configuration[h].lines[Len(lines[h]) + 1].chip = NoChip

Reads(h) ==
    \A k \in DOMAIN lines[h] :
        written[h][k] # "unknown" => ReadLevel(h, k) = written[h][k]

HandleInv(h) == Leakless(h) /\ Differ(h) /\ FollowPlace(h) /\ Reads(h)

GpioInv == GpioTypeOK /\ \A h \in Handle : HandleInv(h)

\* What a step of another handle leaves of a handle.
Kept(g) ==
    /\ pc'[g] = pc[g] /\ configuration'[g] = configuration[g] /\ lines'[g] = lines[g]
    /\ opened'[g] = opened[g] /\ written'[g] = written[g]
    /\ \A l \in Line : holder'[l] = g <=> holder[l] = g
    /\ \A l \in Line : holder[l] = g => active'[l] = active[l]

\* A line of a handle is a line, and the kernel has it for the handle.
LEMMA LineOfHandle ==
    ASSUME GpioInv, NEW h \in Handle, NEW k \in DOMAIN lines[h]
    PROVE  lines[h][k] \in Line /\ holder[lines[h][k]] = h
<1>1. lines[h] \in Seq(Line) /\ DOMAIN lines[h] = 1 .. Len(lines[h])
    BY LenProperties DEF GpioInv, GpioTypeOK
<1>2. lines[h][k] \in Line
    BY <1>1, ElementOfSeq
<1>3. Contains(lines[h], lines[h][k])
    BY <1>1 DEF Contains
<1> QED BY <1>2, <1>3 DEF GpioInv, HandleInv, Leakless

\* A step of one handle that leaves the others what they have keeps what is
\* said of them, what they read back included.
LEMMA OthersKept ==
    ASSUME GpioInv, GpioTypeOK', NEW h \in Handle, HandleInv(h)',
           \A g \in Handle \ {h} : Kept(g)
    PROVE  GpioInv'
<1> SUFFICES ASSUME NEW g \in Handle \ {h}
             PROVE  HandleInv(g)'
    BY DEF GpioInv
<1>1. Kept(g) /\ HandleInv(g)
    BY DEF GpioInv
<1>2. Leakless(g)'
    BY <1>1 DEF Kept, HandleInv, Leakless
<1>3. Differ(g)' /\ FollowPlace(g)'
    BY <1>1 DEF Kept, HandleInv, Differ, FollowPlace, Follow
<1>4. \A k \in DOMAIN lines[g] : ReadLevel(g, k)' = ReadLevel(g, k)
    BY <1>1, LineOfHandle DEF Kept, ReadLevel, Answers, ToLevel
<1>5. Reads(g)'
    BY <1>1, <1>4 DEF Kept, HandleInv, Reads
<1> QED BY <1>2, <1>3, <1>5 DEF HandleInv

\* At the start nothing is open.
LEMMA GpioInitInv == GpioInit => GpioInv
<1> SUFFICES ASSUME GpioInit
             PROVE  GpioInv
    OBVIOUS
<1>1. IsConfiguration(Blank) /\ Blank \in AnyConfiguration
    BY GpioAssumption, EmptySeq DEF IsConfiguration, AnyConfiguration, Blank, Entry
<1>2. GpioTypeOK
    BY <1>1, GpioAssumption, EmptySeq DEF GpioInit, GpioTypeOK
<1>3. ASSUME NEW h \in Handle
      PROVE  HandleInv(h)
  <2>1. lines[h] = <<>> /\ Len(lines[h]) = 0 /\ opened[h] = 0 /\ pc[h] = "closed"
      BY DEF GpioInit
  <2> QED BY <2>1, GpioAssumption
          DEF GpioInit, HandleInv, Leakless, Differ, FollowPlace, Reads, Contains
<1> QED BY <1>2, <1>3 DEF GpioInv

\* Releasing takes everything a handle has, and nothing of anybody else.
LEMMA ReleaseTakesAll ==
    ASSUME GpioInv, NEW h \in Handle, ReleaseLines(h)
    PROVE  /\ lines' \in [Handle -> Seq(Line)] /\ opened' \in [Handle -> Nat]
           /\ holder' \in [Line -> Handle \union {NULL}]
           /\ written' \in [Handle -> Seq({"LOW", "HIGH", "unknown"})]
           /\ lines'[h] = <<>> /\ opened'[h] = 0 /\ written'[h] = <<>>
           /\ \A l \in Line : holder'[l] # h
           /\ \A g \in Handle \ {h} :
                 /\ lines'[g] = lines[g] /\ opened'[g] = opened[g] /\ written'[g] = written[g]
                 /\ \A l \in Line : holder'[l] = g <=> holder[l] = g
<1> USE GpioAssumption DEF GpioInv, GpioTypeOK, ReleaseLines
<1>1. /\ lines' \in [Handle -> Seq(Line)] /\ lines'[h] = <<>>
      /\ \A g \in Handle \ {h} : lines'[g] = lines[g]
    BY EmptySeq
<1>2. /\ written' \in [Handle -> Seq({"LOW", "HIGH", "unknown"})] /\ written'[h] = <<>>
      /\ \A g \in Handle \ {h} : written'[g] = written[g]
    BY EmptySeq
<1>3. opened[h] = Len(lines[h]) /\ Len(lines[h]) \in Nat
    BY LenProperties DEF HandleInv, Leakless
<1>4. /\ opened' \in [Handle -> Nat] /\ opened'[h] = 0
      /\ \A g \in Handle \ {h} : opened'[g] = opened[g]
    BY <1>3
<1>5. \A l \in Line : holder'[l] = IF holder[l] = h THEN NULL ELSE holder[l]
    BY DEF HandleInv, Leakless
<1>6. holder' \in [Line -> Handle \union {NULL}]
    BY <1>5
<1> QED BY <1>1, <1>2, <1>4, <1>5, <1>6

\* Opening gives a handle a blank configuration and no lines.
LEMMA OpenInv ==
    ASSUME GpioInv, NEW h \in Handle, Open(h)
    PROVE  GpioInv'
<1>1. IsConfiguration(Blank) /\ Blank \in AnyConfiguration
    BY GpioAssumption, EmptySeq DEF IsConfiguration, AnyConfiguration, Blank, Entry
<1>2. GpioTypeOK'
    BY <1>1 DEF GpioInv, GpioTypeOK, Open
<1>3. HandleInv(h)'
  <2>1. lines[h] = <<>> /\ lines' = lines /\ pc'[h] = "open"
      BY DEF GpioInv, GpioTypeOK, HandleInv, FollowPlace, Open
  <2>2. Leakless(h)' /\ Differ(h)'
      BY DEF GpioInv, HandleInv, Leakless, Differ, Open
  <2> QED BY <2>1, <2>2 DEF HandleInv, FollowPlace, Reads
<1>4. \A g \in Handle \ {h} : Kept(g)
    BY DEF GpioInv, GpioTypeOK, Open, Kept
<1> QED BY <1>2, <1>3, <1>4, OthersKept

\* A step that releases the lines of a handle, whatever becomes of its place
\* and its configuration, as long as they fit.
LEMMA ReleasingInv ==
    ASSUME GpioInv, NEW h \in Handle, ReleaseLines(h), active' = active,
           NEW to \in {"closed", "open", "configure"}, pc' = [pc EXCEPT ![h] = to],
           NEW c, IsConfiguration(c), configuration' = [configuration EXCEPT ![h] = c],
           to = "configure" => c.lines_count <= MaxLines
    PROVE  GpioInv'
<1>1. GpioTypeOK'
  <2>1. Len(lines'[h]) <= MaxLines /\ Len(written'[h]) = Len(lines'[h])
    <3>1. lines'[h] = <<>> /\ written'[h] = <<>> /\ Len(<<>>) = 0
        BY ReleaseTakesAll
    <3> QED BY <3>1, GpioAssumption
  <2>2. \A g \in Handle : Len(lines'[g]) <= MaxLines /\ Len(written'[g]) = Len(lines'[g])
      BY <2>1, ReleaseTakesAll DEF GpioInv, GpioTypeOK
  <2>3. configuration' \in [Handle -> AnyConfiguration]
        /\ \A g \in Handle : IsConfiguration(configuration'[g])
      BY DEF GpioInv, GpioTypeOK, IsConfiguration
  <2> QED BY <2>2, <2>3, ReleaseTakesAll DEF GpioInv, GpioTypeOK
<1>2. HandleInv(h)'
  <2>1. /\ lines'[h] = <<>> /\ Len(lines'[h]) = 0 /\ opened'[h] = 0
        /\ \A l \in Line : holder'[l] # h
        /\ pc'[h] = to /\ configuration'[h] = c
      BY ReleaseTakesAll DEF GpioInv, GpioTypeOK
  <2>2. Leakless(h)' /\ Differ(h)' /\ Reads(h)'
      BY <2>1 DEF Leakless, Differ, Reads, Contains
  <2>3. c.lines_count \in Nat /\ Len(c.lines) \in Nat
      BY LenProperties DEF IsConfiguration, AnyConfiguration
  <2>4. FollowPlace(h)'
      BY <2>1, <2>3 DEF FollowPlace, Follow
  <2> QED BY <2>2, <2>4 DEF HandleInv
<1>3. \A g \in Handle \ {h} : Kept(g)
    BY ReleaseTakesAll DEF GpioInv, GpioTypeOK, Kept
<1> QED BY <1>1, <1>2, <1>3, OthersKept

\* Closing is a release.
LEMMA CloseInv ==
    ASSUME GpioInv, NEW h \in Handle, Close(h)
    PROVE  GpioInv'
<1>1. IsConfiguration(Blank) /\ Blank \in AnyConfiguration
    BY GpioAssumption, EmptySeq DEF IsConfiguration, AnyConfiguration, Blank, Entry
<1> QED BY <1>1, ReleasingInv DEF Close

\* The single line of older configurations fits.
LEMMA AdoptedFits ==
    ASSUME NEW c, IsConfiguration(c)
    PROVE  IsConfiguration(Adopted(c))
<1>1. CASE c.lines_count = 0 /\ c.line.chip # NoChip
  <2>1. Adopted(c) = [c EXCEPT !.lines_count = 1, !.lines = <<c.line>>]
      BY <1>1 DEF Adopted
  <2>2. c.line \in Entry /\ <<c.line>> \in Seq(Entry) /\ Len(<<c.line>>) = 1
      BY DEF IsConfiguration, AnyConfiguration
  <2>3. c.active_low \in BOOLEAN
      BY DEF IsConfiguration, AnyConfiguration
  <2>4. Adopted(c) = [lines_count |-> 1, lines |-> <<c.line>>, line |-> c.line,
                      active_low |-> c.active_low]
      BY <2>1 DEF IsConfiguration, AnyConfiguration
  <2> QED BY <2>2, <2>3, <2>4, GpioAssumption DEF IsConfiguration, AnyConfiguration
<1>2. CASE ~(c.lines_count = 0 /\ c.line.chip # NoChip)
    BY <1>2 DEF Adopted
<1> QED BY <1>1, <1>2

\* A configuration that is accepted releases the lines of the one before; one
\* that is refused for its count is copied, and ends what is known of them.
LEMMA ConfigureInv ==
    ASSUME GpioInv, NEW h \in Handle, NEW c, IsConfiguration(c), Configure(h, c)
    PROVE  GpioInv'
<1> DEFINE a == Adopted(c)
<1>1. IsConfiguration(a)
    BY AdoptedFits
<1>2. /\ pc[h] = "open" /\ configuration' = [configuration EXCEPT ![h] = a]
      /\ active' = active
    BY DEF Configure
<1>3. CASE a.lines_count > MaxLines
  <2>1. /\ written' = [written EXCEPT ![h] = [k \in DOMAIN @ |-> "unknown"]]
        /\ UNCHANGED <<pc, lines, opened, holder>>
      BY <1>3 DEF Configure
  <2>2. written[h] \in Seq({"LOW", "HIGH", "unknown"}) /\ Len(written[h]) = Len(lines[h])
        /\ DOMAIN written[h] = 1 .. Len(lines[h]) /\ DOMAIN lines[h] = 1 .. Len(lines[h])
        /\ Len(lines[h]) \in Nat
      BY LenProperties DEF GpioInv, GpioTypeOK
  <2>3. written'[h] = [k \in 1 .. Len(lines[h]) |-> "unknown"]
      BY <2>1, <2>2 DEF GpioInv, GpioTypeOK
  <2>4. written'[h] \in [1 .. Len(lines[h]) -> {"LOW", "HIGH", "unknown"}]
      BY <2>3
  <2>5. written'[h] \in Seq({"LOW", "HIGH", "unknown"}) /\ Len(written'[h]) = Len(lines[h])
    <3>1. written'[h] \in Seq({"LOW", "HIGH", "unknown"})
        BY <2>2, <2>4, SeqDef
    <3> QED BY <2>2, <2>4, <3>1, LenProperties
  <2>6. GpioTypeOK'
    <3>1. \A g \in Handle \ {h} : written'[g] = written[g]
        BY <2>1 DEF GpioInv, GpioTypeOK
    <3>2. /\ written' \in [Handle -> Seq({"LOW", "HIGH", "unknown"})]
          /\ \A g \in Handle : Len(written'[g]) = Len(lines[g])
      <4>1. DOMAIN written' = Handle
          BY <2>1 DEF GpioInv, GpioTypeOK
      <4> QED BY <2>1, <2>5, <3>1, <4>1 DEF GpioInv, GpioTypeOK
    <3>3. configuration' \in [Handle -> AnyConfiguration]
          /\ \A g \in Handle : IsConfiguration(configuration'[g])
        BY <1>1, <1>2 DEF GpioInv, GpioTypeOK, IsConfiguration
    <3> QED BY <1>2, <2>1, <3>2, <3>3 DEF GpioInv, GpioTypeOK
  <2>7. HandleInv(h)'
    <3>1. configuration'[h] = a
        BY <1>2 DEF GpioInv, GpioTypeOK
    <3>2. Leakless(h)' /\ Differ(h)'
        BY <2>1 DEF GpioInv, HandleInv, Leakless, Differ
    <3>3. FollowPlace(h)'
        BY <1>2, <1>3, <2>1, <3>1 DEF FollowPlace
    <3>4. Reads(h)'
        BY <2>1, <2>2, <2>3 DEF Reads
    <3> QED BY <3>2, <3>3, <3>4 DEF HandleInv
  <2>8. \A g \in Handle \ {h} : Kept(g)
      BY <1>2, <2>1 DEF GpioInv, GpioTypeOK, Kept
  <2> QED BY <2>6, <2>7, <2>8, OthersKept
<1>4. CASE ~(a.lines_count > MaxLines)
  <2>1. ReleaseLines(h) /\ pc' = [pc EXCEPT ![h] = "configure"]
      BY <1>4 DEF Configure
  <2>2. a.lines_count \in Nat /\ MaxLines \in Nat
      BY <1>1, GpioAssumption DEF IsConfiguration, AnyConfiguration
  <2>3. a.lines_count <= MaxLines
      BY <1>4, <2>2
  <2> HIDE DEF a
  <2> QED BY <1>1, <1>2, <2>1, <2>3, ReleasingInv
<1> QED BY <1>3, <1>4

\* The loop ends with all lines, or before a line without a chip.
LEMMA LoopEndsInv ==
    ASSUME GpioInv, NEW h \in Handle, NoChipName(h) \/ ConfigureDone(h)
    PROVE  GpioInv'
<1>1. /\ pc[h] = "configure" /\ pc' = [pc EXCEPT ![h] = "open"]
      /\ UNCHANGED <<configuration, lines, opened, holder, active, written>>
    BY DEF NoChipName, ConfigureDone, MoreLines
<1>2. GpioTypeOK'
    BY <1>1 DEF GpioInv, GpioTypeOK
<1>3. Leakless(h)' /\ Differ(h)' /\ Reads(h)'
    BY <1>1 DEF GpioInv, HandleInv, Leakless, Differ, Reads, ReadLevel, Answers, ToLevel
<1>4. FollowPlace(h)'
  <2>1. pc'[h] = "open" /\ Follow(h)' /\ Len(lines[h]) <= configuration[h].lines_count
      BY <1>1 DEF GpioInv, GpioTypeOK, HandleInv, FollowPlace, Follow
  <2>2. CASE NoChipName(h)
      BY <1>1, <2>1, <2>2 DEF FollowPlace, NoChipName, NextEntry
  <2>3. CASE ConfigureDone(h)
    <3>1. Len(lines[h]) \in Nat /\ configuration[h].lines_count \in Nat
        BY LenProperties DEF GpioInv, GpioTypeOK, IsConfiguration, AnyConfiguration
    <3>2. Len(lines[h]) = configuration[h].lines_count
        BY <1>1, <2>1, <2>3, <3>1 DEF ConfigureDone, MoreLines
    <3> QED BY <1>1, <2>1, <3>2 DEF FollowPlace
  <2> QED BY <2>2, <2>3
<1>5. \A g \in Handle \ {h} : Kept(g)
    BY <1>1 DEF GpioInv, GpioTypeOK, Kept
<1> QED BY <1>2, <1>3, <1>4, <1>5, OthersKept DEF HandleInv

\* A line that cannot be had releases those the loop already has.
LEMMA LineFailsInv ==
    ASSUME GpioInv, NEW h \in Handle, LineFails(h)
    PROVE  GpioInv'
<1> DEFINE c == configuration[h]
<1>1. IsConfiguration(c) /\ configuration' = [configuration EXCEPT ![h] = c]
    BY DEF LineFails, GpioInv, GpioTypeOK
<1> HIDE DEF c
<1> QED BY <1>1, ReleasingInv DEF LineFails

\* The entry the loop is at names a line, if it names a chip.
LEMMA NextEntryIsLine ==
    ASSUME GpioInv, NEW h \in Handle, MoreLines(h)
    PROVE  /\ Follow(h) /\ pc[h] = "configure"
           /\ Len(lines[h]) + 1 \in 1 .. Len(configuration[h].lines)
           /\ Len(lines[h]) + 1 <= configuration[h].lines_count
           /\ configuration[h].lines_count <= MaxLines
           /\ Len(lines[h]) \in Nat
           /\ NextEntry(h).chip # NoChip => NextEntry(h) \in Line
<1> DEFINE c == configuration[h]
<1>1. /\ c \in AnyConfiguration /\ IsConfiguration(c) /\ lines[h] \in Seq(Line)
      /\ Len(lines[h]) \in Nat /\ c.lines_count \in Nat
      /\ c.lines \in Seq(Entry) /\ Len(c.lines) \in Nat
    BY LenProperties DEF GpioInv, GpioTypeOK, IsConfiguration, AnyConfiguration
<1>2. /\ pc[h] = "configure" /\ Follow(h) /\ Len(lines[h]) < c.lines_count
      /\ c.lines_count <= MaxLines
    BY DEF GpioInv, HandleInv, FollowPlace, MoreLines
<1>3. c.lines_count <= Len(c.lines)
    BY <1>1, <1>2, GpioAssumption DEF IsConfiguration
<1>4. Len(lines[h]) + 1 \in 1 .. Len(c.lines) /\ Len(lines[h]) + 1 <= c.lines_count
    BY <1>1, <1>2, <1>3
<1>5. NextEntry(h) \in Entry
    BY <1>1, <1>4, ElementOfSeq DEF NextEntry
<1>6. NextEntry(h).chip # NoChip => NextEntry(h) \in Line
    BY <1>5 DEF Entry, Line
<1> QED BY <1>1, <1>2, <1>4, <1>6

\* A line that nobody has becomes the last of the handle's.
LEMMA RequestLineInv ==
    ASSUME GpioInv, NEW h \in Handle, RequestLine(h)
    PROVE  GpioInv'
<1> DEFINE e == NextEntry(h)
           n == Len(lines[h])
<1>1. /\ Follow(h) /\ pc[h] = "configure" /\ n \in Nat /\ e \in Line
      /\ n + 1 \in 1 .. Len(configuration[h].lines)
      /\ n + 1 <= configuration[h].lines_count /\ configuration[h].lines_count <= MaxLines
      /\ configuration[h].lines_count \in Nat
    BY NextEntryIsLine DEF RequestLine, GpioInv, GpioTypeOK, IsConfiguration, AnyConfiguration
<1>2. /\ holder[e] = NULL
      /\ holder' = [holder EXCEPT ![e] = h]
      /\ active' = [active EXCEPT ![e] = FALSE]
      /\ opened' = [opened EXCEPT ![h] = @ + 1]
      /\ lines' = [lines EXCEPT ![h] = Append(@, e)]
      /\ written' = [written EXCEPT ![h] = Append(@, "unknown")]
      /\ UNCHANGED <<pc, configuration>>
    BY DEF RequestLine
<1>3. e = configuration[h].lines[n + 1]
    BY DEF NextEntry
<1> HIDE DEF e
<1>4. /\ lines'[h] \in Seq(Line) /\ Len(lines'[h]) = n + 1
      /\ \A k \in 1 .. n : lines'[h][k] = lines[h][k]
      /\ lines'[h][n + 1] = e
  <2>1. lines[h] \in Seq(Line) /\ lines'[h] = Append(lines[h], e)
      BY <1>2 DEF GpioInv, GpioTypeOK
  <2> HIDE DEF n
  <2> QED BY <1>1, <2>1, AppendProperties DEF n
<1>5. /\ written'[h] \in Seq({"LOW", "HIGH", "unknown"}) /\ Len(written'[h]) = n + 1
      /\ \A k \in 1 .. n : written'[h][k] = written[h][k]
      /\ written'[h][n + 1] = "unknown"
  <2>1. /\ written[h] \in Seq({"LOW", "HIGH", "unknown"}) /\ Len(written[h]) = n
        /\ written'[h] = Append(written[h], "unknown")
      BY <1>2 DEF GpioInv, GpioTypeOK
  <2> HIDE DEF n
  <2> QED BY <1>1, <2>1, AppendProperties
<1>6. /\ \A l \in Line : holder'[l] = IF l = e THEN h ELSE holder[l]
      /\ \A l \in Line : active'[l] = IF l = e THEN FALSE ELSE active[l]
      /\ opened'[h] = n + 1
      /\ \A g \in Handle \ {h} : lines'[g] = lines[g] /\ opened'[g] = opened[g]
                                 /\ written'[g] = written[g]
    BY <1>1, <1>2 DEF GpioInv, GpioTypeOK, HandleInv, Leakless
<1>7. \A k \in 1 .. n : lines[h][k] \in Line /\ holder[lines[h][k]] = h /\ lines[h][k] # e
  <2>1. DOMAIN lines[h] = 1 .. n
      BY LenProperties DEF GpioInv, GpioTypeOK
  <2> QED BY <2>1, <1>2, LineOfHandle, GpioAssumption
<1>8. DOMAIN lines'[h] = 1 .. n + 1
    BY <1>1, <1>4, LenProperties
<1>9. GpioTypeOK'
  <2>1. /\ lines' \in [Handle -> Seq(Line)] /\ written' \in [Handle -> Seq({"LOW", "HIGH", "unknown"})]
        /\ opened' \in [Handle -> Nat]
      BY <1>1, <1>2, <1>4, <1>5, <1>6 DEF GpioInv, GpioTypeOK
  <2>2. holder' \in [Line -> Handle \union {NULL}] /\ active' \in [Line -> BOOLEAN]
      BY <1>2 DEF GpioInv, GpioTypeOK
  <2>3. \A g \in Handle : Len(lines'[g]) <= MaxLines /\ Len(written'[g]) = Len(lines'[g])
    <3>1. n + 1 <= MaxLines
        BY <1>1, GpioAssumption
    <3> QED BY <3>1, <1>4, <1>5, <1>6 DEF GpioInv, GpioTypeOK
  <2> QED BY <1>2, <2>1, <2>2, <2>3 DEF GpioInv, GpioTypeOK
<1> HIDE DEF n
<1>10. Leakless(h)'
  <2>1. ASSUME NEW l \in Line
        PROVE  holder'[l] = h <=> \E k \in 1 .. n + 1 : lines'[h][k] = l
    <3>1. holder[l] = h <=> \E k \in 1 .. n : lines[h][k] = l
        BY DEF GpioInv, HandleInv, Leakless, Contains, n
    <3>2. CASE l = e
        BY <3>2, <1>1, <1>4, <1>6
    <3>3. CASE l # e
        BY <3>1, <3>3, <1>1, <1>4, <1>6
    <3> QED BY <3>2, <3>3
  <2> QED BY <2>1, <1>4, <1>6 DEF Leakless, Contains
<1>11. Differ(h)'
  <2> SUFFICES ASSUME NEW j \in 1 .. n + 1, NEW k \in 1 .. n + 1, j # k
               PROVE  lines'[h][j] # lines'[h][k]
      BY <1>8 DEF Differ
  <2>1. CASE j = n + 1
    <3>1. k \in 1 .. n
        BY <2>1, <1>1
    <3> QED BY <2>1, <3>1, <1>4, <1>7
  <2>2. CASE k = n + 1
    <3>1. j \in 1 .. n
        BY <2>2, <1>1
    <3> QED BY <2>2, <3>1, <1>4, <1>7
  <2>3. CASE j # n + 1 /\ k # n + 1
    <3>1. j \in 1 .. n /\ k \in 1 .. n
        BY <2>3, <1>1
    <3>2. DOMAIN lines[h] = 1 .. n
        BY LenProperties DEF GpioInv, GpioTypeOK, n
    <3> QED BY <3>1, <3>2, <1>4 DEF GpioInv, HandleInv, Differ
  <2> QED BY <2>1, <2>2, <2>3
<1>12. FollowPlace(h)'
  <2>1. pc'[h] = "configure" /\ configuration'[h] = configuration[h]
      BY <1>1, <1>2
  <2>2. \A k \in 1 .. n + 1 : lines'[h][k] = configuration[h].lines[k]
    <3> SUFFICES ASSUME NEW k \in 1 .. n + 1
                 PROVE  lines'[h][k] = configuration[h].lines[k]
        OBVIOUS
    <3>1. CASE k = n + 1
        BY <3>1, <1>3, <1>4
    <3>2. CASE k # n + 1
      <4>1. k \in 1 .. n
          BY <3>2, <1>1
      <4> QED BY <4>1, <1>1, <1>4 DEF Follow, n
    <3> QED BY <3>1, <3>2
  <2>3. n + 1 <= Len(configuration[h].lines)
      BY <1>1
  <2> QED BY <2>1, <2>2, <2>3, <1>1, <1>4 DEF FollowPlace, Follow
<1>13. Reads(h)'
  <2> SUFFICES ASSUME NEW k \in 1 .. n + 1, written'[h][k] # "unknown"
               PROVE  ReadLevel(h, k)' = written'[h][k]
      BY <1>8 DEF Reads
  <2>1. k \in 1 .. n
      BY <1>1, <1>5
  <2>2. DOMAIN lines[h] = 1 .. n
      BY LenProperties DEF GpioInv, GpioTypeOK, n
  <2>3. ReadLevel(h, k) = written[h][k]
      BY <2>1, <2>2, <1>5 DEF GpioInv, HandleInv, Reads
  <2>4. ReadLevel(h, k)' = ReadLevel(h, k)
    <3>1. /\ lines'[h][k] = lines[h][k] /\ configuration' = configuration
          /\ active'[lines[h][k]] = active[lines[h][k]]
        BY <2>1, <1>2, <1>4, <1>6, <1>7
    <3> QED BY <3>1 DEF ReadLevel, Answers, ToLevel
  <2> QED BY <2>1, <2>3, <2>4, <1>5
<1>14. \A g \in Handle \ {h} : Kept(g)
  <2> SUFFICES ASSUME NEW g \in Handle \ {h}
               PROVE  Kept(g)
      OBVIOUS
  <2>1. \A l \in Line : holder'[l] = g <=> holder[l] = g
      BY <1>2, <1>6, GpioAssumption
  <2>2. \A l \in Line : holder[l] = g => active'[l] = active[l]
      BY <1>2, <1>6, GpioAssumption
  <2> QED BY <2>1, <2>2, <1>2, <1>6 DEF Kept
<1> QED BY <1>9, <1>10, <1>11, <1>12, <1>13, <1>14, OthersKept DEF HandleInv

\* The place of a line among the handle's is found, since it is there once.
LEMMA PlaceOfLine ==
    ASSUME GpioInv, NEW h \in Handle, NEW k \in DOMAIN lines[h]
    PROVE  SelectInSeq(lines[h], LAMBDA m : m = lines[h][k]) = k
<1> DEFINE I == {i \in 1 .. Len(lines[h]) : lines[h][i] = lines[h][k]}
<1>1. Len(lines[h]) \in Nat /\ DOMAIN lines[h] = 1 .. Len(lines[h])
    BY LenProperties DEF GpioInv, GpioTypeOK
<1>2. \A i \in I : i = k
    BY <1>1 DEF GpioInv, HandleInv, Differ
<1>3. k \in I
    BY <1>1
<1>4. Min(I) = k
  <2>1. I \in SUBSET Nat
      OBVIOUS
  <2> HIDE DEF I
  <2> QED BY <2>1, <1>2, <1>3, MinIsThere
<1>5. SelectInSeq(lines[h], LAMBDA m : m = lines[h][k]) = IF I # {} THEN Min(I) ELSE 0
    BY DEF SelectInSeq
<1> HIDE DEF I
<1> QED BY <1>3, <1>4, <1>5

\* Turned into an output value and back, with either polarity, a level is the
\* same.
LEMMA LevelRoundTrip ==
    ASSUME NEW h, NEW level \in {"LOW", "HIGH"}, configuration[h].active_low \in BOOLEAN
    PROVE  ToLevel(h, ToActive(h, level)) = level /\ ToActive(h, level) \in BOOLEAN
<1>1. CASE configuration[h].active_low = TRUE
    BY <1>1 DEF ToLevel, ToActive
<1>2. CASE configuration[h].active_low = FALSE
    BY <1>2 DEF ToLevel, ToActive
<1> QED BY <1>1, <1>2

\* A write drives the first lines of its handle, and the handle's only.
LEMMA WriteInv ==
    ASSUME GpioInv, NEW h \in Handle, NEW levels \in Levels, Write(h, levels)
    PROVE  GpioInv'
<1>1. PICK n \in 1 .. Len(levels) :
          /\ \A k \in 1 .. n : Answers(h, k)
          /\ active' = [l \in Line |->
                IF \E k \in 1 .. n : lines[h][k] = l
                THEN ToActive(h, levels[SelectInSeq(lines[h], LAMBDA m : m = l)])
                ELSE active[l]]
          /\ written' = [written EXCEPT ![h] =
                [k \in DOMAIN @ |-> IF k <= n THEN levels[k] ELSE @[k]]]
    BY DEF Write
<1>2. UNCHANGED <<pc, configuration, lines, opened, holder>>
    BY DEF Write
<1>3. /\ Len(lines[h]) \in Nat /\ DOMAIN lines[h] = 1 .. Len(lines[h])
      /\ DOMAIN written[h] = 1 .. Len(lines[h])
      /\ written[h] \in [1 .. Len(lines[h]) -> {"LOW", "HIGH", "unknown"}]
    BY LenProperties DEF GpioInv, GpioTypeOK
<1>4. n \in 1 .. Len(lines[h]) /\ \A k \in 1 .. n : levels[k] \in {"LOW", "HIGH"}
  <2>1. PICK m \in 1 .. MaxLines : levels \in [1 .. m -> {"LOW", "HIGH"}]
      BY DEF Levels
  <2>2. Len(levels) = m /\ m \in Nat
    <3>1. m \in Nat
        BY GpioAssumption
    <3>2. levels \in Seq({"LOW", "HIGH"})
        BY <2>1, <3>1, SeqDef
    <3> QED BY <2>1, <3>1, <3>2, LenProperties
  <2>3. m \in {1, Len(lines[h])} /\ lines[h] # <<>>
      BY <2>2 DEF Write
  <2>4. Len(lines[h]) # 0
      BY <2>3, EmptySeq DEF GpioInv, GpioTypeOK
  <2> QED BY <2>1, <2>2, <2>3, <2>4, <1>3
<1>5. configuration[h].active_low \in BOOLEAN
    BY DEF GpioInv, GpioTypeOK, AnyConfiguration
<1>6. \A k \in 1 .. n : active'[lines[h][k]] = ToActive(h, levels[k])
  <2> SUFFICES ASSUME NEW k \in 1 .. n
               PROVE  active'[lines[h][k]] = ToActive(h, levels[k])
      OBVIOUS
  <2>1. k \in DOMAIN lines[h]
      BY <1>3, <1>4
  <2>2. lines[h][k] \in Line
      BY <2>1, LineOfHandle
  <2>3. SelectInSeq(lines[h], LAMBDA m : m = lines[h][k]) = k
      BY <2>1, PlaceOfLine
  <2> QED BY <1>1, <2>2, <2>3
<1>7. \A l \in Line : (\A k \in 1 .. n : lines[h][k] # l) => active'[l] = active[l]
    BY <1>1
<1>8. active' \in [Line -> BOOLEAN]
  <2>1. \A l \in Line : active'[l] \in BOOLEAN
    <3> SUFFICES ASSUME NEW l \in Line
                 PROVE  active'[l] \in BOOLEAN
        OBVIOUS
    <3>1. CASE \E k \in 1 .. n : lines[h][k] = l
        BY <3>1, <1>4, <1>5, <1>6, LevelRoundTrip
    <3>2. CASE ~ \E k \in 1 .. n : lines[h][k] = l
        BY <3>2, <1>7 DEF GpioInv, GpioTypeOK
    <3> QED BY <3>1, <3>2
  <2>2. DOMAIN active' = Line /\ active' = [l \in Line |-> active'[l]]
      BY <1>1
  <2> QED BY <2>1, <2>2
<1>9. \A k \in 1 .. Len(lines[h]) :
          written'[h][k] = IF k <= n THEN levels[k] ELSE written[h][k]
  <2>1. written'[h] = [k \in 1 .. Len(lines[h]) |->
                          IF k <= n THEN levels[k] ELSE written[h][k]]
      BY <1>1, <1>3 DEF GpioInv, GpioTypeOK
  <2> QED BY <2>1
<1>10. GpioTypeOK'
  <2>1. written'[h] \in [1 .. Len(lines[h]) -> {"LOW", "HIGH", "unknown"}]
    <3>1. written'[h] = [k \in 1 .. Len(lines[h]) |->
                            IF k <= n THEN levels[k] ELSE written[h][k]]
        BY <1>1, <1>3 DEF GpioInv, GpioTypeOK
    <3>2. \A k \in 1 .. Len(lines[h]) :
              (IF k <= n THEN levels[k] ELSE written[h][k]) \in {"LOW", "HIGH", "unknown"}
        BY <1>3, <1>4
    <3> QED BY <3>1, <3>2
  <2>2. written'[h] \in Seq({"LOW", "HIGH", "unknown"})
      BY <2>1, <1>3, SeqDef
  <2>3. Len(written'[h]) = Len(lines[h])
      BY <2>1, <2>2, <1>3, LenProperties
  <2>4. /\ written' \in [Handle -> Seq({"LOW", "HIGH", "unknown"})]
        /\ \A g \in Handle : Len(written'[g]) = Len(lines[g])
    <3>1. \A g \in Handle \ {h} : written'[g] = written[g]
        BY <1>1 DEF GpioInv, GpioTypeOK
    <3>2. DOMAIN written' = Handle /\ written' = [g \in Handle |-> written'[g]]
        BY <1>1 DEF GpioInv, GpioTypeOK
    <3> QED BY <2>2, <2>3, <3>1, <3>2 DEF GpioInv, GpioTypeOK
  <2> QED BY <1>2, <1>8, <2>4 DEF GpioInv, GpioTypeOK
<1>11. Leakless(h)' /\ Differ(h)' /\ FollowPlace(h)'
    BY <1>2 DEF GpioInv, HandleInv, Leakless, Differ, FollowPlace, Follow
<1>12. Reads(h)'
  <2> SUFFICES ASSUME NEW k \in 1 .. Len(lines[h]), written'[h][k] # "unknown"
               PROVE  ReadLevel(h, k)' = written'[h][k]
      BY <1>2, <1>3 DEF Reads
  <2>1. CASE k <= n
    <3>1. k \in 1 .. n /\ written'[h][k] = levels[k]
        BY <2>1, <1>9
    <3>2. Answers(h, k)'
        BY <3>1, <1>1, <1>2 DEF Answers
    <3>3. ReadLevel(h, k)' = ToLevel(h, ToActive(h, levels[k]))
        BY <3>1, <3>2, <1>2, <1>6 DEF ReadLevel, ToLevel
    <3> QED BY <3>1, <3>3, <1>4, <1>5, LevelRoundTrip
  <2>2. CASE ~(k <= n)
    <3>1. written'[h][k] = written[h][k] /\ k \in DOMAIN lines[h]
        BY <2>2, <1>3, <1>9
    <3>2. lines[h][k] \in Line /\ \A j \in 1 .. n : lines[h][j] # lines[h][k]
        BY <2>2, <3>1, <1>3, <1>4, LineOfHandle DEF GpioInv, HandleInv, Differ
    <3>3. active'[lines[h][k]] = active[lines[h][k]]
        BY <3>2, <1>7
    <3>4. ReadLevel(h, k)' = ReadLevel(h, k)
        BY <3>3, <1>2 DEF ReadLevel, Answers, ToLevel
    <3> QED BY <3>1, <3>4 DEF GpioInv, HandleInv, Reads
  <2> QED BY <2>1, <2>2
<1>13. \A g \in Handle \ {h} : Kept(g)
  <2> SUFFICES ASSUME NEW g \in Handle \ {h}
               PROVE  Kept(g)
      OBVIOUS
  <2>1. ASSUME NEW l \in Line, holder[l] = g
        PROVE  active'[l] = active[l]
    <3>1. \A k \in 1 .. n : lines[h][k] # l
        BY <2>1, <1>3, <1>4, LineOfHandle
    <3> QED BY <3>1, <1>7
  <2>2. written'[g] = written[g]
      BY <1>1 DEF GpioInv, GpioTypeOK
  <2> QED BY <2>1, <2>2, <1>2 DEF Kept
<1> QED BY <1>10, <1>11, <1>12, <1>13, OthersKept DEF HandleInv

----------------------------------------------------------------------------
(***************************************************************************)
(* Lists: what a loop takes over from one.                                 *)
(***************************************************************************)

\* A set that holds 0, and with each number below n the next, holds all to n.
LEMMA Climb ==
    ASSUME NEW n \in Nat, NEW S, 0 \in S,
           \A k \in 0 .. n : k < n /\ k \in S => k + 1 \in S
    PROVE  \A k \in 0 .. n : k \in S
<1> DEFINE Bad == {k \in 0 .. n : k \notin S}
<1>1. ASSUME Bad # {} PROVE FALSE
  <2>0. Bad \subseteq Nat
    OBVIOUS
  <2>1. PICK m \in Bad : \A k \in Bad : <<k, m>> \notin OpToRel(<, Nat)
    <3> HIDE DEF Bad
    <3> QED BY <1>1, <2>0, NatLessThanWellFounded, WFMin, Zenon
  <2>2. m \in 0 .. n /\ m \notin S /\ m - 1 \in 0 .. n
    OBVIOUS
  <2>3. m - 1 \in S
    <3>1. <<m - 1, m>> \in OpToRel(<, Nat)
      BY <2>2 DEF OpToRel
    <3> QED BY <3>1, <2>1, <2>2
  <2> QED BY <2>2, <2>3
<1> QED BY <1>1

\* FlattenSeq, one list after the other.
LEMMA FlattenSteps ==
    ASSUME NEW T, NEW ss \in Seq(Seq(T))
    PROVE  \E f \in [0 .. Len(ss) -> Seq(T)] :
              /\ f[0] = <<>>
              /\ \A k \in 1 .. Len(ss) : f[k] = f[k - 1] \o ss[k]
              /\ f[Len(ss)] = FlattenSeq(ss)
<1> DEFINE Grows(f, n) == f[0] = <<>> /\ \A k \in 1 .. n : f[k] = f[k - 1] \o ss[k]
           S == {n \in 0 .. Len(ss) : \E f \in [0 .. n -> Seq(T)] : Grows(f, n)}
<1>0. Len(ss) \in Nat /\ \A k \in 1 .. Len(ss) : ss[k] \in Seq(T)
  OBVIOUS
<1>1. \E f \in [0 .. Len(ss) -> Seq(T)] : Grows(f, Len(ss))
  <2>1. 0 \in S
    <3> DEFINE g == [k \in 0 .. 0 |-> <<>>]
    <3>1. g \in [0 .. 0 -> Seq(T)]
      BY EmptySeq
    <3>2. Grows(g, 0)
      OBVIOUS
    <3> HIDE DEF g, Grows
    <3>3. \E f \in [0 .. 0 -> Seq(T)] : Grows(f, 0)
      BY <3>1, <3>2
    <3> QED BY <1>0, <3>3
  <2>2. ASSUME NEW n \in 0 .. Len(ss), n < Len(ss) /\ n \in S
        PROVE  n + 1 \in S
    <3>1. PICK f \in [0 .. n -> Seq(T)] : Grows(f, n)
      BY <2>2
    <3> DEFINE g == [k \in 0 .. n + 1 |-> IF k <= n THEN f[k] ELSE f[n] \o ss[n + 1]]
    <3>2. ss[n + 1] \in Seq(T) /\ f[n] \in Seq(T)
      BY <1>0, <2>2
    <3>3. f[n] \o ss[n + 1] \in Seq(T)
      BY <3>2, ConcatProperties
    <3>4. g \in [0 .. n + 1 -> Seq(T)]
      BY <3>3
    <3>5. ASSUME NEW k \in 1 .. n + 1 PROVE g[k] = g[k - 1] \o ss[k]
      <4>1. CASE k <= n
        <5>1. k \in 1 .. n /\ g[k] = f[k] /\ g[k - 1] = f[k - 1]
          BY <4>1
        <5> QED BY <3>1, <5>1
      <4>2. CASE k = n + 1
        <5>1. g[k] = f[n] \o ss[n + 1] /\ g[k - 1] = f[n]
          BY <4>2
        <5> QED BY <4>2, <5>1
      <4>3. k <= n \/ k = n + 1
        BY <1>0
      <4> QED BY <4>1, <4>2, <4>3
    <3>6. g[0] = <<>>
      BY <3>1
    <3>7. Grows(g, n + 1)
      BY <3>5, <3>6
    <3> HIDE DEF g, Grows
    <3>8. \E e \in [0 .. n + 1 -> Seq(T)] : Grows(e, n + 1)
      BY <3>4, <3>7
    <3> QED BY <1>0, <2>2, <3>8
  <2>3. \A k \in 0 .. Len(ss) : k \in S
    <3> HIDE DEF S
    <3> QED BY <1>0, <2>1, <2>2, Climb
  <2> HIDE DEF Grows
  <2> QED BY <1>0, <2>3
<1>2. PICK f \in [0 .. Len(ss) -> Seq(T)] : Grows(f, Len(ss))
  BY <1>1
<1>3. \A k \in 1 .. Len(ss) : f[k] = f[k - 1] \o ss[k]
  BY <1>2
<1>4. ASSUME Len(ss) # 0 PROVE f[1] = ss[1]
  <2>1. 1 \in 1 .. Len(ss) /\ 1 - 1 = 0
    BY <1>4
  <2>2. f[1] = f[0] \o ss[1]
    BY <1>3, <2>1
  <2>3. ss[1] \in Seq(T) /\ f[0] = <<>>
    BY <1>2, <2>1
  <2> QED BY <2>2, <2>3, ConcatEmptySeq
<1> HIDE DEF Grows, S
<1>5. CASE Len(ss) = 0
  <2>1. ss = <<>>
    BY <1>5, EmptySeq
  <2>2. f[0] = <<>>
    BY <1>2 DEF Grows
  <2> QED BY <1>3, <1>5, <2>1, <2>2 DEF FlattenSeq
<1>6. CASE Len(ss) # 0
  <2> DEFINE Flat(g) == [i \in 1 .. Len(ss) |-> IF i = 1 THEN ss[i] ELSE g[i - 1] \o ss[i]]
             h == CHOOSE g : g = Flat(g)
  <2>1. FlattenSeq(ss) = h[Len(ss)]
    BY <1>6 DEF FlattenSeq
  <2>2. \E g : g = Flat(g)
    <3> DEFINE g == [i \in 1 .. Len(ss) |-> f[i]]
    <3>1. ASSUME NEW i \in 1 .. Len(ss)
          PROVE  f[i] = IF i = 1 THEN ss[i] ELSE g[i - 1] \o ss[i]
      <4>1. CASE i = 1
        BY <4>1, <1>4, <1>6
      <4>2. CASE i # 1
        <5>1. i - 1 \in 1 .. Len(ss)
          BY <4>2
        <5>2. g[i - 1] = f[i - 1]
          BY <5>1
        <5> QED BY <4>2, <5>2, <1>3
      <4> QED BY <4>1, <4>2
    <3>2. g = Flat(g)
      <4> HIDE DEF g
      <4>1. g = [i \in 1 .. Len(ss) |-> f[i]]
        BY DEF g
      <4> QED BY <3>1, <4>1
    <3> HIDE DEF g, Flat
    <3> QED BY <3>2
  <2>3. h = Flat(h)
    <3> HIDE DEF Flat
    <3> QED BY <2>2
  <2>4. \A i \in 1 .. Len(ss) : h[i] = IF i = 1 THEN ss[i] ELSE h[i - 1] \o ss[i]
    <3> HIDE DEF h
    <3> QED BY <2>3
  <2> HIDE DEF h, Flat
  <2> DEFINE E == {i \in 0 .. Len(ss) : i = 0 \/ h[i] = f[i]}
  <2>5. ASSUME NEW k \in 0 .. Len(ss), k < Len(ss), k \in E PROVE k + 1 \in E
    <3>0. k + 1 \in 1 .. Len(ss) /\ (k + 1) - 1 = k
      BY <2>5
    <3>1. CASE k = 0
      BY <3>0, <3>1, <1>4, <1>6, <2>4
    <3>2. CASE k # 0
      <4> DEFINE j == k + 1
      <4>0. j \in 1 .. Len(ss) /\ j - 1 = k /\ j # 1
        BY <3>0, <3>2
      <4>1. h[k] = f[k]
        BY <3>2, <2>5
      <4> HIDE DEF j
      <4>2. h[j] = h[k] \o ss[j]
        BY <4>0, <2>4
      <4>3. f[j] = f[k] \o ss[j]
        BY <4>0, <1>3
      <4>4. j \in E
        <5>1. h[j] = f[j]
          BY <4>1, <4>2, <4>3
        <5> QED BY <4>0, <5>1
      <4> QED BY <4>4 DEF j
    <3> QED BY <3>1, <3>2
  <2>6. Len(ss) \in E
    <3>1. 0 \in E /\ Len(ss) \in Nat
      OBVIOUS
    <3> HIDE DEF E
    <3>2. \A k \in 0 .. Len(ss) : k < Len(ss) /\ k \in E => k + 1 \in E
      BY <2>5
    <3>3. \A k \in 0 .. Len(ss) : k \in E
      BY <3>1, <3>2, Climb
    <3> QED BY <3>1, <3>3
  <2>7. h[Len(ss)] = f[Len(ss)]
    BY <1>6, <2>6
  <2>8. f[0] = <<>>
    BY <1>2 DEF Grows
  <2> QED BY <1>3, <2>1, <2>7, <2>8
<1> QED BY <1>5, <1>6


\* Going through a list and taking the entries at some places: Selected, with
\* the places for the test.
Taken(s, I) == FlattenSeq([k \in DOMAIN s |-> IF k \in I THEN <<s[k]>> ELSE <<>>])

\* What Taken has after each place of s.
Gathers(f, s, I) ==
    /\ f[0] = <<>>
    /\ \A k \in 1 .. Len(s) : f[k] = IF k \in I THEN Append(f[k - 1], s[k]) ELSE f[k - 1]
    /\ f[Len(s)] = Taken(s, I)

\* The list grows with each entry that is taken, and holds only those.
LEMMA TakenSteps ==
    ASSUME NEW T, NEW s \in Seq(T), NEW I, NEW V, \A k \in DOMAIN s : k \in I => s[k] \in V
    PROVE  \E f \in [0 .. Len(s) -> Seq(V)] : Gathers(f, s, I)
<1> DEFINE ss == [k \in DOMAIN s |-> IF k \in I THEN <<s[k]>> ELSE <<>>]
<1>1. DOMAIN s = 1 .. Len(s) /\ Len(s) \in Nat
  OBVIOUS
<1>2. \A k \in DOMAIN s : ss[k] \in Seq(V)
  OBVIOUS
<1>3. ss \in Seq(Seq(V)) /\ Len(ss) = Len(s)
  BY <1>1, <1>2
<1>4. \A k \in DOMAIN s : ss[k] = IF k \in I THEN <<s[k]>> ELSE <<>>
  OBVIOUS
<1>5. Taken(s, I) = FlattenSeq(ss)
  BY DEF Taken
<1> HIDE DEF ss
<1>6. PICK f \in [0 .. Len(ss) -> Seq(V)] :
              /\ f[0] = <<>>
              /\ \A k \in 1 .. Len(ss) : f[k] = f[k - 1] \o ss[k]
              /\ f[Len(ss)] = FlattenSeq(ss)
  BY <1>3, FlattenSteps
<1>7. ASSUME NEW k \in 1 .. Len(s)
      PROVE  f[k] = IF k \in I THEN Append(f[k - 1], s[k]) ELSE f[k - 1]
  <2>0. k \in 1 .. Len(ss) /\ k - 1 \in 0 .. Len(ss)
    BY <1>1, <1>3
  <2>1. f[k] = f[k - 1] \o ss[k] /\ f[k - 1] \in Seq(V)
    BY <2>0, <1>6
  <2>2. CASE k \in I
    <3>1. ss[k] = <<s[k]>> /\ s[k] \in V
      BY <1>1, <1>4, <2>2
    <3>2. f[k - 1] \o <<s[k]>> = Append(f[k - 1], s[k])
      BY <2>1, <3>1, AppendIsConcat
    <3> QED BY <2>1, <2>2, <3>1, <3>2
  <2>3. CASE k \notin I
    <3>1. ss[k] = <<>>
      BY <1>1, <1>4, <2>3
    <3> QED BY <2>1, <2>3, <3>1, ConcatEmptySeq
  <2> QED BY <2>2, <2>3
<1> QED BY <1>3, <1>5, <1>6, <1>7 DEF Gathers

\* Taking the entries of an interval is cutting it out.
LEMMA TakenInterval ==
    ASSUME NEW T, NEW s \in Seq(T), NEW lo \in 1 .. Len(s) + 1, NEW hi \in 0 .. Len(s),
           lo <= hi + 1
    PROVE  Taken(s, lo .. hi) = [j \in 1 .. (hi + 1) - lo |-> s[(lo + j) - 1]]
<1>1. DOMAIN s = 1 .. Len(s) /\ Len(s) \in Nat /\ \A k \in DOMAIN s : s[k] \in T
  OBVIOUS
<1>2. PICK f \in [0 .. Len(s) -> Seq(T)] :
              /\ f[0] = <<>>
              /\ \A k \in 1 .. Len(s) : f[k] = IF k \in lo .. hi THEN Append(f[k - 1], s[k]) ELSE f[k - 1]
              /\ f[Len(s)] = Taken(s, lo .. hi)
  <2>1. \A k \in DOMAIN s : k \in lo .. hi => s[k] \in T
    BY <1>1
  <2>2. \E f \in [0 .. Len(s) -> Seq(T)] : Gathers(f, s, lo .. hi)
    BY <2>1, TakenSteps
  <2> QED BY <2>2 DEF Gathers
<1> DEFINE Size(n) == IF n < lo THEN 0 ELSE IF n <= hi THEN (n + 1) - lo ELSE (hi + 1) - lo
           S == {n \in 0 .. Len(s) :
                    /\ Len(f[n]) = Size(n)
                    /\ \A j \in 1 .. Size(n) : f[n][j] = s[(lo + j) - 1]}
<1>3. 0 \in S
  BY <1>1, <1>2
<1>4. ASSUME NEW n \in 0 .. Len(s), n < Len(s) /\ n \in S PROVE n + 1 \in S
  <2> DEFINE m == n + 1
  <2>1. m \in 1 .. Len(s) /\ m - 1 = n /\ m \in Nat /\ m \in 0 .. Len(s)
    BY <1>1, <1>4
  <2>2. Size(m) = (IF m \in lo .. hi THEN Size(n) + 1 ELSE Size(n)) /\ Size(n) \in Nat
    BY <1>1
  <2>3. m \in lo .. hi => (lo + Size(m)) - 1 = m
    BY <1>1
  <2> HIDE DEF m, Size
  <2>4. f[m] = IF m \in lo .. hi THEN Append(f[n], s[m]) ELSE f[n]
    BY <1>2, <2>1
  <2>5. f[n] \in Seq(T) /\ s[m] \in T /\ Len(f[n]) = Size(n)
    BY <1>1, <1>2, <1>4, <2>1
  <2>6. CASE m \in lo .. hi
    <3>1. f[m] = Append(f[n], s[m]) /\ Size(m) = Size(n) + 1 /\ s[(lo + Size(m)) - 1] = s[m]
      BY <2>2, <2>3, <2>4, <2>6
    <3>2. /\ Len(f[m]) = Size(n) + 1
          /\ \A j \in 1 .. Size(n) : f[m][j] = f[n][j]
          /\ f[m][Size(n) + 1] = s[m]
      BY <3>1, <2>5, AppendProperties
    <3>3. ASSUME NEW j \in 1 .. Size(m) PROVE f[m][j] = s[(lo + j) - 1]
      <4>1. CASE j = Size(m)
        BY <3>1, <3>2, <4>1
      <4>2. CASE j # Size(m)
        <5>1. j \in 1 .. Size(n)
          BY <2>2, <3>1, <4>2
        <5> QED BY <1>4, <3>2, <5>1
      <4> QED BY <4>1, <4>2
    <3>4. m \in S
      BY <2>1, <3>1, <3>2, <3>3
    <3> QED BY <3>4 DEF m
  <2>7. CASE m \notin lo .. hi
    <3>1. f[m] = f[n] /\ Size(m) = Size(n)
      BY <2>2, <2>4, <2>7
    <3>2. m \in S
      BY <1>4, <2>1, <3>1
    <3> QED BY <3>2 DEF m
  <2> QED BY <2>6, <2>7
<1>5. Len(s) \in S
  <2>1. \A n \in 0 .. Len(s) : n \in S
    <3> HIDE DEF S
    <3> QED BY <1>1, <1>3, <1>4, Climb
  <2> HIDE DEF S
  <2> QED BY <1>1, <2>1
<1>6. Size(Len(s)) = (hi + 1) - lo
  BY <1>1
<1> HIDE DEF Size
<1>7. /\ Taken(s, lo .. hi) \in Seq(T) /\ Len(Taken(s, lo .. hi)) = (hi + 1) - lo
      /\ \A j \in 1 .. (hi + 1) - lo : Taken(s, lo .. hi)[j] = s[(lo + j) - 1]
  BY <1>1, <1>2, <1>5, <1>6
<1> HIDE DEF S
<1>8. Taken(s, lo .. hi) = [j \in DOMAIN Taken(s, lo .. hi) |-> Taken(s, lo .. hi)[j]]
  BY <1>7
<1>9. DOMAIN Taken(s, lo .. hi) = 1 .. (hi + 1) - lo
  BY <1>7
<1> QED BY <1>7, <1>8, <1>9

----------------------------------------------------------------------------
(***************************************************************************)
(* Bindings: what get_gpio writes into the table, and what is read back.   *)
(***************************************************************************)

\* The elements of an array that are not x, and those that are there.
Without(array, x) == Selected(array, LAMBDA v : v # x)
Valid(array) == Without(array, Missing)

\* They are values, if the others are.
LEMMA WithoutValues ==
    ASSUME NEW V, NEW x, NEW array \in Seq(V \union {x})
    PROVE  Without(array, x) \in Seq(V)
<1> DEFINE I == {k \in DOMAIN array : array[k] # x}
<1>1. \A k \in DOMAIN array : k \in I => array[k] \in V
  OBVIOUS
<1>2. Without(array, x) = Taken(array, I)
  BY DEF Without, Selected, Taken
<1> HIDE DEF I
<1>3. PICK f \in [0 .. Len(array) -> Seq(V)] : Gathers(f, array, I)
  BY <1>1, TakenSteps
<1> QED BY <1>2, <1>3 DEF Gathers

LEMMA ValidValues ==
    ASSUME NEW V, NEW array \in Seq(V \union {Missing})
    PROVE  Valid(array) \in Seq(V)
BY WithoutValues DEF Valid

\* A single value is there or not.
LEMMA WithoutSingle ==
    ASSUME NEW V, NEW v \in V, NEW x
    PROVE  Without(<<v>>, x) = IF v = x THEN <<>> ELSE <<v>>
<1>1. <<v>> \in Seq(V) /\ Len(<<v>>) = 1 /\ <<v>>[1] = v /\ DOMAIN <<v>> = 1 .. 1
  OBVIOUS
<1>2. CASE v = x
  <2>1. Without(<<v>>, x) = Taken(<<v>>, 1 .. 0)
    <3>1. [k \in DOMAIN <<v>> |-> IF <<v>>[k] # x THEN <<<<v>>[k]>> ELSE <<>>]
              = [k \in DOMAIN <<v>> |-> IF k \in 1 .. 0 THEN <<<<v>>[k]>> ELSE <<>>]
      BY <1>1, <1>2
    <3> QED BY <3>1 DEF Without, Selected, Taken
  <2>2. Taken(<<v>>, 1 .. 0) = [j \in 1 .. (0 + 1) - 1 |-> <<v>>[(1 + j) - 1]]
    <3> DEFINE s == <<v>>
    <3>1. s \in Seq(V) /\ 0 \in 0 .. Len(s) /\ 1 \in 1 .. Len(s) + 1 /\ 1 <= 0 + 1
      BY <1>1
    <3> HIDE DEF s
    <3>2. Taken(s, 1 .. 0) = [j \in 1 .. (0 + 1) - 1 |-> s[(1 + j) - 1]]
      BY <3>1, TakenInterval
    <3> QED BY <3>2 DEF s
  <2>3. [j \in 1 .. (0 + 1) - 1 |-> <<v>>[(1 + j) - 1]] = <<>>
    OBVIOUS
  <2> QED BY <1>2, <2>1, <2>2, <2>3
<1>3. CASE v # x
  <2>1. Without(<<v>>, x) = Taken(<<v>>, 1 .. 1)
    <3>1. [k \in DOMAIN <<v>> |-> IF <<v>>[k] # x THEN <<<<v>>[k]>> ELSE <<>>]
              = [k \in DOMAIN <<v>> |-> IF k \in 1 .. 1 THEN <<<<v>>[k]>> ELSE <<>>]
      BY <1>1, <1>3
    <3> QED BY <3>1 DEF Without, Selected, Taken
  <2>2. Taken(<<v>>, 1 .. 1) = [j \in 1 .. (1 + 1) - 1 |-> <<v>>[(1 + j) - 1]]
    <3> DEFINE s == <<v>>
    <3>1. s \in Seq(V) /\ 1 \in 0 .. Len(s) /\ 1 \in 1 .. Len(s) + 1 /\ 1 <= 1 + 1
      BY <1>1
    <3> HIDE DEF s
    <3>2. Taken(s, 1 .. 1) = [j \in 1 .. (1 + 1) - 1 |-> s[(1 + j) - 1]]
      BY <3>1, TakenInterval
    <3> QED BY <3>2 DEF s
  <2>3. [j \in 1 .. (1 + 1) - 1 |-> <<v>>[(1 + j) - 1]] = <<v>>
    <3> DEFINE g == [j \in 1 .. (1 + 1) - 1 |-> <<v>>[(1 + j) - 1]]
    <3>1. g \in [1 .. 1 -> V] /\ g[1] = v
      BY <1>1
    <3>2. g \in Seq(V) /\ Len(g) = 1
      BY <3>1
    <3> HIDE DEF g
    <3>3. g = <<v>>
      BY <1>1, <3>1, <3>2, SeqEqual
    <3> QED BY <3>3 DEF g
  <2> QED BY <1>3, <2>1, <2>2, <2>3
<1> QED BY <1>2, <1>3

\* The first entry of a list, or e.
LEMMA FirstOrElse ==
    ASSUME NEW T, NEW t \in Seq(T), NEW e \in T
    PROVE  Head(Append(t, e)) = IF Len(t) = 0 THEN e ELSE t[1]
<1> DEFINE r == Append(t, e)
<1>1. /\ r \in Seq(T) /\ Len(r) = Len(t) + 1 /\ r[Len(t) + 1] = e /\ Len(t) \in Nat
      /\ \A k \in 1 .. Len(t) : r[k] = t[k]
  BY AppendProperties
<1> HIDE DEF r
<1>2. Head(r) = r[1]
  BY <1>1
<1>3. CASE Len(t) = 0
  BY <1>1, <1>2, <1>3 DEF r
<1>4. CASE Len(t) # 0
  <2>1. 1 \in 1 .. Len(t)
    BY <1>1, <1>4
  <2> QED BY <1>1, <1>2, <1>4, <2>1 DEF r
<1> QED BY <1>3, <1>4

\* The values a member gives, and the parameters of a table.
Given(member, old) ==
    IF member.array # Missing THEN Valid(member.array) ELSE <<SingleOf(member, old)>>

Key == {"chip", "line", "line_chip", "direction", "active_low", "other"}
Value == Chip \union {NoChip} \union Offset \union Nat \union BOOLEAN
AnyParameter == [key : Key, value : Value]

\* A table whose parameters hold what their keys want.
IsTable(s) == s \in Seq(AnyParameter) /\ \A k \in 1 .. Len(s) : IsParameter(s[k])

\* r is params and behind it the first a of the values ...
Behind(r, params, key, vals, a) ==
    /\ r \in Seq(AnyParameter)
    /\ Len(r) = Len(params) + a
    /\ \A i \in 1 .. Len(params) : r[i] = params[i]
    /\ \A j \in 1 .. a : r[Len(params) + j] = Parameter(key, vals[j])

\* ... all of them unless the table is full, at least one if there is any
\* place, and then no more than it has places.
Extended(r, params, key, vals, a) ==
    /\ a \in 0 .. Len(vals)
    /\ Behind(r, params, key, vals, a)
    /\ Len(params) + Len(vals) <= MaxParameters => a = Len(vals)
    /\ Len(params) < MaxParameters => /\ Len(params) + a <= MaxParameters
                                      /\ Len(vals) > 0 => a > 0

\* The parameters of the first a values of a key.
Block(key, vals, a) == [k \in 1 .. a |-> Parameter(key, vals[k])]

\* Parameters behind parameters.
LEMMA BlockBehind ==
    ASSUME NEW params \in Seq(AnyParameter),
           NEW key \in Key,
           NEW vals \in Seq(Value), NEW a \in 0 .. Len(vals), NEW r,
           r = params \o Block(key, vals, a)
    PROVE  Behind(r, params, key, vals, a)
<1> DEFINE t == Block(key, vals, a)
<1>1. Len(vals) \in Nat /\ a \in Nat /\ \A k \in 1 .. a : vals[k] \in Value
  OBVIOUS
<1>2. \A k \in 1 .. a : Parameter(key, vals[k]) \in AnyParameter
  BY <1>1 DEF Parameter, AnyParameter
<1>3. t \in Seq(AnyParameter) /\ Len(t) = a /\ \A k \in 1 .. a : t[k] = Parameter(key, vals[k])
  BY <1>1, <1>2 DEF Block
<1> HIDE DEF t
<1>4. /\ params \o t \in Seq(AnyParameter)
      /\ Len(params \o t) = Len(params) + a
      /\ \A i \in 1 .. Len(params) : (params \o t)[i] = params[i]
      /\ \A j \in 1 .. a : (params \o t)[Len(params) + j] = t[j]
  <2>1. Len(params) \in Nat
    OBVIOUS
  <2>2. /\ params \o t \in Seq(AnyParameter) /\ Len(params \o t) = Len(params) + a
        /\ \A i \in 1 .. Len(params) + a :
              (params \o t)[i] = IF i <= Len(params) THEN params[i] ELSE t[i - Len(params)]
    BY <1>3, ConcatProperties
  <2>3. ASSUME NEW j \in 1 .. a PROVE (params \o t)[Len(params) + j] = t[j]
    <3>1. Len(params) + j \in 1 .. Len(params) + a /\ ~(Len(params) + j <= Len(params))
          /\ (Len(params) + j) - Len(params) = j
      BY <1>1, <2>1
    <3> QED BY <2>2, <3>1
  <2> QED BY <1>1, <2>1, <2>2, <2>3
<1> QED BY <1>3, <1>4 DEF t, Behind

\* An array takes what room there is.
LEMMA FilledExtends ==
    ASSUME NEW params \in Seq(AnyParameter), NEW V,
           NEW key \in Key,
           V \subseteq Value,
           NEW array \in Seq(V \union {Missing})
    PROVE  \E a \in 0 .. Len(Valid(array)) :
              Extended(Filled(params, key, array), params, key, Valid(array), a)
<1> DEFINE vals == Valid(array)
           room == MaxParameters - Len(params)
<1>1. vals \in Seq(V)
  BY ValidValues
<1>2. Filled(params, key, array)
          = params \o [k \in {m \in DOMAIN vals : m <= room} |-> Parameter(key, vals[k])]
  BY DEF Filled, Valid, Without
<1>3. MaxParameters \in Nat /\ Len(params) \in Nat
  BY BindingAssumption
<1> HIDE DEF vals
<1>4. Len(vals) \in Nat /\ DOMAIN vals = 1 .. Len(vals) /\ vals \in Seq(Value)
  BY <1>1, SeqMonotonic
<1>5. PICK a \in 0 .. Len(vals) :
          /\ {m \in DOMAIN vals : m <= room} = 1 .. a
          /\ Len(params) + Len(vals) <= MaxParameters => a = Len(vals)
          /\ Len(params) < MaxParameters => /\ Len(params) + a <= MaxParameters
                                            /\ Len(vals) > 0 => a > 0
  <2> DEFINE n == IF room < 0 THEN 0 ELSE IF room < Len(vals) THEN room ELSE Len(vals)
  <2>1. /\ n \in 0 .. Len(vals) /\ {m \in DOMAIN vals : m <= room} = 1 .. n
        /\ Len(params) + Len(vals) <= MaxParameters => n = Len(vals)
        /\ Len(params) < MaxParameters => /\ Len(params) + n <= MaxParameters
                                          /\ Len(vals) > 0 => n > 0
    BY <1>3, <1>4
  <2> QED BY <2>1
<1> HIDE DEF room
<1>6. Filled(params, key, array) = params \o Block(key, vals, a)
  BY <1>2, <1>5 DEF Block
<1>7. PICK r : r = params \o Block(key, vals, a)
  OBVIOUS
<1>8. Behind(r, params, key, vals, a)
  BY <1>4, <1>7, BlockBehind
<1>9. Extended(r, params, key, vals, a)
  BY <1>5, <1>8 DEF Extended
<1> QED BY <1>6, <1>7, <1>9 DEF vals

\* A member gives values, and the table takes them.
LEMMA MemberExtends ==
    ASSUME NEW params \in Seq(AnyParameter), NEW V, NEW old \in V,
           NEW key \in Key,
           V \subseteq Value,
           NEW member, IsMember(member, V)
    PROVE  /\ Given(member, old) \in Seq(V)
           /\ \E a \in 0 .. Len(Given(member, old)) :
                 Extended(Member(params, key, member, old), params, key, Given(member, old), a)
<1>1. CASE member.array # Missing
  <2>1. member.array \in Seq(V \union {Missing})
    BY <1>1 DEF IsMember
  <2>2. Given(member, old) = Valid(member.array)
        /\ Member(params, key, member, old) = Filled(params, key, member.array)
    BY <1>1 DEF Given, Member
  <2> QED BY <2>1, <2>2, ValidValues, FilledExtends
<1>2. CASE member.array = Missing
  <2> DEFINE v == SingleOf(member, old)
  <2>1. v \in V
    BY DEF IsMember, SingleOf
  <2>2. Given(member, old) = <<v>>
        /\ Member(params, key, member, old) = Append(params, Parameter(key, v))
    BY <1>2 DEF Given, Member
  <2> HIDE DEF v
  <2>3. Parameter(key, v) \in AnyParameter
    BY <2>1 DEF Parameter, AnyParameter
  <2>4. <<v>> \in Seq(V) /\ Len(<<v>>) = 1 /\ <<v>>[1] = v
    BY <2>1
  <2> DEFINE r == Append(params, Parameter(key, v))
  <2>5. /\ r \in Seq(AnyParameter) /\ Len(r) = Len(params) + 1 /\ Len(params) \in Nat
        /\ \A i \in 1 .. Len(params) : r[i] = params[i]
        /\ r[Len(params) + 1] = Parameter(key, v)
    BY <2>3, AppendProperties
  <2> HIDE DEF r
  <2>6. Extended(r, params, key, <<v>>, 1)
    BY <2>4, <2>5, BindingAssumption DEF Extended, Behind
  <2> QED BY <2>2, <2>4, <2>6 DEF r
<1> QED BY <1>1, <1>2

\* What a binding gives for each key.
ChipOf(b) == IF b.chip = Missing THEN NoChip ELSE b.chip
LineValues(b) == Given(b.line, 0)
ChipValues(b) == Valid(b.lines_chip)
DirectionValues(b) == Given(b.direction, 0)
LowValues(b) == Given(b.active_low, FALSE)

\* The table s has the values of b one key after the other, the lines up to
\* place e1, their chips up to e2, the directions up to e3.
LaidOut(s, b, e1, e2, e3) ==
    /\ s \in Seq(AnyParameter)
    /\ e1 \in 1 .. Len(s) /\ e2 \in e1 .. Len(s) /\ e3 \in e2 .. Len(s)
    /\ s[1] = Parameter("chip", ChipOf(b))
    /\ \A j \in 1 .. e1 - 1 : s[1 + j] = Parameter("line", LineValues(b)[j])
    /\ \A j \in 1 .. e2 - e1 : s[e1 + j] = Parameter("line_chip", ChipValues(b)[j])
    /\ \A j \in 1 .. e3 - e2 : s[e2 + j] = Parameter("direction", DirectionValues(b)[j])
    /\ \A j \in 1 .. Len(s) - e3 : s[e3 + j] = Parameter("active_low", LowValues(b)[j])
    /\ e1 - 1 <= Len(LineValues(b)) /\ e2 - e1 <= Len(ChipValues(b))
    /\ e3 - e2 <= Len(DirectionValues(b)) /\ Len(s) - e3 <= Len(LowValues(b))
    /\ Fits(b) => /\ e1 - 1 = Len(LineValues(b)) /\ e2 - e1 = Len(ChipValues(b))
                  /\ Len(LowValues(b)) > 0 => e3 < Len(s)
                  /\ Len(s) <= MaxParameters

\* Each key has its own values.
LEMMA ValuesTyped ==
    ASSUME NEW b, IsBinding(b)
    PROVE  /\ ChipOf(b) \in Chip \union {NoChip}
           /\ LineValues(b) \in Seq(Offset) /\ ChipValues(b) \in Seq(Chip \union {NoChip})
           /\ DirectionValues(b) \in Seq(Nat) /\ LowValues(b) \in Seq(BOOLEAN)
<1>1. /\ b.chip \in Chip \union {NoChip, Missing}
      /\ b.lines_chip \in Seq(Chip \union {NoChip, Missing})
      /\ IsMember(b.line, Offset) /\ IsMember(b.direction, Nat) /\ IsMember(b.active_low, BOOLEAN)
  BY DEF IsBinding
<1>2. ChipOf(b) \in Chip \union {NoChip}
  BY <1>1 DEF ChipOf
<1>3. ChipValues(b) \in Seq(Chip \union {NoChip})
  <2> DEFINE V == Chip \union {NoChip}
  <2>1. V \union {Missing} = Chip \union {NoChip, Missing}
    OBVIOUS
  <2>2. b.lines_chip \in Seq(V \union {Missing})
    BY <1>1, <2>1
  <2> HIDE DEF V
  <2>3. ChipValues(b) \in Seq(V)
    BY <2>2, ValidValues DEF ChipValues
  <2> QED BY <2>3 DEF V
<1>4. ASSUME NEW V, NEW old \in V, NEW member, IsMember(member, V)
      PROVE  Given(member, old) \in Seq(V)
  <2>1. CASE member.array # Missing
    <3>1. member.array \in Seq(V \union {Missing})
      BY <1>4, <2>1 DEF IsMember
    <3> QED BY <2>1, <3>1, ValidValues DEF Given
  <2>2. CASE member.array = Missing
    <3>1. SingleOf(member, old) \in V
      BY <1>4 DEF IsMember, SingleOf
    <3>2. Given(member, old) = <<SingleOf(member, old)>>
      BY <2>2 DEF Given
    <3> QED BY <3>1, <3>2
  <2> QED BY <2>1, <2>2
<1>5. 0 \in Offset /\ 0 \in Nat /\ FALSE \in BOOLEAN
  BY GpioAssumption
<1>6. LineValues(b) \in Seq(Offset)
  BY <1>1, <1>4, <1>5 DEF LineValues
<1>7. DirectionValues(b) \in Seq(Nat)
  BY <1>1, <1>4, <1>5 DEF DirectionValues
<1>8. LowValues(b) \in Seq(BOOLEAN)
  BY <1>1, <1>4, <1>5 DEF LowValues
<1> QED BY <1>2, <1>3, <1>6, <1>7, <1>8

\* get_gpio lays the table out so.
LEMMA ParametersLaidOut ==
    ASSUME NEW b, IsBinding(b)
    PROVE  \E e1, e2, e3 \in Nat : LaidOut(Parameters(b), b, e1, e2, e3)
<1> DEFINE p1 == <<Parameter("chip", ChipOf(b))>>
           p2 == Member(p1, "line", b.line, 0)
           p3 == Filled(p2, "line_chip", b.lines_chip)
           p4 == Member(p3, "direction", b.direction, 0)
           p5 == Member(p4, "active_low", b.active_low, FALSE)
<1>0. Parameters(b) = p5
  BY DEF Parameters, ChipOf
<1>1. p1 \in Seq(AnyParameter) /\ Len(p1) = 1 /\ p1[1] = Parameter("chip", ChipOf(b))
  <2>1. Parameter("chip", ChipOf(b)) \in AnyParameter
    BY ValuesTyped DEF Parameter, AnyParameter, Key, Value
  <2> HIDE DEF Parameter, AnyParameter
  <2> QED BY <2>1
<1>18. 0 \in Offset /\ IsMember(b.line, Offset) /\ IsMember(b.direction, Nat)
      /\ IsMember(b.active_low, BOOLEAN)
  BY GpioAssumption DEF IsBinding
<1>19. /\ Offset \subseteq Value /\ Nat \subseteq Value /\ BOOLEAN \subseteq Value
      /\ {"chip", "line", "line_chip", "direction", "active_low"} \subseteq Key
  BY DEF Value, Key
<1>20. 0 \in Nat /\ FALSE \in BOOLEAN
  OBVIOUS
<1> HIDE DEF p1
<1>2. PICK a2 \in 0 .. Len(LineValues(b)) : Extended(p2, p1, "line", LineValues(b), a2)
  BY <1>1, <1>18, <1>19, MemberExtends DEF LineValues
<1> HIDE DEF p2
<1>3. PICK a3 \in 0 .. Len(ChipValues(b)) : Extended(p3, p2, "line_chip", ChipValues(b), a3)
  <2> DEFINE V == Chip \union {NoChip}
  <2>1. V \union {Missing} = Chip \union {NoChip, Missing}
    OBVIOUS
  <2>2. b.lines_chip \in Seq(V \union {Missing})
    BY <2>1 DEF IsBinding
  <2>3. V \subseteq Value
    BY DEF Value
  <2>4. p2 \in Seq(AnyParameter)
    BY <1>2 DEF Extended, Behind
  <2> HIDE DEF V
  <2> QED BY <1>19, <2>2, <2>3, <2>4, FilledExtends DEF ChipValues
<1> HIDE DEF p3
<1>4. PICK a4 \in 0 .. Len(DirectionValues(b)) :
          Extended(p4, p3, "direction", DirectionValues(b), a4)
  <2>1. p3 \in Seq(AnyParameter)
    BY <1>3 DEF Extended, Behind
  <2> QED BY <1>18, <1>19, <1>20, <2>1, MemberExtends DEF DirectionValues
<1> HIDE DEF p4
<1>5. PICK a5 \in 0 .. Len(LowValues(b)) : Extended(p5, p4, "active_low", LowValues(b), a5)
  <2>1. p4 \in Seq(AnyParameter)
    BY <1>4 DEF Extended, Behind
  <2> QED BY <1>18, <1>19, <1>20, <2>1, MemberExtends DEF LowValues
<1> HIDE DEF p5
<1>6. /\ Len(LineValues(b)) \in Nat /\ Len(ChipValues(b)) \in Nat
      /\ Len(DirectionValues(b)) \in Nat /\ Len(LowValues(b)) \in Nat
      /\ MaxParameters \in Nat
  BY ValuesTyped, LenProperties, BindingAssumption
<1> DEFINE e1 == 1 + a2
           e2 == e1 + a3
           e3 == e2 + a4
<1>7. /\ Len(p2) = e1 /\ Len(p3) = e2 /\ Len(p4) = e3 /\ Len(p5) = e3 + a5
      /\ a2 \in Nat /\ a3 \in Nat /\ a4 \in Nat /\ a5 \in Nat
  BY <1>1, <1>2, <1>3, <1>4, <1>5, <1>6 DEF Extended, Behind
<1>8. /\ \A i \in 1 .. 1 : p2[i] = p1[i]
      /\ \A i \in 1 .. e1 : p3[i] = p2[i]
      /\ \A i \in 1 .. e2 : p4[i] = p3[i]
      /\ \A i \in 1 .. e3 : p5[i] = p4[i]
  BY <1>1, <1>2, <1>3, <1>4, <1>5, <1>7 DEF Extended, Behind
<1>9. /\ \A j \in 1 .. a2 : p2[1 + j] = Parameter("line", LineValues(b)[j])
      /\ \A j \in 1 .. a3 : p3[e1 + j] = Parameter("line_chip", ChipValues(b)[j])
      /\ \A j \in 1 .. a4 : p4[e2 + j] = Parameter("direction", DirectionValues(b)[j])
      /\ \A j \in 1 .. a5 : p5[e3 + j] = Parameter("active_low", LowValues(b)[j])
  BY <1>1, <1>2, <1>3, <1>4, <1>5, <1>7 DEF Extended, Behind
<1>10. p5[1] = Parameter("chip", ChipOf(b))
  <2>1. 1 \in 1 .. 1 /\ 1 \in 1 .. e1 /\ 1 \in 1 .. e2 /\ 1 \in 1 .. e3
    BY <1>7
  <2> HIDE DEF Parameter
  <2> QED BY <1>1, <1>8, <2>1
<1>11. ASSUME NEW j \in 1 .. a2 PROVE p5[1 + j] = Parameter("line", LineValues(b)[j])
  <2>1. 1 + j \in 1 .. e1 /\ 1 + j \in 1 .. e2 /\ 1 + j \in 1 .. e3
    BY <1>7
  <2> QED BY <1>8, <1>9, <2>1
<1>12. ASSUME NEW j \in 1 .. a3 PROVE p5[e1 + j] = Parameter("line_chip", ChipValues(b)[j])
  <2>1. e1 + j \in 1 .. e2 /\ e1 + j \in 1 .. e3
    BY <1>7
  <2> QED BY <1>8, <1>9, <2>1
<1>13. ASSUME NEW j \in 1 .. a4 PROVE p5[e2 + j] = Parameter("direction", DirectionValues(b)[j])
  <2>1. e2 + j \in 1 .. e3
    BY <1>7
  <2> QED BY <1>8, <1>9, <2>1
<1>14. ASSUME Fits(b)
       PROVE  /\ a2 = Len(LineValues(b)) /\ a3 = Len(ChipValues(b))
              /\ Len(LowValues(b)) > 0 => a5 > 0
              /\ Len(p5) <= MaxParameters
  <2>1. /\ Len(LineValues(b)) = (IF b.line.array # Missing THEN Len(Valid(b.line.array)) ELSE 1)
        /\ Len(DirectionValues(b))
              = (IF b.direction.array # Missing THEN Len(Valid(b.direction.array)) ELSE 1)
    <3>1. ASSUME NEW x PROVE Len(<<x>>) = 1
      OBVIOUS
    <3> QED BY <3>1 DEF LineValues, DirectionValues, Given
  <2>2. 1 + Len(LineValues(b)) + Len(ChipValues(b)) + Len(DirectionValues(b)) < MaxParameters
    BY <1>14, <2>1 DEF Fits, Valid, Without, ChipValues
  <2>3. a2 = Len(LineValues(b))
    BY <1>1, <1>2, <1>6, <2>2 DEF Extended, Behind
  <2>4. a3 = Len(ChipValues(b))
    BY <1>3, <1>6, <1>7, <2>2, <2>3 DEF Extended, Behind
  <2>5. a4 = Len(DirectionValues(b))
    BY <1>4, <1>6, <1>7, <2>2, <2>3, <2>4 DEF Extended, Behind
  <2>6. Len(p4) < MaxParameters
    BY <1>6, <1>7, <2>2, <2>3, <2>4, <2>5
  <2> QED BY <1>5, <1>7, <2>3, <2>4, <2>6 DEF Extended, Behind
<1>15. p5 \in Seq(AnyParameter)
  BY <1>5 DEF Extended, Behind
<1> HIDE DEF Parameter
<1>16. LaidOut(p5, b, e1, e2, e3)
  <2>1. e1 - 1 = a2 /\ e2 - e1 = a3 /\ e3 - e2 = a4 /\ Len(p5) - e3 = a5
    BY <1>7
  <2>2. e1 \in 1 .. Len(p5) /\ e2 \in e1 .. Len(p5) /\ e3 \in e2 .. Len(p5)
    BY <1>7
  <2>3. /\ a2 <= Len(LineValues(b)) /\ a3 <= Len(ChipValues(b))
        /\ a4 <= Len(DirectionValues(b)) /\ a5 <= Len(LowValues(b))
    BY <1>6
  <2>4. a5 > 0 => e3 < Len(p5)
    BY <1>7
  <2> HIDE DEF e1, e2, e3
  <2> QED BY <1>9, <1>10, <1>11, <1>12, <1>13, <1>14, <1>15, <2>1, <2>2, <2>3, <2>4
          DEF LaidOut
<1>17. e1 \in Nat /\ e2 \in Nat /\ e3 \in Nat
  BY <1>7
<1> HIDE DEF e1, e2, e3
<1> QED BY <1>0, <1>16, <1>17

Cut(n) == IF n > MaxLines THEN MaxLines ELSE n

\* The first n values of a list, and those of the parameters behind place lo.
First(v, n) == [j \in 1 .. n |-> v[j]]
ValuesBehind(s, lo, n) == [j \in 1 .. n |-> s[(lo + j) - 1].value]

\* Reading a key whose parameters stand together.
LEMMA ValuesRead ==
    ASSUME NEW s \in Seq(AnyParameter), NEW key,
           NEW lo \in 1 .. Len(s) + 1, NEW hi \in 0 .. Len(s), lo <= hi + 1,
           \A k \in 1 .. Len(s) : s[k].key = key <=> k \in lo .. hi
    PROVE  ValuesOf(s, key) = ValuesBehind(s, lo, Cut((hi + 1) - lo))
<1> DEFINE n == (hi + 1) - lo
           found == Selected(s, LAMBDA p : p.key = key)
<1>1. DOMAIN s = 1 .. Len(s) /\ Len(s) \in Nat /\ n \in Nat /\ MaxLines \in Nat
  BY GpioAssumption
<1>2. found = Taken(s, lo .. hi)
  <2>1. [k \in DOMAIN s |-> IF s[k].key = key THEN <<s[k]>> ELSE <<>>]
            = [k \in DOMAIN s |-> IF k \in lo .. hi THEN <<s[k]>> ELSE <<>>]
    BY <1>1
  <2> QED BY <2>1 DEF Selected, Taken
<1>3. found = [j \in 1 .. n |-> s[(lo + j) - 1]]
  BY <1>2, TakenInterval
<1>4. ValuesOf(s, key) = [k \in 1 .. Cut(Len(found)) |-> found[k].value]
  BY DEF ValuesOf, Cut
<1> HIDE DEF found
<1>5. Len(found) = n
  BY <1>1, <1>3
<1>6. Cut(n) \in 0 .. n
  BY <1>1 DEF Cut
<1>7. \A k \in 1 .. Cut(n) : found[k].value = s[(lo + k) - 1].value
  <2>1. \A k \in 1 .. Cut(n) : k \in 1 .. n
    BY <1>1, <1>6
  <2> HIDE DEF n
  <2> QED BY <1>3, <2>1
<1> HIDE DEF n
<1>8. ValuesOf(s, key) = [k \in 1 .. Cut(n) |-> s[(lo + k) - 1].value]
  BY <1>4, <1>5, <1>7
<1> QED BY <1>8 DEF n, ValuesBehind

\* What is read back of a binding's lines and polarities: the first of them, as
\* many as the table and the arrays hold, and more than none if it fits.
LEMMA TableRead ==
    ASSUME NEW b, IsBinding(b)
    PROVE  \E n \in 0 .. Len(LineValues(b)), m \in 0 .. Len(ChipValues(b)),
              a \in 0 .. Len(LowValues(b)) :
              /\ ChipNamed(Parameters(b)) = ChipOf(b)
              /\ ValuesOf(Parameters(b), "line") = First(LineValues(b), Cut(n))
              /\ ValuesOf(Parameters(b), "line_chip") = First(ChipValues(b), Cut(m))
              /\ ValuesOf(Parameters(b), "active_low") = First(LowValues(b), Cut(a))
              /\ Fits(b) => /\ n = Len(LineValues(b)) /\ m = Len(ChipValues(b))
                            /\ Len(LowValues(b)) > 0 => a > 0
<1> DEFINE s == Parameters(b)
<1>1. PICK e1 \in Nat, e2 \in Nat, e3 \in Nat : LaidOut(s, b, e1, e2, e3)
  BY ParametersLaidOut
<1> HIDE DEF s
<1> DEFINE L == LineValues(b)
           C == ChipValues(b)
           A == LowValues(b)
           len == Len(s)
<1>2. /\ s \in Seq(AnyParameter) /\ len \in Nat
      /\ 1 <= e1 /\ e1 <= e2 /\ e2 <= e3 /\ e3 <= len
      /\ Len(L) \in Nat /\ Len(C) \in Nat /\ Len(A) \in Nat
      /\ e1 - 1 <= Len(L) /\ e2 - e1 <= Len(C) /\ len - e3 <= Len(A)
      /\ Fits(b) => /\ e1 - 1 = Len(L) /\ e2 - e1 = Len(C)
                    /\ Len(A) > 0 => e3 < len
  BY <1>1, ValuesTyped, LenProperties DEF LaidOut
<1>3. /\ s[1] = Parameter("chip", ChipOf(b))
      /\ \A j \in 1 .. e1 - 1 : s[1 + j] = Parameter("line", L[j])
      /\ \A j \in 1 .. e2 - e1 : s[e1 + j] = Parameter("line_chip", C[j])
      /\ \A j \in 1 .. e3 - e2 : s[e2 + j] = Parameter("direction", DirectionValues(b)[j])
      /\ \A j \in 1 .. len - e3 : s[e3 + j] = Parameter("active_low", A[j])
  BY <1>1 DEF LaidOut
<1> HIDE DEF L, C, A, len
<1>4. ASSUME NEW k \in 1 .. len
      PROVE  s[k].key = (IF k = 1 THEN "chip" ELSE IF k <= e1 THEN "line"
                         ELSE IF k <= e2 THEN "line_chip" ELSE IF k <= e3 THEN "direction"
                         ELSE "active_low")
  <2>1. CASE k = 1
    BY <1>3, <2>1 DEF Parameter
  <2>2. CASE k # 1 /\ k <= e1
    <3>1. k - 1 \in 1 .. e1 - 1 /\ 1 + (k - 1) = k
      BY <1>2, <2>2
    <3>2. s[k] = Parameter("line", L[k - 1])
      BY <1>3, <3>1
    <3> QED BY <2>2, <3>2 DEF Parameter
  <2>3. CASE k > e1 /\ k <= e2
    <3>1. k - e1 \in 1 .. e2 - e1 /\ e1 + (k - e1) = k
      BY <1>2, <2>3
    <3>2. s[k] = Parameter("line_chip", C[k - e1])
      BY <1>3, <3>1
    <3>3. s[k].key = "line_chip"
      BY <3>2 DEF Parameter
    <3> QED BY <1>2, <2>3, <3>3
  <2>4. CASE k > e2 /\ k <= e3
    <3>1. k - e2 \in 1 .. e3 - e2 /\ e2 + (k - e2) = k
      BY <1>2, <2>4
    <3>2. s[k] = Parameter("direction", DirectionValues(b)[k - e2])
      BY <1>3, <3>1
    <3>3. s[k].key = "direction"
      BY <3>2 DEF Parameter
    <3> QED BY <1>2, <2>4, <3>3
  <2>5. CASE k > e3
    <3>1. k - e3 \in 1 .. len - e3 /\ e3 + (k - e3) = k
      BY <1>2, <2>5
    <3>2. s[k] = Parameter("active_low", A[k - e3])
      BY <1>3, <3>1
    <3>3. s[k].key = "active_low"
      BY <3>2 DEF Parameter
    <3> QED BY <1>2, <2>5, <3>3
  <2> QED BY <1>2, <2>1, <2>2, <2>3, <2>4, <2>5
<1>5. ChipNamed(s) = ChipOf(b)
  <2> DEFINE V == Chip \union {NoChip}
  <2>1. \A k \in 1 .. len : s[k].key = "chip" <=> k \in 1 .. 1
    BY <1>4
  <2>2. ValuesOf(s, "chip") = ValuesBehind(s, 1, Cut((1 + 1) - 1))
    <3>1. 1 \in 1 .. len + 1 /\ 1 \in 0 .. len
      BY <1>2
    <3> QED BY <1>2, <2>1, <3>1, ValuesRead DEF len
  <2>3. Cut((1 + 1) - 1) = 1
    BY GpioAssumption DEF Cut
  <2>4. s[(1 + 1) - 1].value = ChipOf(b) /\ ChipOf(b) \in V
    BY <1>3, ValuesTyped DEF Parameter
  <2> HIDE DEF V
  <2>5. ValuesBehind(s, 1, 1) = <<ChipOf(b)>>
    <3> DEFINE g == ValuesBehind(s, 1, 1)
    <3>1. g \in [1 .. 1 -> V] /\ g[1] = ChipOf(b)
      BY <2>4 DEF ValuesBehind
    <3>2. g \in Seq(V) /\ Len(g) = 1 /\ <<ChipOf(b)>> \in Seq(V)
          /\ Len(<<ChipOf(b)>>) = 1 /\ <<ChipOf(b)>>[1] = ChipOf(b)
      BY <2>4, <3>1
    <3> HIDE DEF g
    <3>3. g = <<ChipOf(b)>>
      BY <3>1, <3>2, SeqEqual
    <3> QED BY <3>3 DEF g
  <2>6. ChipNamed(s) = Head(Append(Without(<<ChipOf(b)>>, NoChip), NoChip))
    BY <2>2, <2>3, <2>5 DEF ChipNamed, Without
  <2>7. CASE ChipOf(b) = NoChip
    <3>1. Without(<<ChipOf(b)>>, NoChip) = <<>>
      BY <2>4, <2>7, WithoutSingle
    <3>2. Head(Append(<<>>, NoChip)) = NoChip
      <4>1. <<>> \in Seq(V) /\ NoChip \in V /\ Len(<<>>) = 0
        BY DEF V
      <4> QED BY <4>1, FirstOrElse
    <3> QED BY <2>6, <2>7, <3>1, <3>2
  <2>8. CASE ChipOf(b) # NoChip
    <3>1. Without(<<ChipOf(b)>>, NoChip) = <<ChipOf(b)>>
      BY <2>4, <2>8, WithoutSingle
    <3>2. Head(Append(<<ChipOf(b)>>, NoChip)) = ChipOf(b)
      <4>1. <<ChipOf(b)>> \in Seq(V) /\ NoChip \in V /\ Len(<<ChipOf(b)>>) = 1
            /\ <<ChipOf(b)>>[1] = ChipOf(b)
        BY <2>4 DEF V
      <4> QED BY <4>1, FirstOrElse
    <3> QED BY <2>6, <3>1, <3>2
  <2> QED BY <2>7, <2>8
<1>6. ASSUME NEW key, NEW lo \in Nat, NEW hi \in Nat, 1 <= lo, lo <= hi, hi <= len, NEW v,
             \A k \in 1 .. len : s[k].key = key <=> k > lo /\ k <= hi,
             \A j \in 1 .. hi - lo : s[lo + j] = Parameter(key, v[j])
      PROVE  ValuesOf(s, key) = First(v, Cut(hi - lo))
  <2>1. lo + 1 \in 1 .. len + 1 /\ hi \in 0 .. len /\ lo + 1 <= hi + 1
        /\ (hi + 1) - (lo + 1) = hi - lo
    BY <1>2, <1>6
  <2>2. \A k \in 1 .. len : s[k].key = key <=> k \in lo + 1 .. hi
    <3>1. \A k \in 1 .. len : k > lo /\ k <= hi <=> k \in lo + 1 .. hi
      BY <1>2, <1>6
    <3> QED BY <1>6, <3>1
  <2>3. ValuesOf(s, key)
            = ValuesBehind(s, lo + 1, Cut((hi + 1) - (lo + 1)))
    BY <1>2, <2>1, <2>2, ValuesRead DEF len
  <2>4. \A j \in 1 .. Cut(hi - lo) : j \in 1 .. hi - lo /\ ((lo + 1) + j) - 1 = lo + j
    BY <1>2, <1>6, GpioAssumption DEF Cut
  <2>5. ASSUME NEW j \in 1 .. Cut(hi - lo)
        PROVE  s[((lo + 1) + j) - 1].value = v[j]
    <3>1. j \in 1 .. hi - lo /\ ((lo + 1) + j) - 1 = lo + j
      BY <2>4
    <3>2. s[lo + j] = Parameter(key, v[j])
      BY <1>6, <3>1
    <3>3. s[lo + j].value = v[j]
      BY <3>2 DEF Parameter
    <3> QED BY <3>1, <3>3
  <2> QED BY <2>1, <2>3, <2>5 DEF First, ValuesBehind
<1>7. ValuesOf(s, "line") = First(L, Cut(e1 - 1))
  <2>1. \A k \in 1 .. len : s[k].key = "line" <=> k > 1 /\ k <= e1
    BY <1>2, <1>4
  <2>2. 1 \in Nat /\ e1 \in Nat /\ 1 <= 1 /\ 1 <= e1 /\ e1 <= len
    BY <1>2
  <2>3. \A j \in 1 .. e1 - 1 : s[1 + j] = Parameter("line", L[j])
    BY <1>3
  <2> QED BY <1>6, <2>1, <2>2, <2>3
<1>8. ValuesOf(s, "line_chip") = First(C, Cut(e2 - e1))
  <2>1. \A k \in 1 .. len : s[k].key = "line_chip" <=> k > e1 /\ k <= e2
    BY <1>2, <1>4
  <2>2. e1 \in Nat /\ e2 \in Nat /\ 1 <= e1 /\ e1 <= e2 /\ e2 <= len
    BY <1>2
  <2>3. \A j \in 1 .. e2 - e1 : s[e1 + j] = Parameter("line_chip", C[j])
    BY <1>3
  <2> QED BY <1>6, <2>1, <2>2, <2>3
<1>9. ValuesOf(s, "active_low") = First(A, Cut(len - e3))
  <2>1. \A k \in 1 .. len : s[k].key = "active_low" <=> k > e3 /\ k <= len
    BY <1>2, <1>4
  <2>2. e3 \in Nat /\ len \in Nat /\ 1 <= e3 /\ e3 <= len /\ len <= len
    BY <1>2
  <2>3. \A j \in 1 .. len - e3 : s[e3 + j] = Parameter("active_low", A[j])
    BY <1>3
  <2> QED BY <1>6, <2>1, <2>2, <2>3
<1>10. /\ e1 - 1 \in 0 .. Len(L) /\ e2 - e1 \in 0 .. Len(C) /\ len - e3 \in 0 .. Len(A)
       /\ Fits(b) => /\ e1 - 1 = Len(L) /\ e2 - e1 = Len(C)
                     /\ Len(A) > 0 => len - e3 > 0
  BY <1>2
<1> DEFINE Read(n, m, a) ==
              /\ ChipNamed(s) = ChipOf(b)
              /\ ValuesOf(s, "line") = First(L, Cut(n))
              /\ ValuesOf(s, "line_chip") = First(C, Cut(m))
              /\ ValuesOf(s, "active_low") = First(A, Cut(a))
              /\ Fits(b) => /\ n = Len(L) /\ m = Len(C)
                            /\ Len(A) > 0 => a > 0
<1>11. Read(e1 - 1, e2 - e1, len - e3)
  BY <1>5, <1>7, <1>8, <1>9, <1>10
<1> HIDE DEF Read
<1>12. \E n \in 0 .. Len(L), m \in 0 .. Len(C), a \in 0 .. Len(A) : Read(n, m, a)
  BY <1>10, <1>11
<1> QED BY <1>12 DEF Read, s, L, C, A

\* Cutting a list short.
LEMMA FirstOf ==
    ASSUME NEW V, NEW v \in Seq(V), NEW n \in 0 .. Len(v)
    PROVE  /\ First(v, n) \in Seq(V) /\ Len(First(v, n)) = n
           /\ DOMAIN First(v, n) = 1 .. n
           /\ \A j \in 1 .. n : First(v, n)[j] = v[j]
           /\ First(v, n) = <<>> <=> n = 0
<1>1. Len(v) \in Nat /\ n \in Nat /\ \A j \in 1 .. n : v[j] \in V
  OBVIOUS
<1>2. /\ First(v, n) \in Seq(V) /\ Len(First(v, n)) = n /\ DOMAIN First(v, n) = 1 .. n
      /\ \A j \in 1 .. n : First(v, n)[j] = v[j]
  BY <1>1 DEF First
<1>3. First(v, n) = <<>> <=> n = 0
  BY <1>1, <1>2, EmptySeq
<1> QED BY <1>2, <1>3

\* The lines of a configuration, from what was read.
Entries(offsets, chips, chip) ==
    [k \in DOMAIN offsets |->
        [chip   |-> IF k \in DOMAIN chips /\ NoChip \notin {chips[1], chips[k]}
                    THEN chips[k] ELSE chip,
         offset |-> offsets[k]]]

\* What is read of a key is of the kind the key wants.
LEMMA ValuesInside ==
    ASSUME NEW s, IsTable(s), NEW key, NEW V,
           \A p : IsParameter(p) /\ p.key = key => p.value \in V
    PROVE  ValuesOf(s, key) \in Seq(V) /\ Len(ValuesOf(s, key)) <= MaxLines
<1> DEFINE I == {k \in DOMAIN s : s[k].key = key}
           P == {p \in AnyParameter : p.value \in V}
           found == Selected(s, LAMBDA p : p.key = key)
<1>1. s \in Seq(AnyParameter) /\ DOMAIN s = 1 .. Len(s) /\ MaxLines \in Nat
      /\ \A k \in DOMAIN s : s[k] \in AnyParameter /\ IsParameter(s[k])
  BY GpioAssumption DEF IsTable
<1>2. \A k \in DOMAIN s : k \in I => s[k] \in P
  BY <1>1
<1>3. found = Taken(s, I)
  <2>1. [k \in DOMAIN s |-> IF s[k].key = key THEN <<s[k]>> ELSE <<>>]
            = [k \in DOMAIN s |-> IF k \in I THEN <<s[k]>> ELSE <<>>]
    OBVIOUS
  <2> QED BY <2>1 DEF Selected, Taken
<1> HIDE DEF I
<1>4. PICK f \in [0 .. Len(s) -> Seq(P)] : Gathers(f, s, I)
  <2> HIDE DEF P
  <2> QED BY <1>1, <1>2, TakenSteps
<1>5. found \in Seq(P)
  <2> HIDE DEF P, found
  <2>1. Len(s) \in 0 .. Len(s)
    BY <1>1
  <2> QED BY <1>3, <1>4, <2>1 DEF Gathers
<1>6. ValuesOf(s, key) = [k \in 1 .. Cut(Len(found)) |-> found[k].value]
  BY DEF ValuesOf, Cut
<1> HIDE DEF found
<1>7. Len(found) \in Nat /\ Cut(Len(found)) \in 0 .. Len(found) /\ Cut(Len(found)) <= MaxLines
  BY <1>1, <1>5 DEF Cut
<1>8. \A k \in 1 .. Cut(Len(found)) : found[k].value \in V
  BY <1>5, <1>7
<1> DEFINE n == Cut(Len(found))
           g == [k \in 1 .. n |-> found[k].value]
<1>9. g \in [1 .. n -> V] /\ n \in Nat
  BY <1>7, <1>8
<1> HIDE DEF n, g
<1>10. g \in Seq(V) /\ Len(g) = n
  BY <1>9
<1> QED BY <1>6, <1>7, <1>10 DEF g, n

\* Parameters are what their keys want.
LEMMA ParametersHold ==
    /\ \A p : IsParameter(p) => p \in AnyParameter
    /\ \A p : IsParameter(p) /\ p.key = "chip" => p.value \in Chip \union {NoChip}
    /\ \A p : IsParameter(p) /\ p.key = "line" => p.value \in Offset
    /\ \A p : IsParameter(p) /\ p.key = "line_chip" => p.value \in Chip \union {NoChip}
    /\ \A p : IsParameter(p) /\ p.key = "active_low" => p.value \in BOOLEAN
    /\ \A v \in Chip \union {NoChip} : IsParameter(Parameter("chip", v))
    /\ \A v \in Offset : IsParameter(Parameter("line", v))
    /\ \A v \in Chip \union {NoChip} : IsParameter(Parameter("line_chip", v))
    /\ \A v \in Nat : IsParameter(Parameter("direction", v))
    /\ \A v \in BOOLEAN : IsParameter(Parameter("active_low", v))
<1>1. DOMAIN Holds = Key
  BY DEF Holds, Key
<1>2. /\ Holds["chip"] = Chip \union {NoChip} /\ Holds["line"] = Offset
      /\ Holds["line_chip"] = Chip \union {NoChip} /\ Holds["direction"] = Nat
      /\ Holds["active_low"] = BOOLEAN /\ Holds["other"] = {NoChip}
  BY DEF Holds
<1>3. \A p : IsParameter(p) <=> \E name \in Key : p \in [key : {name}, value : Holds[name]]
  BY <1>1 DEF IsParameter
<1>4. \A name \in Key : Holds[name] \subseteq Value
  BY <1>2 DEF Key, Value
<1>5. ASSUME NEW p, IsParameter(p)
      PROVE  p \in AnyParameter /\ p.value \in Holds[p.key]
  <2>1. PICK name \in Key : p \in [key : {name}, value : Holds[name]]
    BY <1>3, <1>5
  <2> QED BY <1>4, <2>1 DEF AnyParameter
<1>6. ASSUME NEW name \in Key, NEW v \in Holds[name]
      PROVE  IsParameter(Parameter(name, v))
  <2>1. Parameter(name, v) \in [key : {name}, value : Holds[name]]
    BY DEF Parameter
  <2> QED BY <1>3, <2>1
<1>7. /\ \A v \in Chip \union {NoChip} : IsParameter(Parameter("chip", v))
      /\ \A v \in Offset : IsParameter(Parameter("line", v))
      /\ \A v \in Chip \union {NoChip} : IsParameter(Parameter("line_chip", v))
      /\ \A v \in Nat : IsParameter(Parameter("direction", v))
      /\ \A v \in BOOLEAN : IsParameter(Parameter("active_low", v))
  <2>1. {"chip", "line", "line_chip", "direction", "active_low"} \subseteq Key
    BY DEF Key
  <2> QED BY <1>2, <1>6, <2>1
<1> QED BY <1>2, <1>5, <1>7

\* get_gpio writes such parameters ...
LEMMA ParametersAreTable ==
    ASSUME NEW b, IsBinding(b)
    PROVE  IsTable(Parameters(b))
<1> DEFINE s == Parameters(b)
           L == LineValues(b)
           C == ChipValues(b)
           D == DirectionValues(b)
           A == LowValues(b)
<1>1. PICK e1 \in Nat, e2 \in Nat, e3 \in Nat : LaidOut(s, b, e1, e2, e3)
  BY ParametersLaidOut
<1> HIDE DEF s
<1>2. /\ L \in Seq(Offset) /\ C \in Seq(Chip \union {NoChip}) /\ D \in Seq(Nat)
      /\ A \in Seq(BOOLEAN) /\ ChipOf(b) \in Chip \union {NoChip}
  BY ValuesTyped
<1>3. /\ s \in Seq(AnyParameter) /\ Len(s) \in Nat
      /\ 1 <= e1 /\ e1 <= e2 /\ e2 <= e3 /\ e3 <= Len(s)
      /\ e1 - 1 <= Len(L) /\ e2 - e1 <= Len(C) /\ e3 - e2 <= Len(D) /\ Len(s) - e3 <= Len(A)
      /\ Len(L) \in Nat /\ Len(C) \in Nat /\ Len(D) \in Nat /\ Len(A) \in Nat
  BY <1>1, <1>2, LenProperties DEF LaidOut
<1>4. /\ s[1] = Parameter("chip", ChipOf(b))
      /\ \A j \in 1 .. e1 - 1 : s[1 + j] = Parameter("line", L[j])
      /\ \A j \in 1 .. e2 - e1 : s[e1 + j] = Parameter("line_chip", C[j])
      /\ \A j \in 1 .. e3 - e2 : s[e2 + j] = Parameter("direction", D[j])
      /\ \A j \in 1 .. Len(s) - e3 : s[e3 + j] = Parameter("active_low", A[j])
  BY <1>1 DEF LaidOut
<1>5. /\ \A j \in 1 .. Len(L) : L[j] \in Offset
      /\ \A j \in 1 .. Len(C) : C[j] \in Chip \union {NoChip}
      /\ \A j \in 1 .. Len(D) : D[j] \in Nat
      /\ \A j \in 1 .. Len(A) : A[j] \in BOOLEAN
  <2>1. ASSUME NEW T, NEW t \in Seq(T) PROVE \A j \in 1 .. Len(t) : t[j] \in T
    OBVIOUS
  <2> HIDE DEF L, C, D, A
  <2> QED BY <1>2, <2>1
<1> HIDE DEF L, C, D, A
<1>6. ASSUME NEW k \in 1 .. Len(s)
      PROVE  IsParameter(s[k])
  <2>1. CASE k = 1
    BY <1>2, <1>4, <2>1, ParametersHold
  <2>2. CASE k # 1 /\ k <= e1
    <3>1. k - 1 \in 1 .. e1 - 1 /\ k - 1 \in 1 .. Len(L) /\ 1 + (k - 1) = k
      BY <1>3, <2>2
    <3>2. s[k] = Parameter("line", L[k - 1])
      BY <1>4, <3>1
    <3> QED BY <1>5, <3>1, <3>2, ParametersHold
  <2>3. CASE k > e1 /\ k <= e2
    <3>1. k - e1 \in 1 .. e2 - e1 /\ k - e1 \in 1 .. Len(C) /\ e1 + (k - e1) = k
      BY <1>3, <2>3
    <3>2. s[k] = Parameter("line_chip", C[k - e1])
      BY <1>4, <3>1
    <3> QED BY <1>5, <3>1, <3>2, ParametersHold
  <2>4. CASE k > e2 /\ k <= e3
    <3>1. k - e2 \in 1 .. e3 - e2 /\ k - e2 \in 1 .. Len(D) /\ e2 + (k - e2) = k
      BY <1>3, <2>4
    <3>2. s[k] = Parameter("direction", D[k - e2])
      BY <1>4, <3>1
    <3> QED BY <1>5, <3>1, <3>2, ParametersHold
  <2>5. CASE k > e3
    <3>1. k - e3 \in 1 .. Len(s) - e3 /\ k - e3 \in 1 .. Len(A) /\ e3 + (k - e3) = k
      BY <1>3, <2>5
    <3>2. s[k] = Parameter("active_low", A[k - e3])
      BY <1>4, <3>1
    <3> QED BY <1>5, <3>1, <3>2, ParametersHold
  <2> QED BY <1>3, <2>1, <2>2, <2>3, <2>4, <2>5
<1> QED BY <1>3, <1>6 DEF IsTable, s

\* ... and the memory behind the table reads as others: however the table is
\* read, its keys have what they want.  A binding that fits is read as written.
LEMMA TablesRead ==
    ASSUME NEW b, IsBinding(b), NEW s \in Tables(b)
    PROVE  IsTable(s) /\ (Fits(b) => s = Parameters(b))
<1> DEFINE p == Parameters(b)
           m == MaxParameters
<1>1. IsTable(p) /\ p \in Seq(AnyParameter) /\ Len(p) \in Nat /\ m \in Nat
  BY ParametersAreTable, LenProperties, BindingAssumption DEF IsTable
<1>2. Fits(b) => Len(p) <= m
  <2>1. PICK e1 \in Nat, e2 \in Nat, e3 \in Nat : LaidOut(p, b, e1, e2, e3)
    BY ParametersLaidOut
  <2> QED BY <2>1 DEF LaidOut
<1>3. s \in IF Len(p) <= m THEN {p}
            ELSE {SubSeq(p, 1, m) \o q : q \in [1 .. Len(p) - m -> Stray]}
  BY DEF Tables
<1> HIDE DEF p
<1>4. CASE Len(p) <= m
  BY <1>1, <1>3, <1>4 DEF p
<1>5. CASE ~(Len(p) <= m)
  <2>1. PICK q \in [1 .. Len(p) - m -> Stray] : s = SubSeq(p, 1, m) \o q
    BY <1>3, <1>5
  <2> DEFINE n == Len(p) - m
             f == SubSeq(p, 1, m)
  <2>2. n \in Nat /\ m <= Len(p)
    BY <1>1, <1>5
  <2>3. \A k \in 1 .. n : IsParameter(q[k]) /\ q[k] \in AnyParameter
    BY <2>1, BindingAssumption, ParametersHold
  <2>4. q \in Seq(AnyParameter) /\ Len(q) = n
    BY <2>1, <2>2, <2>3
  <2>5. /\ f \in Seq(AnyParameter) /\ Len(f) = m
        /\ \A k \in 1 .. m : f[k] = p[k]
    <3>1. \A k \in 1 .. m : p[k] \in AnyParameter
      BY <1>1, <2>2
    <3> QED BY <1>1, <2>2, <3>1, SubSeqProperties
  <2> HIDE DEF n, f, m
  <2>6. /\ s \in Seq(AnyParameter) /\ Len(s) = m + n
        /\ \A k \in 1 .. m + n : s[k] = IF k <= m THEN f[k] ELSE q[k - m]
    <3>1. s = f \o q
      BY <2>1 DEF f
    <3> QED BY <2>4, <2>5, <3>1, ConcatProperties
  <2>7. ASSUME NEW k \in 1 .. Len(s)
        PROVE  IsParameter(s[k])
    <3>1. CASE k <= m
      <4>1. k \in 1 .. m /\ k \in 1 .. Len(p) /\ k \in 1 .. m + n
        BY <1>1, <2>2, <2>6, <3>1
      <4>2. s[k] = p[k]
        BY <2>5, <2>6, <3>1, <4>1
      <4> QED BY <1>1, <4>1, <4>2 DEF IsTable
    <3>2. CASE ~(k <= m)
      <4>1. k - m \in 1 .. n /\ k \in 1 .. m + n
        BY <1>1, <2>2, <2>6, <3>2
      <4>2. s[k] = q[k - m]
        BY <2>6, <3>2, <4>1
      <4> QED BY <2>3, <4>1, <4>2
    <3> QED BY <3>1, <3>2
  <2> QED BY <1>2, <1>5, <2>6, <2>7 DEF IsTable, m
<1> QED BY <1>4, <1>5

\* Every table gives a configuration the device can take.
LEMMA TableConfigured ==
    ASSUME NEW s, IsTable(s), NEW c, c = GpioConfiguration(s)
    PROVE  /\ IsConfiguration(c) /\ Adopted(c) = c
           /\ c.lines_count <= MaxLines /\ c.lines_count = Len(c.lines)
<1> DEFINE chip == ChipNamed(s)
           named == ValuesOf(s, "line")
           chips == ValuesOf(s, "line_chip")
           low == ValuesOf(s, "active_low")
           offsets == IF named = <<>> /\ chip # NoChip THEN <<0>> ELSE named
           lines_ == Entries(offsets, chips, chip)
           line_ == [chip |-> chip, offset |-> IF offsets = <<>> THEN 0 ELSE offsets[1]]
           low_ == low # <<>> /\ low[1]
<1>1. chip \in Chip \union {NoChip}
  <2> DEFINE V == Chip \union {NoChip}
             names == ValuesOf(s, "chip")
  <2>1. names \in Seq(V)
    <3> HIDE DEF names
    <3>1. \A p : IsParameter(p) /\ p.key = "chip" => p.value \in V
      BY ParametersHold
    <3> HIDE DEF V
    <3> QED BY <3>1, ValuesInside DEF names
  <2>2. V = V \union {NoChip} /\ NoChip \in V
    OBVIOUS
  <2> HIDE DEF V, names
  <2>3. Without(names, NoChip) \in Seq(V)
    BY <2>1, <2>2, WithoutValues
  <2>4. chip = Head(Append(Without(names, NoChip), NoChip))
    BY DEF ChipNamed, Without, names
  <2> DEFINE t == Without(names, NoChip)
  <2> HIDE DEF t
  <2>5. t \in Seq(V) /\ (Len(t) # 0 => t[1] \in V)
    <3>1. t \in Seq(V)
      BY <2>3 DEF t
    <3>2. Len(t) # 0 => 1 \in 1 .. Len(t)
      BY <3>1
    <3> QED BY <3>1, <3>2
  <2>6. chip = IF Len(t) = 0 THEN NoChip ELSE t[1]
    <3>1. chip = Head(Append(t, NoChip))
      BY <2>4 DEF t
    <3> QED BY <2>2, <2>5, <3>1, FirstOrElse
  <2> QED BY <2>2, <2>5, <2>6 DEF V
<1>3. MaxLines \in Nat /\ MaxLines > 0 /\ 0 \in Offset /\ NoChip \notin Chip
  BY GpioAssumption
<1>5. c = [lines_count |-> Len(offsets), lines |-> lines_, line |-> line_, active_low |-> low_]
  BY DEF GpioConfiguration, Entries
<1>6. named \in Seq(Offset) /\ Len(named) \in Nat /\ Len(named) <= MaxLines
      /\ (named = <<>> <=> Len(named) = 0) /\ DOMAIN named = 1 .. Len(named)
  <2>1. named \in Seq(Offset) /\ Len(named) <= MaxLines
    <3>1. \A p : IsParameter(p) /\ p.key = "line" => p.value \in Offset
      BY ParametersHold
    <3> QED BY <3>1, ValuesInside
  <2> HIDE DEF named
  <2> QED BY <2>1, EmptySeq, LenProperties
<1>7. chips \in Seq(Chip \union {NoChip})
  <2> DEFINE V == Chip \union {NoChip}
  <2>1. \A p : IsParameter(p) /\ p.key = "line_chip" => p.value \in V
    BY ParametersHold
  <2> HIDE DEF V
  <2>2. chips \in Seq(V)
    BY <2>1, ValuesInside
  <2> QED BY <2>2 DEF V
<1> HIDE DEF named, chips, low, chip
<1>9. <<0>> \in Seq(Offset) /\ Len(<<0>>) = 1 /\ <<0>>[1] = 0 /\ DOMAIN <<0>> = 1 .. 1
      /\ <<0>> # <<>>
  BY <1>3
<1>10. /\ offsets \in Seq(Offset) /\ Len(offsets) \in 0 .. MaxLines
       /\ DOMAIN offsets = 1 .. Len(offsets)
       /\ (offsets = <<>> <=> Len(offsets) = 0)
       /\ Len(offsets) = 0 => chip = NoChip
  <2>1. CASE named = <<>> /\ chip # NoChip
    <3>1. offsets = <<0>>
      BY <2>1
    <3> HIDE DEF offsets
    <3> QED BY <1>3, <1>9, <2>1, <3>1
  <2>2. CASE ~(named = <<>> /\ chip # NoChip)
    <3>1. offsets = named
      BY <2>2
    <3> HIDE DEF offsets
    <3> QED BY <1>3, <1>6, <2>2, <3>1
  <2> QED BY <2>1, <2>2
<1> HIDE DEF offsets
<1>11. /\ lines_ \in Seq(Entry) /\ Len(lines_) = Len(offsets)
  <2>1. ASSUME NEW k \in 1 .. Len(offsets)
        PROVE  [chip   |-> IF k \in DOMAIN chips /\ NoChip \notin {chips[1], chips[k]}
                           THEN chips[k] ELSE chip,
                offset |-> offsets[k]] \in Entry
    <3>1. offsets[k] \in Offset
      BY <1>10
    <3>2. k \in DOMAIN chips => chips[k] \in Chip \union {NoChip}
      <4>1. ASSUME NEW T, NEW t \in Seq(T) PROVE \A j \in DOMAIN t : t[j] \in T
        OBVIOUS
      <4> QED BY <1>7, <4>1
    <3> QED BY <1>1, <3>1, <3>2 DEF Entry
  <2>2. lines_ \in [1 .. Len(offsets) -> Entry]
    BY <1>10, <2>1 DEF Entries
  <2> HIDE DEF lines_
  <2> QED BY <1>10, <2>2
<1>12. line_ \in Entry
  <2>1. (IF offsets = <<>> THEN 0 ELSE offsets[1]) \in Offset
    BY <1>3, <1>10
  <2> QED BY <1>1, <2>1 DEF Entry
<1>13. low_ \in BOOLEAN
  OBVIOUS
<1> HIDE DEF lines_, line_, low_
<1>14. IsConfiguration(c) /\ c.lines_count <= MaxLines /\ c.lines_count = Len(c.lines)
  <2>1. c \in AnyConfiguration
    BY <1>5, <1>10, <1>11, <1>12, <1>13 DEF AnyConfiguration
  <2>2. c.lines_count = Len(offsets) /\ Len(c.lines) = Len(offsets)
    BY <1>5, <1>11
  <2>3. Len(offsets) <= MaxLines /\ Len(offsets) \in Nat
    BY <1>3, <1>10
  <2>4. ~(c.lines_count > MaxLines) /\ c.lines_count <= Len(c.lines)
        /\ Len(c.lines) <= MaxLines /\ c.lines_count <= MaxLines
    BY <1>3, <2>2, <2>3
  <2> QED BY <2>1, <2>2, <2>4 DEF IsConfiguration
<1>15. Adopted(c) = c
  <2>1. c.lines_count = 0 => c.line.chip = NoChip
    <3>1. c.lines_count = Len(offsets) /\ c.line = line_
      BY <1>5
    <3>2. line_.chip = chip
      BY DEF line_
    <3> QED BY <1>10, <3>1, <3>2
  <2> QED BY <2>1 DEF Adopted
<1> QED BY <1>14, <1>15

\* A binding that fits into the table has its lines and its polarity in the
\* configuration.
LEMMA BindingConfigured ==
    ASSUME NEW b, IsBinding(b), Fits(b), NEW c, c = GpioConfiguration(Parameters(b))
    PROVE  /\ ListsChips(b) /\ c.lines # <<>> => c.lines = BoundLines(b)
           /\ OnePolarity(b) =>
                 \A k \in DOMAIN BoundPolarities(b) : c.active_low = BoundPolarities(b)[k]
<1> DEFINE L == LineValues(b)
           C == ChipValues(b)
           A == LowValues(b)
           chip == ChipOf(b)
<1>1. /\ chip \in Chip \union {NoChip} /\ L \in Seq(Offset) /\ C \in Seq(Chip \union {NoChip})
      /\ A \in Seq(BOOLEAN) /\ Len(L) \in Nat /\ Len(C) \in Nat /\ Len(A) \in Nat
  BY ValuesTyped, LenProperties
<1>2. PICK n \in 0 .. Len(L), m \in 0 .. Len(C), a \in 0 .. Len(A) :
              /\ ChipNamed(Parameters(b)) = chip
              /\ ValuesOf(Parameters(b), "line") = First(L, Cut(n))
              /\ ValuesOf(Parameters(b), "line_chip") = First(C, Cut(m))
              /\ ValuesOf(Parameters(b), "active_low") = First(A, Cut(a))
              /\ Fits(b) => /\ n = Len(L) /\ m = Len(C)
                            /\ Len(A) > 0 => a > 0
  BY TableRead
<1>3. MaxLines \in Nat /\ MaxLines > 0 /\ 0 \in Offset /\ NoChip \notin Chip
  BY GpioAssumption
<1>4. /\ Cut(n) \in 0 .. Len(L) /\ Cut(m) \in 0 .. Len(C) /\ Cut(a) \in 0 .. Len(A)
      /\ Cut(n) <= MaxLines /\ (Cut(n) = 0 <=> n = 0) /\ (Cut(a) = 0 <=> a = 0)
  BY <1>1, <1>2, <1>3 DEF Cut
<1> HIDE DEF L, C, A, chip
<1> DEFINE named == First(L, Cut(n))
           chips == First(C, Cut(m))
           low == First(A, Cut(a))
           offsets == IF named = <<>> /\ chip # NoChip THEN <<0>> ELSE named
           lines_ == Entries(offsets, chips, chip)
           line_ == [chip |-> chip, offset |-> IF offsets = <<>> THEN 0 ELSE offsets[1]]
           low_ == low # <<>> /\ low[1]
<1>5. c = [lines_count |-> Len(offsets), lines |-> lines_, line |-> line_, active_low |-> low_]
  BY <1>2 DEF GpioConfiguration, Entries
<1>6. /\ named \in Seq(Offset) /\ Len(named) = Cut(n) /\ (named = <<>> <=> Cut(n) = 0)
      /\ DOMAIN named = 1 .. Cut(n) /\ \A k \in 1 .. Cut(n) : named[k] = L[k]
  BY <1>1, <1>4, FirstOf
<1>7. /\ chips \in Seq(Chip \union {NoChip})
      /\ DOMAIN chips = 1 .. Cut(m) /\ \A k \in 1 .. Cut(m) : chips[k] = C[k]
  <2>1. Cut(m) \in 0 .. Len(C) /\ C \in Seq(Chip \union {NoChip})
    BY <1>1, <1>4
  <2> QED BY <2>1, FirstOf
<1>8. /\ low \in Seq(BOOLEAN) /\ (low = <<>> <=> Cut(a) = 0)
      /\ DOMAIN low = 1 .. Cut(a) /\ \A k \in 1 .. Cut(a) : low[k] = A[k]
  BY <1>1, <1>4, FirstOf
<1> HIDE DEF named, chips, low
<1>9. <<0>> \in Seq(Offset) /\ Len(<<0>>) = 1 /\ <<0>>[1] = 0 /\ DOMAIN <<0>> = 1 .. 1
      /\ <<0>> # <<>>
  BY <1>3
<1>10. /\ offsets \in Seq(Offset) /\ Len(offsets) \in 0 .. MaxLines
       /\ DOMAIN offsets = 1 .. Len(offsets)
       /\ (offsets = <<>> <=> Len(offsets) = 0)
       /\ Len(offsets) = 0 => chip = NoChip
  <2>1. CASE named = <<>> /\ chip # NoChip
    <3>1. offsets = <<0>>
      BY <2>1
    <3> HIDE DEF offsets
    <3> QED BY <1>3, <1>9, <2>1, <3>1
  <2>2. CASE ~(named = <<>> /\ chip # NoChip)
    <3>1. offsets = named
      BY <2>2
    <3> HIDE DEF offsets
    <3> QED BY <1>3, <1>4, <1>6, <2>2, <3>1
  <2> QED BY <2>1, <2>2
<1> HIDE DEF offsets
<1>11. /\ lines_ \in Seq(Entry) /\ Len(lines_) = Len(offsets)
  <2>1. ASSUME NEW k \in 1 .. Len(offsets)
        PROVE  [chip   |-> IF k \in DOMAIN chips /\ NoChip \notin {chips[1], chips[k]}
                           THEN chips[k] ELSE chip,
                offset |-> offsets[k]] \in Entry
    <3>1. offsets[k] \in Offset
      BY <1>10
    <3>2. k \in DOMAIN chips => chips[k] \in Chip \union {NoChip}
      <4>1. ASSUME NEW T, NEW t \in Seq(T) PROVE \A j \in DOMAIN t : t[j] \in T
        OBVIOUS
      <4> QED BY <1>7, <4>1
    <3> QED BY <1>1, <3>1, <3>2 DEF Entry
  <2>2. lines_ \in [1 .. Len(offsets) -> Entry]
    BY <1>10, <2>1 DEF Entries
  <2> HIDE DEF lines_
  <2> QED BY <1>10, <2>2
<1> HIDE DEF lines_, line_
<1>16. ASSUME ListsChips(b), c.lines # <<>>
       PROVE  c.lines = BoundLines(b)
  <2> DEFINE all == IF L = <<>> THEN <<0>> ELSE L
             Own(k) == k \in DOMAIN C /\ C[k] # NoChip
             D == {k \in DOMAIN all : k <= MaxLines}
  <2>1. BoundLines(b) = [k \in D |-> [chip |-> IF Own(k) THEN C[k] ELSE chip,
                                      offset |-> all[k]]]
    <3>1. L = IF b.line.array = Missing
              THEN (IF b.line.single = Missing THEN <<0>> ELSE <<b.line.single>>)
              ELSE Selected(b.line.array, LAMBDA v : v # Missing)
      BY DEF L, LineValues, Given, SingleOf, Valid, Without
    <3>2. C = Selected(b.lines_chip, LAMBDA v : v # Missing)
      BY DEF C, ChipValues, Valid, Without
    <3>3. chip = IF b.chip = Missing THEN NoChip ELSE b.chip
      BY DEF chip, ChipOf
    <3> QED BY <3>1, <3>2, <3>3 DEF BoundLines
  <2>2. n = Len(L) /\ m = Len(C)
    BY <1>2, <1>16
  <2>3. c.lines = lines_
    BY <1>5
  <2>4. offsets # <<>>
    <3>1. Len(lines_) # 0
      BY <1>11, <1>16, <2>3, EmptySeq
    <3> QED BY <1>10, <1>11, <3>1
  <2>5. DOMAIN offsets = D /\ \A k \in D : offsets[k] = all[k]
    <3>1. CASE L = <<>>
      <4>1. Len(L) = 0
        BY <3>1, <1>1, EmptySeq
      <4>2. named = <<>>
        BY <4>1, <1>4, <1>6, <2>2
      <4>3. offsets = <<0>>
        BY <4>2, <2>4 DEF offsets
      <4>4. all = <<0>>
        BY <3>1
      <4>5. D = 1 .. 1
        BY <1>3, <1>9, <4>4
      <4> QED BY <1>9, <4>3, <4>4, <4>5
    <3>2. CASE L # <<>>
      <4>1. Len(L) # 0 /\ all = L
        BY <3>2, <1>1, EmptySeq
      <4>2. named # <<>>
        BY <4>1, <1>4, <1>6, <2>2
      <4>3. offsets = named
        BY <4>2 DEF offsets
      <4>4. DOMAIN L = 1 .. Len(L)
        BY <1>1
      <4>5. D = 1 .. Cut(n)
        BY <1>1, <1>3, <2>2, <4>1, <4>4 DEF Cut
      <4> QED BY <1>6, <4>1, <4>3, <4>5
    <3> QED BY <3>1, <3>2
  <2> HIDE DEF all
  <2>6. \A k \in D : k \in Nat /\ k >= 1 /\ k <= MaxLines
    <3>1. DOMAIN offsets = D /\ DOMAIN offsets = 1 .. Len(offsets) /\ Len(offsets) \in 0 .. MaxLines
      BY <1>10, <2>5
    <3> HIDE DEF D
    <3> QED BY <1>3, <3>1
  <2> HIDE DEF D
  <2>7. ASSUME NEW k \in D
        PROVE  [chip   |-> IF k \in DOMAIN chips /\ NoChip \notin {chips[1], chips[k]}
                           THEN chips[k] ELSE chip,
                offset |-> offsets[k]]
                 = [chip |-> IF Own(k) THEN C[k] ELSE chip, offset |-> all[k]]
    <3>1. k \in DOMAIN chips <=> k \in DOMAIN C
      <4>1. DOMAIN C = 1 .. Len(C)
        BY <1>1
      <4> QED BY <1>1, <1>3, <1>7, <2>2, <2>6, <4>1 DEF Cut
    <3>2. k \in DOMAIN chips => chips[k] = C[k] /\ chips[1] = C[1]
      <4>1. k \in DOMAIN chips => 1 \in 1 .. Cut(m)
        BY <1>1, <1>4, <1>7, <2>6
      <4> QED BY <1>7, <4>1
    <3>3. offsets[k] = all[k]
      BY <2>5
    <3>4. k \in DOMAIN C => C[1] # NoChip
      <4>1. 1 \in DOMAIN C => C[1] # NoChip
        BY <1>16 DEF ListsChips, C, ChipValues, Valid, Without
      <4>2. k \in DOMAIN C => 1 \in DOMAIN C
        <5>1. DOMAIN C = 1 .. Len(C)
          BY <1>1
        <5> QED BY <1>1, <2>6, <5>1
      <4> QED BY <4>1, <4>2
    <3> QED BY <3>1, <3>2, <3>3, <3>4
  <2>8. lines_ = [k \in D |-> [chip |-> IF Own(k) THEN C[k] ELSE chip, offset |-> all[k]]]
    BY <2>5, <2>7 DEF lines_, Entries
  <2> QED BY <2>1, <2>3, <2>8
<1>17. ASSUME OnePolarity(b), NEW k \in DOMAIN BoundPolarities(b)
       PROVE  c.active_low = BoundPolarities(b)[k]
  <2>1. c.active_low = low_
    BY <1>5
  <2>2. ASSUME Len(A) # 0
        PROVE  low_ = A[1]
    <3>1. a > 0
      BY <1>1, <1>2, <2>2
    <3>2. low # <<>> /\ 1 \in 1 .. Cut(a)
      BY <1>1, <1>2, <1>4, <1>8, <3>1
    <3>3. low[1] = A[1] /\ A[1] \in BOOLEAN
      <4>1. 1 \in 1 .. Len(A)
        BY <1>1, <2>2
      <4> QED BY <1>1, <1>8, <3>2, <4>1
    <3> QED BY <3>2, <3>3 DEF low_
  <2>3. CASE b.active_low.array # Missing
    <3>1. A = BoundPolarities(b)
      BY <2>3 DEF A, LowValues, Given, BoundPolarities, Valid, Without
    <3>2. k \in 1 .. Len(A)
      BY <1>1, <3>1
    <3>3. Len(A) # 0 /\ 1 \in DOMAIN A
      BY <1>1, <3>2
    <3>4. A[1] = A[k]
      BY <1>17, <3>1, <3>3 DEF OnePolarity
    <3> QED BY <2>1, <2>2, <3>1, <3>3, <3>4
  <2>4. CASE b.active_low.array = Missing
    <3> DEFINE v == SingleOf(b.active_low, FALSE)
    <3>1. A = <<v>>
      BY <2>4 DEF A, LowValues, Given
    <3>2. BoundPolarities(b) = [j \in 1 .. MaxLines |-> v]
      BY <2>4 DEF BoundPolarities
    <3> HIDE DEF v
    <3>3. BoundPolarities(b)[k] = v
      BY <3>2
    <3>4. Len(A) # 0 /\ A[1] = v
      BY <3>1
    <3> QED BY <2>1, <2>2, <3>3, <3>4
  <2> QED BY <2>3, <2>4
<1> QED BY <1>16, <1>17

----------------------------------------------------------------------------
(***************************************************************************)
(* GPIO under the tests.                                                   *)
(***************************************************************************)

\* A test that has opened its handle has a binding to configure it with.
TestsAreBound ==
    /\ test \in [Handle -> {"idle", "opened", "run"}]
    /\ bound \in [Handle -> GpioBinding \union {NULL}]
    /\ \A h \in Handle : test[h] = "opened" => bound[h] \in GpioBinding

\* Whatever the tests do, their handles see the operations of the HAL with
\* configurations of the platform file or of their own.
LEMMA TestStepInv ==
    ASSUME GpioInv, TestsAreBound, NEW h \in Handle, TestStep(h)
    PROVE  GpioInv' /\ TestsAreBound'
<1> USE DEF TestsAreBound, Stage
<1>1. ASSUME NEW b \in GpioBinding, OpenGpio(h, b)
      PROVE  GpioInv' /\ TestsAreBound'
    BY <1>1, OpenInv DEF OpenGpio
<1>2. CASE ConfigureAsBound(h)
  <2>1. bound[h] \in GpioBinding
      BY <1>2 DEF ConfigureAsBound
  <2>2. PICK params \in Tables(bound[h]) : Configure(h, GpioConfiguration(params))
      BY <1>2 DEF ConfigureAsBound
  <2>3. GpioInv'
    <3> DEFINE c == GpioConfiguration(params)
    <3>1. IsConfiguration(c) /\ Configure(h, c)
        BY <2>1, <2>2, BindingAssumption, TablesRead, TableConfigured
    <3> HIDE DEF c
    <3> QED BY <3>1, ConfigureInv
  <2> QED BY <1>2, <2>3 DEF ConfigureAsBound
<1>3. CASE ConfigureStep(h) /\ UNCHANGED <<test, bound>>
    BY <1>3, LoopEndsInv, LineFailsInv, RequestLineInv DEF ConfigureStep
<1>4. CASE Execute(h)
  <2>1. ASSUME NEW levels \in Levels, Write(h, levels), UNCHANGED bound, UNCHANGED test
        PROVE  GpioInv' /\ TestsAreBound'
      BY <2>1, WriteInv
  <2>2. ASSUME NEW c \in Configuration, Configure(h, c), UNCHANGED test,
               bound' = [bound EXCEPT ![h] = NULL], test[h] = "run"
        PROVE  GpioInv' /\ TestsAreBound'
      BY <2>2, ConfigureInv, GpioAssumption
  <2> QED BY <1>4, <2>1, <2>2 DEF Execute
<1>5. CASE CleanupTest(h)
    BY <1>5, CloseInv DEF CleanupTest
<1> QED BY <1>1, <1>2, <1>3, <1>4, <1>5 DEF TestStep

\* A step that is not a test's leaves the handles alone.
LEMMA GpioInductive == GpioInv /\ TestsAreBound /\ [Next]_vars => GpioInv' /\ TestsAreBound'
<1> SUFFICES ASSUME GpioInv, TestsAreBound, [Next]_vars
             PROVE  GpioInv' /\ TestsAreBound'
    OBVIOUS
<1>1. CASE \E h \in Handle : TestStep(h)
    BY <1>1, TestStepInv
<1>2. CASE UNCHANGED <<gpioVars, test, bound>>
  <2>1. UNCHANGED <<pc, configuration, lines, opened, holder, active, written, test, bound>>
      BY <1>2 DEF gpioVars
  <2>2. GpioTypeOK'
      BY <2>1 DEF GpioInv, GpioTypeOK
  <2>3. \A h \in Handle : HandleInv(h)'
      BY <2>1 DEF GpioInv, HandleInv, Leakless, Differ, FollowPlace, Follow, Reads,
                  ReadLevel, Answers, ToLevel
  <2> QED BY <2>1, <2>2, <2>3 DEF GpioInv, TestsAreBound
<1> QED BY <1>1, <1>2 DEF Next, vars

\* The handles' invariant holds in every reachable state.
LEMMA GpioAlways == Spec => [](GpioInv /\ TestsAreBound)
<1>1. Init => GpioInv /\ TestsAreBound
    BY GpioInitInv DEF Init, TestsAreBound
<1> QED BY <1>1, GpioInductive, PTL DEF Spec

\* Through every failure of a configure and every order of several handles'
\* steps: the kernel has a handle's lines requested for it, one chip is open
\* for each, and no others.
THEOREM GpioLeaksNothing == Spec => []NothingLeaks
<1>1. GpioInv => NothingLeaks
    BY DEF GpioInv, HandleInv, Leakless, NothingLeaks
<1> QED BY <1>1, GpioAlways, PTL

\* A handle reads back what it wrote, whatever the other handles do, for any
\* number of lines and either polarity.
THEOREM GpioReadsBack == Spec => []ReadsBack
<1>1. GpioInv => ReadsBack
    BY DEF GpioInv, HandleInv, Reads, ReadsBack
<1> QED BY <1>1, GpioAlways, PTL

\* Place by place or as sequences, the lines are the first of the
\* configuration.
LEMMA FollowIsPrefix ==
    ASSUME GpioInv, NEW h \in Handle, Follow(h)
    PROVE  IsPrefix(lines[h], configuration[h].lines)
<1> DEFINE s == lines[h]
           t == configuration[h].lines
           n == Len(s)
<1>1. /\ t \in Seq(Entry) /\ s \in Seq(Line) /\ n \in Nat /\ Len(t) \in Nat
      /\ n <= Len(t) /\ \A k \in 1 .. n : s[k] = t[k]
    BY LenProperties DEF GpioInv, GpioTypeOK, AnyConfiguration, Follow
<1>2. Line \subseteq Entry
    BY DEF Line, Entry
<1>3. s \in Seq(Entry)
    BY <1>1, <1>2, SeqMonotonic
<1> HIDE DEF s, t
<1>4. \A k \in 1 .. n : s[k] \in Entry /\ t[k] \in Entry
    BY <1>1, <1>3, ElementOfSeq
<1>5. /\ SubSeq(s, 1, n) \in Seq(Entry) /\ Len(SubSeq(s, 1, n)) = n
      /\ \A k \in 1 .. n : SubSeq(s, 1, n)[k] = s[k]
    BY <1>1, <1>3, <1>4, SubSeqProperties
<1>6. /\ SubSeq(t, 1, n) \in Seq(Entry) /\ Len(SubSeq(t, 1, n)) = n
      /\ \A k \in 1 .. n : SubSeq(t, 1, n)[k] = t[k]
    BY <1>1, <1>4, SubSeqProperties
<1> HIDE DEF n
<1>7. SubSeq(s, 1, n) = SubSeq(t, 1, n)
    BY <1>1, <1>5, <1>6, SeqEqual
<1> QED BY <1>1, <1>7 DEF IsPrefix, n, s, t

\* Between calls a handle has all the lines of its configuration or none, but
\* for the two refusals that AllOrNothing names.
THEOREM GpioAllOrNothing == Spec => []AllOrNothing
<1>1. GpioInv => AllOrNothing
  <2> SUFFICES ASSUME GpioInv, NEW h \in Handle, pc[h] = "open"
               PROVE  LET c == configuration[h]
                          n == Len(lines[h])
                      IN  \/ n = 0
                          \/ c.lines_count > MaxLines
                          \/ /\ IsPrefix(lines[h], c.lines)
                             /\ n = c.lines_count \/ c.lines[n + 1].chip = NoChip
      BY DEF AllOrNothing
  <2>1. CASE lines[h] = <<>>
      BY <2>1, EmptySeq
  <2>2. CASE lines[h] # <<>>
      BY <2>2, FollowIsPrefix DEF GpioInv, HandleInv, FollowPlace
  <2> QED BY <2>1, <2>2
<1> QED BY <1>1, GpioAlways, PTL

\* A test that runs with a binding has the configuration of its binding in its
\* handle.
BoundIsConfigured ==
    \A h \in Handle : test[h] = "run" /\ bound[h] # NULL =>
        \E params \in Tables(bound[h]) : configuration[h] = GpioConfiguration(params)

\* The setup puts it there, and the only thing that changes it ends the binding.
LEMMA BoundIsConfiguredInductive ==
    ASSUME GpioInv, TestsAreBound, BoundIsConfigured, [Next]_vars
    PROVE  BoundIsConfigured'
<1> USE DEF BoundIsConfigured
<1>1. /\ configuration \in [Handle -> AnyConfiguration]
      /\ test \in [Handle -> {"idle", "opened", "run"}]
      /\ bound \in [Handle -> GpioBinding \union {NULL}]
    BY DEF GpioInv, GpioTypeOK, TestsAreBound
<1>2. CASE \E h \in Handle : TestStep(h)
  <2> PICK h \in Handle : TestStep(h)
      BY <1>2
  <2>1. ASSUME NEW b \in GpioBinding, OpenGpio(h, b)
        PROVE  BoundIsConfigured'
      BY <1>1, <2>1 DEF OpenGpio, Stage, Open
  <2>2. CASE ConfigureAsBound(h)
    <3>0. PICK params \in Tables(bound[h]) : Configure(h, GpioConfiguration(params))
        BY <2>2 DEF ConfigureAsBound
    <3> DEFINE c == GpioConfiguration(params)
    <3>1. bound[h] \in GpioBinding
        BY <2>2 DEF ConfigureAsBound, Stage, TestsAreBound
    <3>2. Adopted(c) = c
        BY <3>1, BindingAssumption, TablesRead, TableConfigured
    <3>3. /\ configuration' = [configuration EXCEPT ![h] = Adopted(c)]
          /\ test' = [test EXCEPT ![h] = "run"] /\ bound' = bound
        BY <2>2, <3>0 DEF ConfigureAsBound, Stage, Configure
    <3>4. configuration'[h] = c /\ \A g \in Handle \ {h} : configuration'[g] = configuration[g]
      <4> HIDE DEF c
      <4> QED BY <1>1, <3>2, <3>3
    <3>5. \A g \in Handle \ {h} : test'[g] = test[g]
        BY <1>1, <3>3
    <3> QED BY <3>3, <3>4, <3>5
  <2>3. CASE ConfigureStep(h) /\ UNCHANGED <<test, bound>>
      BY <2>3 DEF ConfigureStep, NoChipName, LineFails, RequestLine, ConfigureDone
  <2>4. CASE Execute(h)
    <3>1. ASSUME NEW levels \in Levels, Write(h, levels), UNCHANGED bound, UNCHANGED test
          PROVE  BoundIsConfigured'
        BY <3>1 DEF Write
    <3>2. ASSUME NEW c \in Configuration, Configure(h, c), UNCHANGED test,
                 bound' = [bound EXCEPT ![h] = NULL]
          PROVE  BoundIsConfigured'
        BY <1>1, <3>2 DEF Configure
    <3> QED BY <2>4, <3>1, <3>2 DEF Execute
  <2>5. CASE CleanupTest(h)
      BY <1>1, <2>5 DEF CleanupTest, Stage, Close
  <2> QED BY <2>1, <2>2, <2>3, <2>4, <2>5 DEF TestStep
<1>3. CASE UNCHANGED <<gpioVars, test, bound>>
    BY <1>3 DEF gpioVars
<1> QED BY <1>2, <1>3 DEF Next, vars

\* Through the table of parameters with its limit, and through the
\* configuration: for any platform file, a test that has lines has those of its
\* binding, in order and on their chips, up to the first without a chip, and
\* drives them with their polarity, if the binding fits, lists no empty chip
\* first and has no two polarities.
THEOREM TestsHaveTheirLines == Spec => []LinesAsBound
<1>1. AllOrNothing /\ GpioInv /\ TestsAreBound /\ BoundIsConfigured => LinesAsBound
  <2> SUFFICES ASSUME AllOrNothing, GpioInv, TestsAreBound, BoundIsConfigured,
                      NEW h \in Handle, RunsBound(h)
               PROVE  /\ ListsChips(bound[h]) => HasItsLines(h)
                      /\ OnePolarity(bound[h]) => HasItsPolarities(h)
      BY DEF LinesAsBound
  <2> DEFINE c == configuration[h]
             n == Len(lines[h])
             named == BoundLines(bound[h])
  <2>0. pc[h] = "open" /\ Fits(bound[h]) /\ IsBinding(bound[h])
      BY BindingAssumption DEF RunsBound, TestsAreBound
  <2>1. PICK params \in Tables(bound[h]) : c = GpioConfiguration(params)
      BY DEF RunsBound, BoundIsConfigured
  <2>2. /\ IsConfiguration(c)
        /\ c.lines_count <= MaxLines /\ c.lines_count = Len(c.lines)
      BY <2>0, <2>1, TablesRead, TableConfigured
  <2>3. /\ c.lines_count \in Nat /\ MaxLines \in Nat /\ c.lines \in Seq(Entry)
        /\ Len(c.lines) \in Nat /\ lines[h] \in Seq(Line) /\ n \in Nat
      BY <2>2, GpioAssumption, LenProperties
         DEF IsConfiguration, AnyConfiguration, GpioInv, GpioTypeOK
  <2>4. c = GpioConfiguration(Parameters(bound[h]))
      BY <2>0, <2>1, TablesRead
  <2>5. /\ ListsChips(bound[h]) /\ c.lines # <<>> => c.lines = named
        /\ OnePolarity(bound[h]) =>
              \A k \in DOMAIN BoundPolarities(bound[h]) :
                  c.active_low = BoundPolarities(bound[h])[k]
      BY <2>0, <2>4, BindingConfigured
  <2>6. ASSUME ListsChips(bound[h]), n > 0
        PROVE  IsPrefix(lines[h], named) /\ (n = Len(named) \/ named[n + 1].chip = NoChip)
    <3>1. /\ IsPrefix(lines[h], c.lines)
          /\ n = c.lines_count \/ c.lines[n + 1].chip = NoChip
        BY <2>0, <2>2, <2>3, <2>6 DEF AllOrNothing
    <3>2. c.lines # <<>>
      <4>1. Follow(h)
          BY <2>0, <2>2, <2>3, <2>6, EmptySeq DEF GpioInv, HandleInv, FollowPlace
      <4>2. Len(c.lines) > 0
          BY <2>3, <2>6, <4>1 DEF Follow
      <4> QED BY <4>2, EmptySeq
    <3>3. c.lines = named
        BY <2>5, <2>6, <3>2
    <3> QED BY <2>2, <3>1, <3>3
  <2>7. ListsChips(bound[h]) => HasItsLines(h)
      BY <2>6 DEF HasItsLines
  <2>8. OnePolarity(bound[h]) => HasItsPolarities(h)
      BY <2>5 DEF HasItsPolarities
  <2> QED BY <2>7, <2>8
<1>2. Init => BoundIsConfigured
    BY DEF Init, BoundIsConfigured
<1>3. GpioInv /\ TestsAreBound /\ BoundIsConfigured /\ [Next]_vars => BoundIsConfigured'
    BY BoundIsConfiguredInductive
<1> QED BY <1>1, <1>2, <1>3, GpioAlways, GpioAllOrNothing, PTL DEF Spec

\* All variables of handles, plugins, contexts and tests keep their types.
THEOREM AccessTypeCorrect == Spec => []TypeOK
<1>1. GpioInv /\ TestsAreBound /\ PluginInv /\ I2cInv => TypeOK
    BY DEF GpioInv, TestsAreBound, PluginInv, I2cInv, TypeOK
<1>2. Init => PluginInv /\ I2cInv
    BY PluginInitInv, I2cInitInv DEF Init
<1>3. PluginInv /\ I2cInv /\ [Next]_vars => PluginInv' /\ I2cInv'
    BY PluginInductive, I2cInductive
<1> QED BY <1>1, <1>2, <1>3, GpioAlways, PTL DEF Spec
=============================================================================
