----------------------------- MODULE I2cDevice -----------------------------
(***************************************************************************)
(* plugins/i2c_linux/i2c-device.c: a device context holds a file           *)
(* descriptor of an I2C bus, with the address of one slave selected, and   *)
(* the configuration it was given.  A context is used by one thread; the   *)
(* descriptors are the process's.  The kernel is external: open gives any  *)
(* descriptor that is not in use, open and ioctl may fail.                 *)
(***************************************************************************)
EXTENDS Naturals

CONSTANTS
    I2cContext,
    I2cConfiguration,   \* [bus, address]; what a caller passes to control
    FileDescriptor,
    NoBus,              \* the empty bus name
    Unset               \* a descriptor of -1; a configuration never set

VARIABLES
    place,     \* "closed", "open", "bus" and "address": the steps of control
    wanted,    \* the argument of a control call under way
    newFd,     \* fd of i2c_open_bus
    fd,        \* context->fd
    settings,  \* context->configuration
    kernel     \* what a descriptor is open on, with Unset for no address

i2cVars == <<place, wanted, newFd, fd, settings, kernel>>

Bus == {c.bus : c \in I2cConfiguration}
Address == {c.address : c \in I2cConfiguration}
Opening == [bus : Bus, address : Address \union {Unset}]

ASSUME I2cAssumption ==
    /\ \A c \in I2cConfiguration : c = [bus |-> c.bus, address |-> c.address]
    /\ Unset \notin FileDescriptor \union Opening

I2cTypeOK ==
    /\ place \in [I2cContext -> {"closed", "open", "bus", "address"}]
    /\ wanted \in [I2cContext -> I2cConfiguration \union {Unset}]
    /\ newFd \in [I2cContext -> FileDescriptor \union {Unset}]
    /\ fd \in [I2cContext -> FileDescriptor \union {Unset}]
    /\ settings \in [I2cContext -> I2cConfiguration \union {Unset}]
    /\ kernel \in [FileDescriptor -> Opening \union {Unset}]

I2cInit ==
    /\ place = [x \in I2cContext |-> "closed"]
    /\ wanted = [x \in I2cContext |-> Unset]
    /\ newFd = [x \in I2cContext |-> Unset]
    /\ fd = [x \in I2cContext |-> Unset]
    /\ settings = [x \in I2cContext |-> Unset]
    /\ kernel = [d \in FileDescriptor |-> Unset]

Goto(x, from, to) == place[x] = from /\ place' = [place EXCEPT ![x] = to]

\* close() of a descriptor, if it is one
CloseFd(d) == kernel' = [e \in FileDescriptor |-> IF e = d THEN Unset ELSE kernel[e]]

\* i2c_device_open; a failed calloc opens nothing.
I2cOpen(x) ==
    /\ Goto(x, "closed", "open")
    /\ UNCHANGED <<wanted, newFd, fd, settings, kernel>>

\* i2c_device_close
I2cClose(x) ==
    /\ Goto(x, "open", "closed")
    /\ CloseFd(fd[x])
    /\ fd' = [fd EXCEPT ![x] = Unset]
    /\ settings' = [settings EXCEPT ![x] = Unset]
    /\ UNCHANGED <<wanted, newFd>>

\* Slip: the descriptor is forgotten, not closed.
SetConfigurationOver(x, c) ==
    /\ c.bus # NoBus
    /\ Goto(x, "open", "bus")
    /\ wanted' = [wanted EXCEPT ![x] = c]
    /\ fd' = [fd EXCEPT ![x] = Unset]
    /\ UNCHANGED <<newFd, settings, kernel>>

\* i2c_device_control(I2C_COMMAND_SET_CONFIGURATION) lets the old bus go
\* before it opens the new one.  Without a bus name the call changes nothing.
SetConfiguration(x, c) ==
    /\ c.bus # NoBus
    /\ Goto(x, "open", "bus")
    /\ wanted' = [wanted EXCEPT ![x] = c]
    /\ CloseFd(fd[x])
    /\ fd' = [fd EXCEPT ![x] = Unset]
    /\ UNCHANGED <<newFd, settings>>

\* i2c_open_bus: open
OpenBus(x) ==
    \/ /\ Goto(x, "bus", "address")
       /\ \E d \in FileDescriptor :
             /\ kernel[d] = Unset
             /\ kernel' = [kernel EXCEPT ![d] = [bus |-> wanted[x].bus, address |-> Unset]]
             /\ newFd' = [newFd EXCEPT ![x] = d]
       /\ UNCHANGED <<wanted, fd, settings>>
    \/ /\ Goto(x, "bus", "open")
       /\ wanted' = [wanted EXCEPT ![x] = Unset]
       /\ UNCHANGED <<newFd, fd, settings, kernel>>

\* i2c_open_bus: ioctl, and what its caller does with the answer.  A failure
\* closes the bus and leaves the settings of a bus that is not open any more.
SelectAddress(x) ==
    /\ Goto(x, "address", "open")
    /\ wanted' = [wanted EXCEPT ![x] = Unset]
    /\ newFd' = [newFd EXCEPT ![x] = Unset]
    /\ \/ /\ kernel' = [kernel EXCEPT ![newFd[x]].address = wanted[x].address]
          /\ fd' = [fd EXCEPT ![x] = newFd[x]]
          /\ settings' = [settings EXCEPT ![x] = wanted[x]]
       \/ /\ CloseFd(newFd[x])
          /\ UNCHANGED <<fd, settings>>

I2cStep ==
    \E x \in I2cContext :
        \/ I2cOpen(x) \/ I2cClose(x) \/ OpenBus(x) \/ SelectAddress(x)
        \/ \E c \in I2cConfiguration : SetConfiguration(x, c)

----------------------------------------------------------------------------
\* Whatever configurations are set one over the other, and wherever one
\* fails: a context that has a descriptor transfers to the slave its settings
\* name and to no other, and each open descriptor is the one of one context,
\* which will close it.
TransfersReachTheSlave ==
    /\ \A x \in I2cContext : fd[x] # Unset => kernel[fd[x]] = settings[x]
    /\ \A d \in FileDescriptor : kernel[d] # Unset =>
          \E x \in I2cContext :
              /\ d \in {fd[x], newFd[x]}
              /\ fd[x] # newFd[x]
              /\ \A y \in I2cContext \ {x} : d \notin {fd[y], newFd[y]}
=============================================================================
