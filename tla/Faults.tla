------------------------------- MODULE Faults -------------------------------
(***************************************************************************)
(* The failures the services are written against.  A call to MongoDB,      *)
(* RabbitMQ, object storage or lib-streaming may fail, and a process may    *)
(* die between two calls.  Every failure a behaviour suffers is drawn from  *)
(* the kinds a run allows and from one finite budget.                       *)
(***************************************************************************)
EXTENDS Naturals

CONSTANTS
    FaultKinds,   \* the kinds of failure that may happen
    MaxFaults     \* how many failures a behaviour may suffer

VARIABLE faults   \* failures suffered so far

AllFaultKinds ==
    { "read",       \* a MongoDB lookup returns an error
      "blind",      \* the second lookup of a delivery fails like the first
      "write",      \* a MongoDB write returns an error and had no effect
      "ambiguous",  \* a write took effect but its caller got an error
      "broker",     \* RabbitMQ did not accept a publish
      "confirm",    \* RabbitMQ accepted a publish, the confirm never came
      "stream",     \* lib-streaming did not accept an event
      "storage",    \* saving the result to object storage failed
      "signature",  \* the delivery fails signature verification
      "tenant",     \* the tenant's database cannot be resolved
      "channel",    \* the AMQP channel dies under a running handler
      "panic",      \* the handler panics
      "cancel",     \* the consumer's context is cancelled at shutdown
      "crash" }     \* the process dies

ASSUME FaultsAssumption ==
    /\ FaultKinds \subseteq AllFaultKinds
    /\ MaxFaults \in Nat

Fail(kind) ==
    /\ kind \in FaultKinds
    /\ faults < MaxFaults
    /\ faults' = faults + 1

NoFault == UNCHANGED faults
=============================================================================
