----------------------------- MODULE ConfigVar -----------------------------
(***************************************************************************)
(* setValue, addListener and delListener of a ConfigVar under its          *)
(* RWMutex.  Listeners are called under the read lock, one after the       *)
(* other, and the value is assigned under the write lock taken afterwards. *)
(* A component reads the value and then registers, as hook.cc does for the *)
(* connect timeout.  Listeners have the keys s_fun_id gives them.          *)
(***************************************************************************)
EXTENDS Naturals

CONSTANTS Setters,     \* threads that call setValue
          Listeners,   \* their keys, an initial segment of 1, 2, ...
          Values,
          MaxSets      \* calls of setValue

ASSUME ConfigAssumption ==
  Listeners \subseteq Nat /\ 0 \in Values /\ MaxSets \in Nat

VARIABLES
  m_val,
  listener,   \* [Listeners -> "none", "read", "listed" (in m_cbs) or "gone"]
  believed,   \* the value a listener works with
  setting,    \* where a call of setValue stands
  val,        \* its argument, 0 when there is none
  todo,       \* the listeners it has still to call
  sets,
  raced,      \* history: two calls with different values got past the test together
  missed      \* history: listeners that registered on either side of a change

configVars == <<m_val, listener, believed, setting, val, todo, sets, raced, missed>>

ConfigInit ==
  /\ m_val = 0 /\ listener = [k \in Listeners |-> "none"] /\ believed = [k \in Listeners |-> 0]
  /\ setting = [s \in Setters |-> "idle"] /\ val = [s \in Setters |-> 0]
  /\ todo = [s \in Setters |-> {}]
  /\ sets = 0 /\ raced = FALSE /\ missed = {}

m_cbs == {k \in Listeners : listener[k] = "listed"}
WriteLock == \A s \in Setters : setting[s] # "notify"

\* setValue: the test, under the read lock that is kept for the calls.
SetValue(s, v) ==
  /\ setting[s] = "idle" /\ sets < MaxSets /\ sets' = sets + 1
  /\ \/ v = m_val /\ UNCHANGED <<setting, val, todo, raced>>
     \/ /\ v # m_val
        /\ setting' = [setting EXCEPT ![s] = "notify"]
        /\ val' = [val EXCEPT ![s] = v] /\ todo' = [todo EXCEPT ![s] = m_cbs]
        /\ LET others == {o \in Setters : setting[o] # "idle"}
           IN  raced' = (others # {} /\ (raced \/ \E o \in others : val[o] # v))
  /\ UNCHANGED <<m_val, listener, believed, missed>>

\* Variant: old and new value the wrong way round.
NotifySwapped(s, k) ==
  /\ believed' = [believed EXCEPT ![k] = m_val]
  /\ missed' = missed \ {k}

Notify(s, k) ==
  /\ believed' = [believed EXCEPT ![k] = val[s]]
  /\ missed' = missed \ {k}

\* The next listener of the map.
CallListener(s) ==
  /\ setting[s] = "notify"
  /\ \E k \in todo[s] :
       /\ \A j \in todo[s] : k <= j
       /\ Notify(s, k)
       /\ todo' = [todo EXCEPT ![s] = @ \ {k}]
  /\ UNCHANGED <<m_val, listener, setting, val, sets, raced>>

ReleaseRead(s) ==
  /\ setting[s] = "notify" /\ todo[s] = {}
  /\ setting' = [setting EXCEPT ![s] = "write"]
  /\ UNCHANGED <<m_val, listener, believed, val, todo, sets, raced, missed>>

Assign(s) ==
  /\ setting[s] = "write" /\ WriteLock
  /\ m_val' = val[s] /\ setting' = [setting EXCEPT ![s] = "idle"]
  /\ val' = [val EXCEPT ![s] = 0]
  /\ UNCHANGED <<listener, believed, todo, sets, raced, missed>>

ReadValue(k) ==
  /\ listener[k] = "none"
  /\ listener' = [listener EXCEPT ![k] = "read"] /\ believed' = [believed EXCEPT ![k] = m_val]
  /\ UNCHANGED <<m_val, setting, val, todo, sets, raced, missed>>

AddListener(k) ==
  /\ listener[k] = "read" /\ WriteLock
  /\ \A j \in Listeners : j < k => listener[j] \in {"listed", "gone"}
  /\ listener' = [listener EXCEPT ![k] = "listed"]
  /\ missed' = IF believed[k] # m_val \/ \E s \in Setters : setting[s] = "write"
               THEN missed \cup {k} ELSE missed
  /\ UNCHANGED <<m_val, believed, setting, val, todo, sets, raced>>

DelListener(k) ==
  /\ listener[k] = "listed" /\ WriteLock
  /\ listener' = [listener EXCEPT ![k] = "gone"]
  /\ UNCHANGED <<m_val, believed, setting, val, todo, sets, raced, missed>>

ConfigNext ==
  \/ \E s \in Setters : CallListener(s) \/ ReleaseRead(s) \/ Assign(s) \/ \E v \in Values : SetValue(s, v)
  \/ \E k \in Listeners : ReadValue(k) \/ AddListener(k) \/ DelListener(k)

-----------------------------------------------------------------------------
ConfigTypes ==
  /\ m_val \in Values /\ believed \in [Listeners -> Values] /\ val \in [Setters -> Values]
  /\ listener \in [Listeners -> {"none", "read", "listed", "gone"}]
  /\ setting \in [Setters -> {"idle", "notify", "write"}]
  /\ todo \in [Setters -> SUBSET m_cbs] /\ sets \in 0 .. MaxSets

(***************************************************************************)
(* When no setValue is under way every listener works with the value that  *)
(* getValue returns.  The exceptions are two calls with different values   *)
(* past the test together - the last to notify need not be the last to     *)
(* assign - and a listener that registers while a change has been          *)
(* announced and not assigned, or was assigned since it read the value;    *)
(* the next change that comes alone puts both right.                       *)
(***************************************************************************)
ListenersAgree ==
  (\A s \in Setters : setting[s] = "idle") /\ ~ raced
    => \A k \in m_cbs \ missed : believed[k] = m_val
=============================================================================
