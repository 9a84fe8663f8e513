---------------------------- MODULE ServicesProofs ----------------------------
(* Theorems about the parts of the agent that share no state: the script     *)
(* store and engine, batch plans, the alert engine, the data router, the     *)
(* telemetry profiles, the MQTT client, the security center, file transfers  *)
(* and monitors, each for any values of its constants; and the types of all  *)
(* parts, the three stores among them, side by side as Services has them.    *)
EXTENDS Services, StoresProofs, WellFoundedInduction

-----------------------------------------------------------------------------
(* Natural numbers: what the proofs below do by induction goes through the  *)
(* least element of a set                                                   *)

(* Every set of natural numbers that is not empty has a least element.      *)
LEMMA LeastElement ==
  ASSUME NEW T \in SUBSET Nat, T # {}
  PROVE  \E n \in T : \A m \in T : n <= m
<1>1. PICK n \in T : \A m \in T : ~(<<m, n>> \in OpToRel(<, Nat))
      BY NatLessThanWellFounded, WFMin
<1>2. ASSUME NEW m \in T PROVE n <= m
  <2>1. m \in Nat /\ n \in Nat
        OBVIOUS
  <2>2. ~(m < n)
    <3>1. SUFFICES ASSUME m < n PROVE FALSE
          OBVIOUS
    <3>2. <<m, n>> \in OpToRel(<, Nat)
          BY <2>1, <3>1 DEF OpToRel
    <3> QED BY <1>1, <3>2
  <2> QED BY <2>1, <2>2
<1> QED BY <1>2

(* A set that has 0, and with a number the next one, has them all.          *)
LEMMA NumberInduction ==
  ASSUME NEW T \in SUBSET Nat, 0 \in T, \A n \in T : n + 1 \in T
  PROVE  T = Nat
<1>1. SUFFICES ASSUME Nat \ T # {} PROVE FALSE
      OBVIOUS
<1>2. PICK n \in Nat \ T : \A m \in Nat \ T : n <= m
      BY <1>1, LeastElement
<1>3. n # 0 /\ n \in Nat
      OBVIOUS
<1>4. n - 1 \in Nat /\ ~(n <= n - 1)
      BY <1>3
<1>5. n - 1 \in T
      BY <1>2, <1>4
<1>6. (n - 1) + 1 = n
      BY <1>3
<1> QED BY <1>5, <1>6

Recurs(f, a, step, n) == f[0] = a /\ \A k \in 1..n : f[k] = step[k][f[k-1]]

(* A recursion over numbers up to n that goes from one value to the next    *)
(* has a value everywhere.                                                   *)
LEMMA Recursion ==
  ASSUME NEW X, NEW a \in X, NEW step \in [Nat -> [X -> X]], NEW n \in Nat
  PROVE  \E f \in [0..n -> X] : Recurs(f, a, step, n)
<1> DEFINE Good(m, f) == f[0] = a /\ \A k \in 1..m : f[k] = step[k][f[k-1]]
           T == {m \in Nat : \E f \in [0..m -> X] : Good(m, f)}
<1>1. 0 \in T
  <2>1. [k \in 0..0 |-> a] \in [0..0 -> X] /\ [k \in 0..0 |-> a][0] = a
        OBVIOUS
  <2>2. Good(0, [k \in 0..0 |-> a])
        BY <2>1
  <2> QED BY <2>1, <2>2
<1>2. ASSUME NEW m \in Nat, \E f \in [0..m -> X] : Good(m, f)
      PROVE  \E g \in [0..m+1 -> X] : Good(m + 1, g)
  <2>1. m + 1 \in Nat /\ m \in 0..m
        OBVIOUS
  <2>2. PICK f \in [0..m -> X] : Good(m, f)
        BY <1>2
  <2> DEFINE g == [k \in 0..m+1 |-> IF k = m + 1 THEN step[m + 1][f[m]] ELSE f[k]]
  <2>3. step[m + 1][f[m]] \in X
        BY <2>1
  <2>4. g \in [0..m+1 -> X]
    <3>1. ASSUME NEW k \in 0..m+1, k # m + 1 PROVE f[k] \in X
      <4>1. k \in 0..m
            BY <2>1, <3>1
      <4> QED BY <4>1
    <3> QED BY <2>3, <3>1
  <2>5. g[0] = a
    <3>1. 0 \in 0..m+1 /\ 0 # m + 1
          OBVIOUS
    <3> QED BY <2>2, <3>1
  <2>6. ASSUME NEW k \in 1..m+1 PROVE g[k] = step[k][g[k-1]]
    <3>1. k - 1 \in 0..m /\ k - 1 # m + 1 /\ k \in 0..m+1 /\ k - 1 \in 0..m+1
          BY <2>1
    <3>2. g[k-1] = f[k-1]
          BY <3>1
    <3>3. CASE k = m + 1
      <4>1. g[k] = step[m + 1][f[m]] /\ k - 1 = m
            BY <2>1, <3>1, <3>3
      <4> HIDE DEF g
      <4> QED BY <3>2, <3>3, <4>1
    <3>4. CASE k # m + 1
      <4>1. g[k] = f[k] /\ k \in 1..m
            BY <2>1, <3>1, <3>4
      <4> HIDE DEF g
      <4> QED BY <2>2, <3>2, <4>1
    <3> QED BY <3>3, <3>4
  <2> HIDE DEF g
  <2>7. Good(m + 1, g)
        BY <2>5, <2>6
  <2> HIDE DEF Good
  <2> QED BY <2>1, <2>4, <2>7
<1> HIDE DEF Good
<1>3. T \in SUBSET Nat /\ \A m \in T : m + 1 \in T
      BY <1>2
<1> HIDE DEF T
<1>4. T = Nat
      BY <1>1, <1>3, NumberInduction
<1>5. n \in T
      BY <1>4
<1>6. PICK f \in [0..n -> X] : Good(n, f)
      BY <1>5 DEF T
<1> QED BY <1>6 DEF Recurs, Good

(* A set of indices that is not empty has a greatest element.               *)
LEMMA GreatestIndex ==
  ASSUME NEW n \in Nat, NEW S \in SUBSET (1..n), S # {}
  PROVE  Max(S) \in S /\ \A k \in S : Max(S) >= k
<1> DEFINE T == {m \in Nat : \A k \in S : m >= k}
<1>1. n \in T
      OBVIOUS
<1>2. PICK m \in T : \A l \in T : m <= l
  <2> HIDE DEF T
  <2>1. T \in SUBSET Nat
        BY DEF T
  <2> QED BY <1>1, <2>1, LeastElement
<1>3. m \in S
  <2>1. SUFFICES ASSUME m \notin S PROVE FALSE
        OBVIOUS
  <2>2. PICK k \in S : k \in 1..n
        OBVIOUS
  <2>3. m \in Nat /\ m >= k /\ m - 1 \in Nat
        BY <2>2
  <2>4. \A l \in S : m - 1 >= l
        BY <2>1, <2>3
  <2>5. m - 1 \in T
        BY <2>3, <2>4
  <2> HIDE DEF T
  <2> QED BY <1>2, <2>3, <2>5
<1>4. \A k \in S : m >= k
      OBVIOUS
<1>5. \E x \in S : \A k \in S : x >= k
      BY <1>3, <1>4
<1> QED BY <1>5 DEF Max

-----------------------------------------------------------------------------
(* The security center *)

SecuritySpec == SecurityInit /\ [][SecurityNext]_securityVars

Entry(r) == [key |-> ReplayKey(r), timestamp |-> r.timestamp]

(* While the clock was not set back, the guard still knows every request it *)
(* allowed whose timestamp has not become too old                           *)
Remembered ==
  \A r \in allowed : wall - r.timestamp <= Skew => Entry(r) \in seenNonces

SecurityInv ==
  /\ wall \in Int /\ setBack \in Nat /\ allowed \subseteq Requests
  /\ setBack = 0 => ~twice /\ Remembered

LEMMA RequestFields ==
  /\ Skew \in Int
  /\ \A r \in Requests : r.timestamp \in Int
  BY SecurityAssumption DEF Requests

LEMMA SecurityGuards ==
  ASSUME SecurityInv, NEW r \in Requests, RefuseReplay(r) \/ Allow(r)
  PROVE  SecurityInv'
<1>0. /\ wall' = wall /\ setBack' = setBack /\ wall \in Int /\ setBack \in Nat /\ allowed \subseteq Requests
      /\ Pruned(seenNonces) \subseteq seenNonces'
      BY DEF RefuseReplay, Allow, Ask, SecurityInv
<1>1. allowed' \subseteq Requests
      BY <1>0 DEF RefuseReplay, Allow
<1>2. ASSUME setBack = 0
      PROVE  ~twice' /\ Remembered'
  <2>0. ~twice /\ Remembered
        BY <1>2 DEF SecurityInv
  <2>1. ASSUME NEW q \in allowed, wall - q.timestamp <= Skew
        PROVE  Entry(q) \in Pruned(seenNonces)
    <3>1. Entry(q) \in seenNonces /\ Entry(q).timestamp = q.timestamp
          BY <2>0, <2>1 DEF Remembered, Entry
    <3> QED BY <3>1, <2>1 DEF Pruned
  <2>2. CASE RefuseReplay(r)
    <3>1. twice' = twice /\ allowed' = allowed
          BY <2>2 DEF RefuseReplay
    <3> QED BY <1>0, <2>0, <2>1, <3>1 DEF Remembered
  <2>3. CASE Allow(r)
    <3>1. /\ twice' = (twice \/ r \in allowed) /\ allowed' = allowed \cup {r}
          /\ Entry(r) \in seenNonces' /\ InWindow(r) /\ ~Replayed(r)
          BY <2>3 DEF Allow, Entry
    <3>2. wall - r.timestamp <= Skew
      <4>1. r.timestamp \in Int /\ Skew \in Int
            BY RequestFields
      <4>2. (r.timestamp >= wall /\ Skew >= 0) \/ wall - r.timestamp <= Skew
            BY <1>0, <3>1, <4>1, SecurityAssumption DEF InWindow, Distance
      <4> QED BY <1>0, <4>1, <4>2
    <3>3. r \notin allowed
      <4> SUFFICES ASSUME r \in allowed PROVE FALSE
          OBVIOUS
      <4>1. Entry(r) \in Pruned(seenNonces) /\ Entry(r).key = ReplayKey(r)
            BY <2>1, <3>2 DEF Entry
      <4> QED BY <3>1, <4>1 DEF Replayed
    <3> QED BY <1>0, <2>0, <2>1, <3>1, <3>3 DEF Remembered
  <2> QED BY <2>2, <2>3
<1> QED BY <1>0, <1>1, <1>2 DEF SecurityInv

LEMMA SecurityStep ==
  ASSUME SecurityInv, [SecurityNext]_securityVars
  PROVE  SecurityInv'
<1>1. CASE UNCHANGED securityVars \/ \E r \in Requests : Deny(r)
  <2>1. UNCHANGED securityVars
        BY <1>1 DEF Deny
  <2> QED BY <2>1 DEF securityVars, SecurityInv, Remembered, Entry, ReplayKey
<1>2. CASE ClockTicks
  <2>1. /\ wall' = wall + 1 /\ seenNonces' = seenNonces /\ allowed' = allowed
        /\ twice' = twice /\ setBack' = setBack /\ wall \in Int /\ allowed \subseteq Requests
        BY <1>2 DEF ClockTicks, SecurityInv
  <2>2. \A r \in allowed : wall + 1 - r.timestamp <= Skew => wall - r.timestamp <= Skew
        BY <2>1, RequestFields
  <2>3. ASSUME Remembered PROVE Remembered'
    <3>1. \A r \in allowed : wall + 1 - r.timestamp <= Skew => Entry(r) \in seenNonces
          BY <2>2, <2>3 DEF Remembered
    <3>2. ASSUME NEW r \in allowed', wall' - r.timestamp <= Skew
          PROVE  Entry(r) \in seenNonces'
      <4>1. r \in allowed /\ wall + 1 - r.timestamp <= Skew
            BY <2>1, <3>2, RequestFields
      <4> QED BY <2>1, <3>1, <4>1
    <3> QED BY <3>2 DEF Remembered, Entry, ReplayKey
  <2> QED BY <2>1, <2>3 DEF SecurityInv
<1>3. CASE ClockSetBack
  <2>1. /\ setBack' = setBack + 1 /\ setBack \in Nat /\ allowed' = allowed /\ wall' \in Int
        BY <1>3 DEF ClockSetBack, SecurityInv
  <2> QED BY <2>1 DEF SecurityInv
<1> QED BY <1>1, <1>2, <1>3, SecurityGuards DEF SecurityNext

(* As long as the clock is not set back no request is allowed a second      *)
(* time, for any subjects, nonces and timestamps and any window, although   *)
(* the guard forgets nonces: it forgets one only when the request it came   *)
(* with would be refused for its age.                                       *)
THEOREM RequestsAreAllowedOnce == SecuritySpec => []AllowedOnce
<1>1. SecurityInit => SecurityInv
      BY DEF SecurityInit, SecurityInv, Remembered
<1>2. SecurityInv /\ [SecurityNext]_securityVars => SecurityInv'
      BY SecurityStep
<1>3. SecurityInv => AllowedOnce
      BY DEF SecurityInv, AllowedOnce
<1> QED BY <1>1, <1>2, <1>3, PTL DEF SecuritySpec

-----------------------------------------------------------------------------
(* The script store *)

ScriptSpec == ScriptInit /\ [][ScriptNext]_scriptVars

ScriptRow == [content : Contents, favorite : BOOLEAN, version : Nat \ {0}, usage : Nat]

(* A copy in hand differs from the row it was made from in what its caller  *)
(* may edit only, and its version was counted up at most                    *)
Copy == {c \in [id : Scripts, base : ScriptRow, row : ScriptRow] :
           c.row.usage = c.base.usage /\ c.row.version >= c.base.version}

Call ==
  {Idle} \cup [to : {"get"}, id : Scripts] \cup [to : {"import"}, rest : SUBSET ScriptRow]

TablesTyped ==
  /\ scripts \in [Scripts -> ScriptRow \cup {NoScript}]
  /\ promised = [s \in Scripts |-> promised[s]]

ScriptInv ==
  /\ TablesTyped /\ ChangesSurvive
  /\ scriptCopy \in [ScriptClients -> Copy \cup {NoScript}]
  /\ scriptStep \in [ScriptClients -> Call]

LEMMA RowFields ==
  ASSUME NEW r \in ScriptRow
  PROVE  /\ r = [content |-> r.content, favorite |-> r.favorite, version |-> r.version, usage |-> r.usage]
         /\ r.content \in Contents /\ r.favorite \in BOOLEAN /\ r.version \in Nat \ {0} /\ r.usage \in Nat
  BY DEF ScriptRow

LEMMA NewRow ==
  ASSUME NEW text \in Contents
  PROVE  New(text) \in ScriptRow
  BY DEF New, ScriptRow

LEMMA RowsChange ==
  ASSUME NEW r \in ScriptRow
  PROVE  /\ StoredRow(r) \in ScriptRow /\ ToggleFavorite(r) \in ScriptRow
         /\ [r EXCEPT !.usage = @ + 1] \in ScriptRow
         /\ [r EXCEPT !.version = 1, !.usage = 0] \in ScriptRow
<1>1. StoredRow(r) \in ScriptRow
      BY RowFields DEF StoredRow, ScriptRow
<1>2. ToggleFavorite(r) \in ScriptRow
      BY RowFields DEF ToggleFavorite, ScriptRow
<1>3. [r EXCEPT !.usage = @ + 1] \in ScriptRow
      BY RowFields DEF ScriptRow
<1>4. [r EXCEPT !.version = 1, !.usage = 0] \in ScriptRow
  <2> DEFINE first == [r EXCEPT !.version = 1]
  <2>1. first \in ScriptRow
        BY RowFields DEF ScriptRow
  <2>2. [first EXCEPT !.usage = 0] \in ScriptRow
        BY <2>1, RowFields DEF ScriptRow
  <2> QED BY <2>2
<1> QED BY <1>1, <1>2, <1>3, <1>4

LEMMA CopyEdited ==
  ASSUME NEW copy \in Copy, copy.row = copy.base,
         NEW row \in {ToggleFavorite(copy.row)} \cup
                     {UpdateContent(copy.row, text) : text \in Contents}
  PROVE  [copy EXCEPT !.row = row] \in Copy
<1>1. /\ copy = [id |-> copy.id, base |-> copy.base, row |-> copy.row]
      /\ copy.id \in Scripts /\ copy.base \in ScriptRow /\ copy.row \in ScriptRow
      BY DEF Copy
<1>2. row \in ScriptRow /\ row.usage = copy.row.usage /\ row.version >= copy.row.version
  <2>1. CASE row = ToggleFavorite(copy.row)
    <3> DEFINE r == copy.row
               toggled == [content |-> r.content, favorite |-> ~r.favorite, version |-> r.version, usage |-> r.usage]
    <3>1. r \in ScriptRow /\ r = [content |-> r.content, favorite |-> r.favorite, version |-> r.version, usage |-> r.usage]
          BY <1>1, RowFields
    <3>2. row = toggled
          BY <3>1, <2>1 DEF ToggleFavorite
    <3> QED BY <3>1, <3>2, RowFields DEF ScriptRow
  <2>2. ASSUME NEW text \in Contents, row = UpdateContent(copy.row, text)
        PROVE  row \in ScriptRow /\ row.usage = copy.row.usage /\ row.version >= copy.row.version
    <3> DEFINE r == copy.row
               changed == [content |-> text, favorite |-> r.favorite, version |-> r.version + 1, usage |-> r.usage]
    <3>1. r \in ScriptRow /\ r = [content |-> r.content, favorite |-> r.favorite, version |-> r.version, usage |-> r.usage]
          BY <1>1, RowFields
    <3>2. row = changed
          BY <3>1, <2>2 DEF UpdateContent
    <3> QED BY <3>1, <3>2, RowFields DEF ScriptRow
  <2> QED BY <2>1, <2>2
<1>3. [copy EXCEPT !.row = row] = [id |-> copy.id, base |-> copy.base, row |-> row]
      BY <1>1
<1> QED BY <1>1, <1>2, <1>3 DEF Copy

LEMMA OneRowWritten ==
  ASSUME ScriptInv, NEW s \in Scripts, NEW row \in ScriptRow, NEW told,
         scripts' = [scripts EXCEPT ![s] = row],
         promised' = [promised EXCEPT ![s] = told],
         overwritten \subseteq overwritten' \cup {s},
         s \notin overwritten' => told = row
  PROVE  TablesTyped' /\ ChangesSurvive'
<1>1. scripts \in [Scripts -> ScriptRow \cup {NoScript}] /\ promised = [t \in Scripts |-> promised[t]]
      BY DEF ScriptInv, TablesTyped
<1>2. /\ scripts' \in [Scripts -> ScriptRow \cup {NoScript}]
      /\ promised' = [t \in Scripts |-> promised'[t]]
      BY <1>1
<1>3. ASSUME NEW t \in Scripts, t \notin overwritten'
      PROVE  scripts'[t] = promised'[t]
  <2>1. CASE t = s
        BY <2>1, <1>1, <1>3
  <2>2. CASE t # s
    <3>1. scripts[t] = promised[t]
          BY <2>2, <1>3 DEF ScriptInv, ChangesSurvive
    <3> QED BY <3>1, <2>2, <1>1
  <2> QED BY <2>1, <2>2
<1> QED BY <1>2, <1>3 DEF TablesTyped, ChangesSurvive

LEMMA NoRowWritten ==
  ASSUME ScriptInv, UNCHANGED <<scripts, promised, overwritten>>
  PROVE  TablesTyped' /\ ChangesSurvive'
  BY DEF ScriptInv, TablesTyped, ChangesSurvive

LEMMA RowsRemoved ==
  ASSUME ScriptInv, NEW ss \in SUBSET Scripts, Removed(ss), overwritten' = overwritten
  PROVE  TablesTyped' /\ ChangesSurvive'
<1>1. /\ scripts' = [s \in Scripts |-> IF s \in ss THEN NoScript ELSE scripts[s]]
      /\ promised' = [s \in Scripts |-> IF s \in ss THEN NoScript ELSE promised[s]]
      BY DEF Removed
<1>2. TablesTyped'
      BY <1>1 DEF ScriptInv, TablesTyped
<1>3. ChangesSurvive'
      BY <1>1 DEF ScriptInv, ChangesSurvive
<1> QED BY <1>2, <1>3

LEMMA RowInserted ==
  ASSUME ScriptInv, NEW s \in Scripts, NEW row \in ScriptRow, Insert(s, row)
  PROVE  TablesTyped' /\ ChangesSurvive'
<1>1. /\ scripts' = [scripts EXCEPT ![s] = row] /\ promised' = [promised EXCEPT ![s] = row]
      /\ overwritten' = overwritten \ {s}
      BY DEF Insert
<1> QED BY <1>1, OneRowWritten

LEMMA HeldRow ==
  ASSUME ScriptInv, NEW s \in Held
  PROVE  /\ s \in Scripts /\ scripts[s] \in ScriptRow
         /\ [id |-> s, base |-> scripts[s], row |-> scripts[s]] \in Copy
<1>1. s \in Scripts /\ scripts[s] \in ScriptRow
      BY DEF Held, ScriptInv, TablesTyped
<1>2. scripts[s].version <= scripts[s].version
      BY <1>1, RowFields
<1> QED BY <1>1, <1>2 DEF Copy

(* The calls that leave the tables alone *)
LEMMA ScriptsRead ==
  ASSUME ScriptInv, NEW c \in ScriptClients,
         Get(c) \/ Edit(c) \/ Toggled(c) \/ SaveExecution(c) \/ Import(c)
  PROVE  ScriptInv'
<1>1. UNCHANGED <<scripts, promised, overwritten>>
      BY DEF Get, Edit, Toggled, SaveExecution, Import
<1>2. scriptCopy \in [ScriptClients -> Copy \cup {NoScript}]
      /\ scriptStep \in [ScriptClients -> Call]
      BY DEF ScriptInv
<1>3. scriptCopy' \in [ScriptClients -> Copy \cup {NoScript}]
  <2>1. CASE Get(c)
    <3>1. PICK s \in Held : scriptCopy' = [scriptCopy EXCEPT
            ![c] = [id |-> s, base |-> scripts[s], row |-> scripts[s]]]
          BY <2>1 DEF Get
    <3> QED BY <3>1, <1>2, HeldRow
  <2>2. CASE Edit(c)
    <3>1. PICK row \in {ToggleFavorite(scriptCopy[c].row)} \cup
                {UpdateContent(scriptCopy[c].row, text) : text \in Contents} :
            scriptCopy' = [scriptCopy EXCEPT ![c].row = row]
          BY <2>2 DEF Edit
    <3>2. scriptCopy[c] \in Copy /\ scriptCopy[c].row = scriptCopy[c].base
          BY <2>2, <1>2 DEF Edit
    <3>3. [scriptCopy[c] EXCEPT !.row = row] \in Copy
          BY <3>1, <3>2, CopyEdited
    <3> QED BY <3>1, <3>3, <1>2
  <2>3. CASE Toggled(c)
    <3> DEFINE s == scriptStep[c].id
    <3>1. scriptCopy' = [scriptCopy EXCEPT
            ![c] = IF s \in Held THEN [id |-> s, base |-> scripts[s], row |-> scripts[s]] ELSE @]
          BY <2>3 DEF Toggled
    <3>2. s \in Held => [id |-> s, base |-> scripts[s], row |-> scripts[s]] \in Copy
          BY HeldRow
    <3> HIDE DEF s
    <3> QED BY <3>1, <3>2, <1>2
  <2>4. CASE SaveExecution(c) \/ Import(c)
        BY <2>4, <1>2 DEF SaveExecution, Import
  <2> QED BY <2>1, <2>2, <2>3, <2>4
<1>4. scriptStep' \in [ScriptClients -> Call]
  <2>1. CASE Get(c) \/ Edit(c) \/ SaveExecution(c)
        BY <2>1, <1>2 DEF Get, Edit, SaveExecution
  <2>2. CASE Toggled(c)
        BY <2>2, <1>2 DEF Toggled, Call
  <2>3. CASE Import(c)
    <3>1. {scripts[s] : s \in Held} \subseteq ScriptRow
          BY HeldRow
    <3>2. [to |-> "import", rest |-> {scripts[s] : s \in Held}] \in Call
          BY <3>1 DEF Call
    <3> QED BY <3>2, <2>3, <1>2 DEF Import
  <2> QED BY <2>1, <2>2, <2>3
<1> QED BY <1>1, <1>3, <1>4, NoRowWritten DEF ScriptInv

LEMMA CallsBecomeIdle ==
  ASSUME ScriptInv, NEW c \in ScriptClients
  PROVE  [scriptStep EXCEPT ![c] = Idle] \in [ScriptClients -> Call]
  BY DEF ScriptInv, Call

(* create and the steps of import: the id is new *)
LEMMA ScriptsInserted ==
  ASSUME ScriptInv, NEW c \in ScriptClients, Create(c) \/ ImportNext(c)
  PROVE  ScriptInv'
<1>0. scriptCopy \in [ScriptClients -> Copy \cup {NoScript}]
      /\ scriptStep \in [ScriptClients -> Call]
      BY DEF ScriptInv
<1>1. CASE Create(c)
  <2>1. PICK s \in Scripts, text \in Contents :
          /\ Insert(s, New(text)) /\ scriptStep' = scriptStep
          /\ scriptCopy' = [scriptCopy EXCEPT ![c] = [id |-> s, base |-> New(text), row |-> New(text)]]
        BY <1>1 DEF Create
  <2>2. New(text) \in ScriptRow
        BY NewRow
  <2>3. [id |-> s, base |-> New(text), row |-> New(text)] \in Copy
        BY <2>2, RowFields DEF Copy
  <2>4. scriptCopy' \in [ScriptClients -> Copy \cup {NoScript}]
        BY <1>0, <2>1, <2>3
  <2> QED BY <1>0, <2>1, <2>2, <2>4, RowInserted DEF ScriptInv
<1>2. CASE ImportNext(c)
  <2>0. scriptCopy' = scriptCopy /\ scriptStep[c].to = "import"
        BY <1>2 DEF ImportNext
  <2>1. scriptStep[c] \in [to : {"import"}, rest : SUBSET ScriptRow]
        BY <1>0, <2>0 DEF Call, Idle
  <2>2. CASE /\ scriptStep' = [scriptStep EXCEPT ![c] = Idle]
             /\ UNCHANGED <<scripts, executions, promised, overwritten>>
        BY <1>0, <2>0, <2>2, NoRowWritten, CallsBecomeIdle DEF ScriptInv
  <2>3. ASSUME NEW row \in scriptStep[c].rest, NEW s \in Scripts,
               Insert(s, [row EXCEPT !.version = 1, !.usage = 0]),
               scriptStep' = [scriptStep EXCEPT ![c].rest = @ \ {row}]
        PROVE  ScriptInv'
    <3>1. row \in ScriptRow
          BY <2>1, <2>3
    <3>2. [row EXCEPT !.version = 1, !.usage = 0] \in ScriptRow
          BY <3>1, RowsChange
    <3>3. [scriptStep[c] EXCEPT !.rest = @ \ {row}] \in Call
          BY <2>1 DEF Call
    <3>4. scriptStep' \in [ScriptClients -> Call]
          BY <1>0, <2>3, <3>3
    <3> QED BY <1>0, <2>0, <2>3, <3>2, <3>4, RowInserted DEF ScriptInv
  <2> QED BY <1>2, <2>2, <2>3 DEF ImportNext
<1> QED BY <1>1, <1>2

LEMMA ScriptsRemoved ==
  ASSUME ScriptInv, NEW c \in ScriptClients, Delete(c) \/ BulkDelete(c)
  PROVE  ScriptInv'
<1>1. UNCHANGED <<scriptCopy, scriptStep, overwritten>>
      BY DEF Delete, BulkDelete
<1>2. \E ss \in SUBSET Scripts : Removed(ss)
      BY DEF Delete, BulkDelete
<1> QED BY <1>1, <1>2, RowsRemoved DEF ScriptInv

(* The statements that change a row in place do to the row what they        *)
(* promise to                                                               *)
LEMMA ScriptsChangedInPlace ==
  ASSUME ScriptInv, NEW c \in ScriptClients, IncrementUsage(c) \/ Toggle(c)
  PROVE  ScriptInv'
<1>0. /\ scriptCopy \in [ScriptClients -> Copy \cup {NoScript}]
      /\ scriptStep \in [ScriptClients -> Call]
      /\ scripts \in [Scripts -> ScriptRow \cup {NoScript}]
      /\ promised = [t \in Scripts |-> promised[t]]
      /\ UNCHANGED <<scriptCopy, overwritten>>
      BY DEF ScriptInv, TablesTyped, IncrementUsage, Toggle
<1>1. CASE IncrementUsage(c)
  <2>0. PICK s \in Scripts :
          /\ scriptStep' = scriptStep
          /\ IF s \in Held
             THEN /\ scripts' = [scripts EXCEPT ![s].usage = @ + 1]
                  /\ promised' = [promised EXCEPT ![s].usage = @ + 1]
             ELSE UNCHANGED <<scripts, promised>>
        BY <1>1 DEF IncrementUsage
  <2>1. CASE s \notin Held
        BY <1>0, <2>0, <2>1, NoRowWritten DEF ScriptInv
  <2>2. CASE s \in Held
    <3> DEFINE row == [scripts[s] EXCEPT !.usage = @ + 1]
               told == [promised[s] EXCEPT !.usage = @ + 1]
    <3>1. row \in ScriptRow
          BY <2>2, HeldRow, RowsChange
    <3>2. scripts' = [scripts EXCEPT ![s] = row] /\ promised' = [promised EXCEPT ![s] = told]
          BY <2>0, <2>2
    <3>3. s \notin overwritten' => told = row
          BY <1>0 DEF ScriptInv, ChangesSurvive
    <3> HIDE DEF row, told
    <3>4. TablesTyped' /\ ChangesSurvive'
          BY <1>0, <3>1, <3>2, <3>3, OneRowWritten
    <3> QED BY <1>0, <2>0, <3>4 DEF ScriptInv
  <2> QED BY <2>1, <2>2
<1>2. CASE Toggle(c)
  <2>0. PICK s \in Scripts :
          /\ scriptStep' = [scriptStep EXCEPT ![c] = [to |-> "get", id |-> s]]
          /\ IF s \in Held
             THEN /\ scripts' = [scripts EXCEPT ![s] = ToggleFavorite(@)]
                  /\ promised' = [promised EXCEPT ![s] = ToggleFavorite(@)]
             ELSE UNCHANGED <<scripts, promised>>
        BY <1>2 DEF Toggle
  <2>1. scriptStep' \in [ScriptClients -> Call]
    <3>1. [to |-> "get", id |-> s] \in Call
          BY DEF Call
    <3> QED BY <1>0, <2>0, <3>1
  <2>2. CASE s \notin Held
        BY <1>0, <2>0, <2>1, <2>2, NoRowWritten DEF ScriptInv
  <2>3. CASE s \in Held
    <3>1. ToggleFavorite(scripts[s]) \in ScriptRow
          BY <2>3, HeldRow, RowsChange
    <3>2. /\ scripts' = [scripts EXCEPT ![s] = ToggleFavorite(scripts[s])]
          /\ promised' = [promised EXCEPT ![s] = ToggleFavorite(promised[s])]
          BY <2>0, <2>3
    <3>3. s \notin overwritten' => ToggleFavorite(promised[s]) = ToggleFavorite(scripts[s])
          BY <1>0 DEF ScriptInv, ChangesSurvive
    <3>4. TablesTyped' /\ ChangesSurvive'
          BY <1>0, <3>1, <3>2, <3>3, OneRowWritten
    <3> QED BY <1>0, <2>1, <3>4 DEF ScriptInv
  <2> QED BY <2>2, <2>3
<1> QED BY <1>1, <1>2

(* A copy of the row as it is was made from all of the row: what it says of *)
(* the uses is what was counted, and what it adds to the version is what    *)
(* its caller updated.                                                      *)
LEMMA CurrentCopyKeepsPromise ==
  ASSUME NEW copy \in Copy
  PROVE  [copy.row EXCEPT !.usage = copy.base.usage,
            !.version = copy.base.version + 1 + (copy.row.version - copy.base.version)]
         = StoredRow(copy.row)
<1> DEFINE r == copy.row
           b == copy.base
           v == b.version + 1 + (r.version - b.version)
<1>1. r \in ScriptRow /\ b \in ScriptRow /\ r.usage = b.usage /\ r.version >= b.version
      BY DEF Copy
<1> HIDE DEF r, b
<1>2. v = r.version + 1 /\ r.version \in Nat
      BY <1>1, RowFields
<1>3. r = [content |-> r.content, favorite |-> r.favorite, version |-> r.version, usage |-> r.usage]
      BY <1>1, RowFields
<1> HIDE DEF v
<1>4. [r EXCEPT !.usage = b.usage] = r
      BY <1>1, <1>3
<1>5. [[r EXCEPT !.usage = b.usage] EXCEPT !.version = v] = [r EXCEPT !.version = r.version + 1]
      BY <1>2, <1>4
<1> QED BY <1>5 DEF StoredRow, r, b, v

LEMMA ScriptsUpdated ==
  ASSUME ScriptInv, NEW c \in ScriptClients, Update(c)
  PROVE  ScriptInv'
<1> DEFINE copy == scriptCopy[c]
           s == copy.id
           row == StoredRow(copy.row)
           told == [copy.row EXCEPT !.usage = promised[s].usage,
                     !.version = promised[s].version + 1 +
                                 (copy.row.version - copy.base.version)]
<1>0. /\ scriptCopy \in [ScriptClients -> Copy \cup {NoScript}]
      /\ scriptStep \in [ScriptClients -> Call] /\ scriptStep' = scriptStep
      /\ copy \in Copy
      BY DEF ScriptInv, Update
<1>1. CASE s \notin Held
  <2>1. scriptCopy' = [scriptCopy EXCEPT ![c] = NoScript] /\ UNCHANGED <<scripts, promised, overwritten>>
        BY <1>1 DEF Update
  <2>2. scriptCopy' \in [ScriptClients -> Copy \cup {NoScript}]
        BY <1>0, <2>1
  <2> QED BY <1>0, <2>1, <2>2, NoRowWritten DEF ScriptInv
<1>2. CASE s \in Held
  <2>1. /\ scripts' = [scripts EXCEPT ![s] = row] /\ promised' = [promised EXCEPT ![s] = told]
        /\ overwritten' = IF copy.base = scripts[s] THEN overwritten ELSE overwritten \cup {s}
        /\ scriptCopy' = [scriptCopy EXCEPT ![c].base = row, ![c].row = row]
        BY <1>2 DEF Update
  <2>2. s \in Scripts /\ copy.row \in ScriptRow /\ row \in ScriptRow
        BY <1>0, RowsChange DEF Copy
  <2>3. ASSUME s \notin overwritten'
        PROVE  told = row
    <3>1. copy.base = scripts[s] /\ scripts[s] = promised[s]
          BY <2>1, <2>2, <2>3 DEF ScriptInv, ChangesSurvive
    <3>2. told = [copy.row EXCEPT !.usage = copy.base.usage,
            !.version = copy.base.version + 1 + (copy.row.version - copy.base.version)]
          BY <3>1
    <3> QED BY <1>0, <3>2, CurrentCopyKeepsPromise
  <2>4. scriptCopy' \in [ScriptClients -> Copy \cup {NoScript}]
    <3> DEFINE rebased == [scriptCopy EXCEPT ![c].base = row]
               stored == [id |-> s, base |-> row, row |-> row]
    <3>1. stored \in Copy
          BY <2>2, RowFields DEF Copy
    <3>2. copy = [id |-> s, base |-> copy.base, row |-> copy.row]
          BY <1>0 DEF Copy
    <3>3. rebased[c] = [id |-> s, base |-> row, row |-> copy.row]
          /\ DOMAIN rebased = ScriptClients /\ \A d \in ScriptClients : d # c => rebased[d] = scriptCopy[d]
          BY <1>0, <3>2
    <3>4. scriptCopy' = [rebased EXCEPT ![c].row = row]
          BY <2>1
    <3> HIDE DEF rebased, stored
    <3>5. scriptCopy'[c] = [rebased[c] EXCEPT !.row = row] /\ DOMAIN scriptCopy' = ScriptClients
          /\ \A d \in ScriptClients : d # c => scriptCopy'[d] = scriptCopy[d]
          BY <3>3, <3>4
    <3>6. scriptCopy'[c] = stored
          BY <3>3, <3>5 DEF stored
    <3>7. scriptCopy' = [d \in ScriptClients |-> scriptCopy'[d]]
          BY <3>4, <3>3
    <3> QED BY <1>0, <3>1, <3>5, <3>6, <3>7
  <2> HIDE DEF row, told, s
  <2>5. TablesTyped' /\ ChangesSurvive'
        BY <2>1, <2>2, <2>3, OneRowWritten
  <2> QED BY <1>0, <2>4, <2>5 DEF ScriptInv
<1> QED BY <1>1, <1>2

(* Whatever the callers do, every row and every copy in hand stays typed.   *)
LEMMA ScriptInvariant == ScriptSpec => []ScriptInv
<1>1. ScriptInit => ScriptInv
      BY DEF ScriptInit, ScriptInv, TablesTyped, ChangesSurvive, Call
<1>2. ScriptInv /\ [ScriptNext]_scriptVars => ScriptInv'
  <2> SUFFICES ASSUME ScriptInv, [ScriptNext]_scriptVars PROVE ScriptInv'
      OBVIOUS
  <2>1. CASE UNCHANGED scriptVars
    <3>1. UNCHANGED <<scriptCopy, scriptStep>> /\ UNCHANGED <<scripts, promised, overwritten>>
          BY <2>1 DEF scriptVars
    <3> QED BY <3>1, NoRowWritten DEF ScriptInv
  <2>2. ASSUME NEW c \in ScriptClients, Get(c) \/ Edit(c) \/ Toggled(c) \/ SaveExecution(c) \/ Import(c)
        PROVE  ScriptInv'
        BY <2>2, ScriptsRead
  <2>3. ASSUME NEW c \in ScriptClients, Create(c) \/ ImportNext(c)
        PROVE  ScriptInv'
        BY <2>3, ScriptsInserted
  <2>4. ASSUME NEW c \in ScriptClients, Delete(c) \/ BulkDelete(c)
        PROVE  ScriptInv'
        BY <2>4, ScriptsRemoved
  <2>5. ASSUME NEW c \in ScriptClients, IncrementUsage(c) \/ Toggle(c)
        PROVE  ScriptInv'
        BY <2>5, ScriptsChangedInPlace
  <2>6. ASSUME NEW c \in ScriptClients, Update(c)
        PROVE  ScriptInv'
        BY <2>6, ScriptsUpdated
  <2> QED BY <2>1, <2>2, <2>3, <2>4, <2>5, <2>6 DEF ScriptNext
<1> QED BY <1>1, <1>2, PTL DEF ScriptSpec

(* Whatever any number of callers do, a script is as the acknowledged calls *)
(* left it - its uses counted, its favourite toggled, its content and       *)
(* version updated - until an update is given a copy that is out of date.   *)
THEOREM AcknowledgedChangesSurvive == ScriptSpec => []ChangesSurvive
<1>1. ScriptInv => ChangesSurvive
      BY DEF ScriptInv
<1> QED BY <1>1, ScriptInvariant, PTL

-----------------------------------------------------------------------------
(* The monitors and the sampler *)

MonitorNext ==
  \/ PluginNext /\ UNCHANGED <<networkMonitorVars, samplerVars>>
  \/ NetworkMonitorNext /\ UNCHANGED <<pluginVars, samplerVars>>
  \/ SamplerNext /\ UNCHANGED <<pluginVars, networkMonitorVars>>

MonitorSpec == MonitorInit /\ [][MonitorNext]_<<pluginVars, networkMonitorVars, samplerVars>>

Answered == {"read", "recorded"}

(* A call against the log, what the monitor holds of it and its limit: what *)
(* it holds is no older than a call that has refreshed it, until that call  *)
(* has read it.                                                             *)
Fits(call, systems, position, top) ==
  /\ call = [at |-> call.at, from |-> call.from, answer |-> call.answer]
  /\ call.from \in 0..Len(systems) /\ (call.at # "idle" => call.from > 0)
  /\ call.at = "refreshed" => call.from <= position
  /\ IF call.at \in Answered
     THEN \E i \in call.from..Len(systems) : call.answer \in Points(systems[i], top)
     ELSE call.answer = NoAnswer

MonitorsCollect ==
  /\ log \in Seq(Systems) /\ held \in 1..Len(log)
  /\ monitor = [status |-> monitor.status, interval |-> monitor.interval,
                top |-> monitor.top, collected |-> monitor.collected]
  /\ monitor.collected \in Nat /\ answers \in Nat
  /\ collection = [c \in Collectors |-> collection[c]]
  /\ \A c \in Collectors : Fits(collection[c], log, held, monitor.top)
  /\ monitor.collected = answers + Cardinality({c \in Collectors : Returning(c)})

Sampled ==
  /\ bytes \in Nat /\ seenBytes \in 0..bytes /\ reported \in Nat
  /\ snapshot = [by |-> snapshot.by, rate |-> snapshot.rate] /\ snapshot.rate \in Nat
  /\ snapshot.by = Nobody => snapshot.rate = 0
  /\ reported + snapshot.rate <= seenBytes
  /\ ~lostCounters => reported + snapshot.rate = seenBytes

LEMMA FitsALongerLog ==
  ASSUME NEW call, NEW systems \in Seq(Systems), NEW s \in Systems,
         NEW position \in Nat, NEW top, Fits(call, systems, position, top)
  PROVE  Fits(call, Append(systems, s), position, top)
<1> DEFINE longer == Append(systems, s)
<1>1. Len(longer) = Len(systems) + 1 /\ Len(systems) \in Nat
      /\ \A i \in 1..Len(systems) : longer[i] = systems[i]
      OBVIOUS
<1> HIDE DEF longer
<1>2. call.from \in 0..Len(longer)
      BY <1>1 DEF Fits
<1>3. Fits(call, longer, position, top)
  <2>1. CASE call.at \in Answered
    <3>1. PICK i \in call.from..Len(systems) : call.answer \in Points(systems[i], top)
          BY <2>1 DEF Fits
    <3>2. i \in call.from..Len(longer)
          BY <1>1, <1>2
    <3>3. i \in 1..Len(systems)
          BY <1>1, <2>1 DEF Fits, Answered
    <3> QED BY <1>1, <1>2, <2>1, <3>1, <3>2, <3>3 DEF Fits
  <2>2. CASE call.at \notin Answered
        BY <1>2, <2>2 DEF Fits
  <2> QED BY <2>1, <2>2
<1> QED BY <1>3 DEF longer

LEMMA MonitorIs ==
  ASSUME MonitorsCollect, NEW interval, NEW status, NEW top, NEW collected
  PROVE  /\ [monitor EXCEPT !.interval = interval] =
            [status |-> monitor.status, interval |-> interval,
             top |-> monitor.top, collected |-> monitor.collected]
         /\ [monitor EXCEPT !.interval = interval, !.status = status, !.top = top] =
            [status |-> status, interval |-> interval, top |-> top, collected |-> monitor.collected]
         /\ [monitor EXCEPT !.status = status] =
            [status |-> status, interval |-> monitor.interval,
             top |-> monitor.top, collected |-> monitor.collected]
         /\ [monitor EXCEPT !.collected = collected] =
            [status |-> monitor.status, interval |-> monitor.interval,
             top |-> monitor.top, collected |-> collected]
<1> DEFINE slower == [monitor EXCEPT !.interval = interval]
           started == [slower EXCEPT !.status = status]
<1>0. monitor = [status |-> monitor.status, interval |-> monitor.interval,
                 top |-> monitor.top, collected |-> monitor.collected]
      BY DEF MonitorsCollect
<1>1. slower = [status |-> monitor.status, interval |-> interval,
                top |-> monitor.top, collected |-> monitor.collected]
      BY <1>0
<1>2. [monitor EXCEPT !.status = status] =
        [status |-> status, interval |-> monitor.interval,
         top |-> monitor.top, collected |-> monitor.collected]
      BY <1>0
<1>3. [monitor EXCEPT !.collected = collected] =
        [status |-> monitor.status, interval |-> monitor.interval,
         top |-> monitor.top, collected |-> collected]
      BY <1>0
<1> HIDE DEF slower
<1>4. started = [status |-> status, interval |-> interval,
                 top |-> monitor.top, collected |-> monitor.collected]
      BY <1>1
<1> HIDE DEF started
<1>5. [started EXCEPT !.top = top] =
        [status |-> status, interval |-> interval, top |-> top, collected |-> monitor.collected]
      BY <1>4
<1> QED BY <1>1, <1>2, <1>3, <1>5 DEF slower, started

LEMMA CollectedStep ==
  ASSUME MonitorsCollect, PluginNext
  PROVE  MonitorsCollect'
<1>0. /\ log \in Seq(Systems) /\ Len(log) \in Nat /\ held \in 1..Len(log)
      /\ monitor.collected \in Nat /\ answers \in Nat
      /\ collection = [c \in Collectors |-> collection[c]]
      /\ \A c \in Collectors : Fits(collection[c], log, held, monitor.top)
      BY DEF MonitorsCollect
<1>1. CASE SystemChanges
  <2>1. PICK s \in Systems : log' = Append(log, s)
        BY <1>1 DEF SystemChanges
  <2>2. UNCHANGED <<held, monitor, collection, answers>>
        BY <1>1 DEF SystemChanges
  <2>3. \A c \in Collectors : Fits(collection'[c], log', held', monitor'.top)
        BY <1>0, <2>1, <2>2, FitsALongerLog
  <2>4. log' \in Seq(Systems) /\ held' \in 1..Len(log')
        BY <1>0, <2>1, <2>2
  <2> QED BY <2>2, <2>3, <2>4 DEF MonitorsCollect, Returning
<1>2. ASSUME NEW setting \in Settings, InitMonitor(setting)
      PROVE  MonitorsCollect'
  <2>1. /\ log' = log /\ collection' = collection /\ answers' = answers
        /\ \A c \in Collectors : collection[c].at = "idle"
        BY <1>2 DEF InitMonitor
  <2>2. held' \in 1..Len(log)
        BY <1>0, <1>2 DEF InitMonitor, Refreshed
  <2>3. /\ monitor' = [status |-> monitor'.status, interval |-> monitor'.interval,
                       top |-> monitor'.top, collected |-> monitor'.collected]
        /\ monitor'.collected = monitor.collected
    <3>1. CASE monitor' = [monitor EXCEPT !.interval = 0]
          BY <3>1, MonitorIs
    <3>2. CASE monitor' = [monitor EXCEPT
             !.interval = setting.interval, !.status = "running",
             !.top = IF setting.top = NotANumber THEN @ ELSE setting.top]
          BY <3>2, MonitorIs
    <3> QED BY <1>2, <3>1, <3>2 DEF InitMonitor
  <2>4. \A c \in Collectors : Fits(collection'[c], log', held', monitor'.top)
        BY <1>0, <2>1 DEF Fits, Answered
  <2> QED BY <1>0, <2>1, <2>2, <2>3, <2>4 DEF MonitorsCollect, Returning
<1>3. CASE StartMonitor \/ StopMonitor
  <2>1. UNCHANGED <<log, held, collection, answers>>
        BY <1>3 DEF StartMonitor, StopMonitor
  <2>2. /\ monitor' = [status |-> monitor'.status, interval |-> monitor'.interval,
                       top |-> monitor'.top, collected |-> monitor'.collected]
        /\ monitor'.collected = monitor.collected /\ monitor'.top = monitor.top
        BY <1>3, MonitorIs DEF StartMonitor, StopMonitor
  <2> QED BY <1>0, <2>1, <2>2 DEF MonitorsCollect, Returning
<1>4. ASSUME NEW c \in Collectors, CallCollect(c)
      PROVE  MonitorsCollect'
  <2> DEFINE call == [at |-> "called", from |-> Len(log), answer |-> NoAnswer]
  <2>1. /\ collection' = [collection EXCEPT ![c] = call]
        /\ UNCHANGED <<log, held, monitor, answers>> /\ collection[c].at = "idle"
        BY <1>4 DEF CallCollect
  <2>2. Fits(call, log, held, monitor.top)
        BY <1>0 DEF Fits, Answered
  <2>3. call.at = "called"
        OBVIOUS
  <2> HIDE DEF call
  <2>4. {d \in Collectors : Returning(d)}' = {d \in Collectors : Returning(d)}
        BY <1>0, <2>1, <2>3 DEF Returning
  <2> QED BY <1>0, <2>1, <2>2, <2>4 DEF MonitorsCollect
<1>5. ASSUME NEW c \in Collectors, Refresh(c)
      PROVE  MonitorsCollect'
  <2>1. /\ collection' = [collection EXCEPT ![c].at = "refreshed"] /\ held' = Len(log)
        /\ UNCHANGED <<log, monitor, answers>> /\ collection[c].at = "called"
        BY <1>5 DEF Refresh, StepCollect, Refreshed
  <2> DEFINE call == [collection[c] EXCEPT !.at = "refreshed"]
  <2>2. call = [at |-> "refreshed", from |-> collection[c].from, answer |-> collection[c].answer]
        BY <1>0 DEF Fits
  <2>3. collection' = [collection EXCEPT ![c] = call]
        BY <2>1
  <2>4. Fits(call, log, Len(log), monitor.top) /\ call.at = "refreshed"
        BY <1>0, <2>1, <2>2 DEF Fits, Answered
  <2>5. \A d \in Collectors : Fits(collection[d], log, Len(log), monitor.top)
        BY <1>0 DEF Fits
  <2> HIDE DEF call
  <2>6. {d \in Collectors : Returning(d)}' = {d \in Collectors : Returning(d)}
        BY <1>0, <2>1, <2>3, <2>4 DEF Returning
  <2>7. Len(log) \in 1..Len(log)
        BY <1>0
  <2> QED BY <1>0, <2>1, <2>3, <2>4, <2>5, <2>6, <2>7 DEF MonitorsCollect
<1>6. ASSUME NEW c \in Collectors, ReadSystem(c)
      PROVE  MonitorsCollect'
  <2>1. PICK p \in Points(log[held], monitor.top) :
          collection' = [collection EXCEPT ![c].at = "read", ![c].answer = p]
        BY <1>6 DEF ReadSystem
  <2>2. UNCHANGED <<log, held, monitor, answers>> /\ collection[c].at = "refreshed"
        BY <1>6 DEF ReadSystem
  <2> DEFINE call == [at |-> "read", from |-> collection[c].from, answer |-> p]
             begun == [collection EXCEPT ![c].at = "read"]
  <2>3. collection' = [collection EXCEPT ![c] = call]
    <3>1. collection' = [begun EXCEPT ![c].answer = p]
          BY <2>1
    <3>2. /\ begun[c] = [at |-> "read", from |-> collection[c].from, answer |-> collection[c].answer]
          /\ DOMAIN begun = Collectors /\ \A d \in Collectors : d # c => begun[d] = collection[d]
          BY <1>0 DEF Fits
    <3> HIDE DEF begun
    <3>3. /\ collection'[c] = call /\ collection' = [d \in Collectors |-> collection'[d]]
          /\ \A d \in Collectors : d # c => collection'[d] = collection[d]
      <4>1. collection'[c] = [begun[c] EXCEPT !.answer = p]
            /\ collection' = [d \in Collectors |-> collection'[d]]
            /\ \A d \in Collectors : d # c => collection'[d] = begun[d]
            BY <3>1, <3>2
      <4>2. [begun[c] EXCEPT !.answer = p] = call
            BY <3>2
      <4> HIDE DEF call
      <4> QED BY <3>2, <4>1, <4>2
    <3> HIDE DEF call
    <3> QED BY <1>0, <3>3
  <2>4. Fits(call, log, held, monitor.top) /\ call.at = "read"
    <3>1. /\ held \in collection[c].from..Len(log) /\ collection[c].from \in 0..Len(log)
          /\ collection[c].from > 0
          BY <1>0, <2>2 DEF Fits
    <3>2. /\ call.at = "read" /\ call.from = collection[c].from /\ call.answer = p
          /\ call = [at |-> call.at, from |-> call.from, answer |-> call.answer]
          OBVIOUS
    <3> HIDE DEF call
    <3>3. p \in Points(log[held], monitor.top)
          OBVIOUS
    <3> QED BY <3>1, <3>2, <3>3 DEF Fits, Answered
  <2> HIDE DEF call
  <2>5. {d \in Collectors : Returning(d)}' = {d \in Collectors : Returning(d)}
        BY <1>0, <2>2, <2>3, <2>4 DEF Returning
  <2> QED BY <1>0, <2>2, <2>3, <2>4, <2>5 DEF MonitorsCollect
<1>7. ASSUME NEW c \in Collectors, RecordCollection(c)
      PROVE  MonitorsCollect'
  <2>1. /\ collection' = [collection EXCEPT ![c].at = "recorded"]
        /\ monitor' = [monitor EXCEPT !.collected = @ + 1]
        /\ UNCHANGED <<log, held, answers>> /\ collection[c].at = "read"
        BY <1>7 DEF RecordCollection, StepCollect
  <2> DEFINE call == [collection[c] EXCEPT !.at = "recorded"]
             returning == {d \in Collectors : Returning(d)}
  <2>2. call = [at |-> "recorded", from |-> collection[c].from, answer |-> collection[c].answer]
        BY <1>0 DEF Fits
  <2>3. collection' = [collection EXCEPT ![c] = call]
        BY <2>1
  <2>4. Fits(call, log, held, monitor.top) /\ call.at = "recorded"
        BY <1>0, <2>1, <2>2 DEF Fits, Answered
  <2> HIDE DEF call
  <2>5. returning' = returning \cup {c} /\ c \notin returning
        BY <1>0, <2>1, <2>3, <2>4 DEF Returning
  <2>6. IsFiniteSet(returning)
        BY MonitorAssumption, FS_Subset
  <2>7. Cardinality(returning') = Cardinality(returning) + 1 /\ Cardinality(returning) \in Nat
        BY <2>5, <2>6, FS_AddElement, FS_CardinalityType
  <2>8. /\ monitor' = [status |-> monitor'.status, interval |-> monitor'.interval,
                       top |-> monitor'.top, collected |-> monitor'.collected]
        /\ monitor'.top = monitor.top /\ monitor'.collected = monitor.collected + 1
        BY <2>1, MonitorIs
  <2>9. monitor.collected = answers + Cardinality(returning)
        BY DEF MonitorsCollect
  <2> HIDE DEF returning
  <2>10. monitor'.collected \in Nat /\ monitor'.collected = answers' + Cardinality(returning')
        BY <1>0, <2>1, <2>7, <2>8, <2>9
  <2> QED BY <1>0, <2>1, <2>3, <2>4, <2>8, <2>10 DEF MonitorsCollect, returning
<1>8. ASSUME NEW c \in Collectors, ReturnCollection(c)
      PROVE  MonitorsCollect'
  <2>1. /\ collection' = [collection EXCEPT ![c] = NoCollection] /\ answers' = answers + 1
        /\ UNCHANGED <<log, held, monitor>> /\ collection[c].at = "recorded"
        BY <1>8 DEF ReturnCollection
  <2> DEFINE returning == {d \in Collectors : Returning(d)}
  <2>2. Fits(NoCollection, log, held, monitor.top) /\ NoCollection.at = "idle"
        BY <1>0 DEF Fits, Answered, NoCollection
  <2>3. returning' = returning \ {c} /\ c \in returning
        BY <1>0, <2>1, <2>2 DEF Returning
  <2>4. IsFiniteSet(returning)
        BY MonitorAssumption, FS_Subset
  <2>5. Cardinality(returning') = Cardinality(returning) - 1 /\ Cardinality(returning) \in Nat
        BY <2>3, <2>4, FS_RemoveElement, FS_CardinalityType
  <2>6. monitor.collected = answers + Cardinality(returning)
        BY DEF MonitorsCollect
  <2> HIDE DEF returning
  <2>7. monitor'.collected = answers' + Cardinality(returning') /\ answers' \in Nat
        BY <1>0, <2>1, <2>5, <2>6
  <2> QED BY <1>0, <2>1, <2>2, <2>7 DEF MonitorsCollect, returning
<1> QED BY <1>1, <1>2, <1>3, <1>4, <1>5, <1>6, <1>7, <1>8 DEF PluginNext

(* The rates read so far and the one in hand are the bytes that were seen,  *)
(* as long as no rate was dropped                                           *)
LEMMA SampledStep ==
  ASSUME Sampled, SamplerNext
  PROVE  Sampled'
<1>0. /\ bytes \in Nat /\ seenBytes \in 0..bytes /\ reported \in Nat /\ snapshot.rate \in Nat
      /\ snapshot.by = Nobody => snapshot.rate = 0
      /\ reported + snapshot.rate <= seenBytes
      /\ ~lostCounters => reported + snapshot.rate = seenBytes
      BY DEF Sampled
<1>1. CASE BytesArrive
      BY <1>1 DEF BytesArrive, Sampled
<1>2. ASSUME NEW c \in Collectors, RefreshNetworks(c)
      PROVE  Sampled'
  <2>1. /\ snapshot' = [by |-> c, rate |-> bytes - seenBytes] /\ seenBytes' = bytes
        /\ UNCHANGED <<bytes, reported, lostCounters>> /\ snapshot.by = Nobody
        BY <1>2 DEF RefreshNetworks
  <2>2. snapshot'.by = c /\ snapshot'.rate = bytes - seenBytes
        BY <2>1
  <2> QED BY <1>0, <2>1, <2>2, MonitorAssumption DEF Sampled
<1>3. ASSUME NEW c \in Collectors, AnswerStatistics(c)
      PROVE  Sampled'
  <2>1. snapshot' = [by |-> Nobody, rate |-> 0] /\ UNCHANGED <<bytes, seenBytes>>
        BY <1>3 DEF AnswerStatistics, NoSnapshot
  <2>2. snapshot'.by = Nobody /\ snapshot'.rate = 0
        BY <2>1
  <2>3. CASE reported' = reported + snapshot.rate /\ lostCounters' = lostCounters
        BY <1>0, <2>1, <2>2, <2>3 DEF Sampled
  <2>4. CASE lostCounters' = TRUE /\ reported' = reported
        BY <1>0, <2>1, <2>2, <2>4 DEF Sampled
  <2> QED BY <1>3, <2>3, <2>4 DEF AnswerStatistics
<1> QED BY <1>1, <1>2, <1>3 DEF SamplerNext

(* Calls of collect fit the log all along, and the rates the bytes seen.     *)
LEMMA MonitorInvariant == MonitorSpec => [](MonitorsCollect /\ Sampled)
<1>1. MonitorInit => MonitorsCollect /\ Sampled
  <2> SUFFICES ASSUME MonitorInit PROVE MonitorsCollect /\ Sampled
      OBVIOUS
  <2>1. MonitorsCollect
    <3>1. PICK s \in Systems : log = <<s>>
          BY DEF MonitorInit
    <3>2. /\ held = 1 /\ answers = 0 /\ collection = [c \in Collectors |-> NoCollection]
          /\ monitor = [status |-> "stopped", interval |-> 60, top |-> 10, collected |-> 0]
          BY DEF MonitorInit
    <3>3. log \in Seq(Systems) /\ Len(log) = 1
          BY <3>1
    <3>4. \A c \in Collectors : Fits(collection[c], log, held, monitor.top)
          BY <3>2, <3>3 DEF Fits, Answered, NoCollection
    <3>5. {c \in Collectors : Returning(c)} = {}
          BY <3>2 DEF Returning, NoCollection
    <3>6. monitor.collected = 0 /\ monitor.collected = answers + Cardinality({c \in Collectors : Returning(c)})
          BY <3>2, <3>5, FS_EmptySet
    <3> QED BY <3>2, <3>3, <3>4, <3>6 DEF MonitorsCollect
  <2>2. Sampled
        BY DEF MonitorInit, Sampled, NoSnapshot
  <2> QED BY <2>1, <2>2
<1>2. MonitorsCollect /\ Sampled /\ [MonitorNext]_<<pluginVars, networkMonitorVars, samplerVars>>
      => MonitorsCollect' /\ Sampled'
  <2> SUFFICES ASSUME MonitorsCollect, Sampled, [MonitorNext]_<<pluginVars, networkMonitorVars, samplerVars>>
               PROVE  MonitorsCollect' /\ Sampled'
      OBVIOUS
  <2>1. UNCHANGED pluginVars => MonitorsCollect'
        BY DEF pluginVars, MonitorsCollect, Returning
  <2>2. UNCHANGED samplerVars => Sampled'
        BY DEF samplerVars, Sampled
  <2> QED BY <2>1, <2>2, CollectedStep, SampledStep DEF MonitorNext
<1> QED BY <1>1, <1>2, PTL DEF MonitorSpec

(* With any number of threads collecting at once, while the system changes  *)
(* and the monitor is stopped, started or set anew, an answer is of one     *)
(* moment of its own call, the statistics count the collections that return *)
(* and the answers share out the bytes the sampler saw.                     *)
THEOREM AnswersAreOfTheirMoment == MonitorSpec => []SamplesAreExact
<1>1. MonitorsCollect /\ Sampled => SamplesAreExact
  <2> SUFFICES ASSUME MonitorsCollect, Sampled PROVE SamplesAreExact
      OBVIOUS
  <2>1. ASSUME NEW c \in Collectors, collection[c].answer # NoAnswer
        PROVE  \E i \in collection[c].from..Len(log) :
                 collection[c].answer \in Points(log[i], monitor.top)
    <3>1. Fits(collection[c], log, held, monitor.top)
          BY DEF MonitorsCollect
    <3> QED BY <2>1, <3>1 DEF Fits
  <2> QED BY <2>1 DEF SamplesAreExact, MonitorsCollect, Sampled
<1> QED BY <1>1, MonitorInvariant, PTL

-----------------------------------------------------------------------------
(* The file transfers *)

TransferSpec == TransferInit /\ [][TransferNext]_transferVars

Data == Bytes \cup {Zero}
FileContents == Seq(Data)

(* A file is no longer than the limit, or than it was found                  *)
BoundedFiles ==
  {data \in FileContents : Len(data) <= MaxFileSize \/ Len(data) <= Len(Found)}

Chunks == {c \in [number : Nat, position : 0..MaxFileSize, byte : Bytes, close : BOOLEAN] :
             WithinLimits(c.position)}
ChunkAtMost == {<< >>} \cup {<<c>> : c \in Chunks}

Busy == {"next", "write", "close", "finalize", "hash"}
UploadCalls ==
  [step : Busy \cup {"done", "failed"}, path : ManagedFiles \cup {NoFile},
   file : Inodes \cup {NoFile}, chunk : ChunkAtMost, queued : ChunkAtMost,
   look : {"none", "program", "plain", "unread"}, sha256 : BoundedFiles \cup {NoFile}]

(* What an upload has in its hands at each of its steps                      *)
UploadFits(call) ==
  /\ call \in UploadCalls
  /\ call.step \in Busy /\ call.path # NoFile => call.file \in Inodes
  /\ call.step \in {"write", "close", "finalize", "hash"} => call.path # NoFile
  /\ call.step = "write" => call.chunk # << >>
  /\ call.step = "hash" => call.look # "none"
  /\ call.queued # << >> => call.step \in Busy /\ call.path # NoFile
  /\ call.look # "none" =>
       call.queued = << >> /\ call.step \in {"close", "finalize", "hash", "done"}

(* Two names are never of one inode, and a new inode is one nothing has had. *)
NamesFit ==
  /\ transfers \in 0..MaxTransfers
  /\ named \in [ManagedFiles -> ManagedFiles \cup 1..transfers \cup {NoFile}]
  /\ \A f, g \in ManagedFiles : f # g /\ named[f] # NoFile => named[f] # named[g]

(* The file an upload has open still has the name it was opened by, and no   *)
(* other upload and no write of a dropped file is under way to either.       *)
Alone(u) == Active(u) =>
  /\ upload[u].file = named[upload[u].path]
  /\ \A v \in Uploads \ {u} : Active(v) =>
       upload[v].path # upload[u].path /\ upload[v].file # upload[u].file
  /\ \A w \in strays : w.file # upload[u].file

(* It is as the upload expects it once the write on its way has landed; what *)
(* looks_executable said, and the mode, are those of these bytes.            *)
Landed(data, queued) ==
  IF queued = << >> THEN data ELSE WriteAt(data, queued[1].position, queued[1].byte)

AsWritten(u) ==
  /\ Active(u) => /\ Landed(content[upload[u].file], upload[u].queued) = expected[u]
                  /\ upload[u].look \in {"none", "unread", ModeOf(upload[u].path, expected[u])}
  /\ upload[u].step = "hash" => mode[upload[u].file] =
       IF upload[u].look = "unread" THEN "plain" ELSE ModeOf(upload[u].path, expected[u])
  /\ upload[u].step = "done" /\ upload[u].path # NoFile => upload[u].sha256 = expected[u]

(* No upload and no write of a dropped file is under way to the file of a    *)
(* download, which is still the one of that name when it is opened.          *)
ReadsAlone(d) == download[d].step \in {"open", "read"} =>
  /\ \A u \in Uploads : Active(u) => upload[u].file # download[d].file
  /\ \A w \in strays : w.file # download[d].file
  /\ download[d].step = "open" => named[download[d].path] = download[d].file

(* The file of a download is as it was, and what was got of it so far are   *)
(* its bytes from the start that was asked for on.                          *)
DownloadExact(r, files) ==
  /\ r.step \in {"open", "read"} =>
       /\ r = [step |-> r.step, path |-> r.path, file |-> r.file, total |-> r.total,
               start |-> r.start, got |-> r.got, was |-> r.was]
       /\ r.path \in ManagedFiles /\ r.file \in Inodes /\ files[r.file] = r.was
       /\ r.was \in FileContents /\ r.got \in FileContents /\ r.start \in Nat
       /\ r.total = Len(r.was)
       /\ r.got = << >> \/ r.start + Len(r.got) <= Len(r.was)
       /\ \A i \in 1..Len(r.got) : r.got[i] = r.was[r.start + i]
  /\ r.step = "completed" => r.got = SubSeq(r.was, r.start + 1, Len(r.was))

TransferTables ==
  /\ content \in [Inodes -> BoundedFiles] /\ mode = [i \in Inodes |-> mode[i]]
  /\ upload = [u \in Uploads |-> upload[u]] /\ \A u \in Uploads : UploadFits(upload[u])
  /\ strays \subseteq [file : Inodes, chunk : Chunks]
  /\ download = [d \in Downloads |-> download[d]] /\ expected = [u \in Uploads |-> expected[u]]
  /\ shared \subseteq Uploads \cup Downloads

TransferInv ==
  /\ NamesFit /\ TransferTables
  /\ \A u \in Uploads \ shared : Alone(u) /\ AsWritten(u)
  /\ \A d \in Downloads \ shared : ReadsAlone(d) /\ DownloadExact(download[d], content)

LEMMA InodesAreNotNoFile ==
  /\ NoFile \notin Inodes /\ NoFile \notin ManagedFiles /\ MaxFileSize \in Nat
  /\ MaxTransfers \in Nat /\ \A n \in Nat : n \notin ManagedFiles /\ n # NoFile
BY TransferAssumption DEF Inodes

LEMMA ChunkIs ==
  ASSUME NEW queued \in ChunkAtMost, queued # << >>
  PROVE  /\ queued[1] \in Chunks /\ queued = <<queued[1]>> /\ Range(queued) = {queued[1]}
         /\ queued[1].position \in Nat /\ queued[1].position + 1 <= MaxFileSize
         /\ queued[1].byte \in Bytes /\ queued[1].close \in BOOLEAN
<1>1. PICK c \in Chunks : queued = <<c>>
      BY DEF ChunkAtMost
<1>2. queued[1] = c /\ Range(queued) = {c}
      BY <1>1 DEF Range
<1> QED BY <1>1, <1>2, InodesAreNotNoFile DEF Chunks, WithinLimits

LEMMA ChunksFit ==
  ASSUME NEW n \in Nat, NEW position \in 0..MaxFileSize, NEW byte \in Bytes,
         NEW close \in BOOLEAN, WithinLimits(position)
  PROVE  /\ [number |-> n, position |-> position, byte |-> byte, close |-> close] \in Chunks
         /\ <<[number |-> n, position |-> position, byte |-> byte, close |-> close]>>
              \in ChunkAtMost \ {<< >>}
BY DEF Chunks, ChunkAtMost

LEMMA WriteAtKeepsData ==
  ASSUME NEW found \in FileContents, NEW position \in Nat, NEW byte \in Bytes
  PROVE  /\ WriteAt(found, position, byte) \in FileContents
         /\ Len(WriteAt(found, position, byte))
              = IF position < Len(found) THEN Len(found) ELSE position + 1
<1> DEFINE n == IF position < Len(found) THEN Len(found) ELSE position + 1
<1>1. n \in Nat
      BY DEF FileContents
<1>2. \A i \in 1..n : (IF i = position + 1 THEN byte ELSE IF i <= Len(found) THEN found[i] ELSE Zero) \in Data
      BY DEF FileContents, Data
<1>3. WriteAt(found, position, byte) =
        [i \in 1..n |-> IF i = position + 1 THEN byte ELSE IF i <= Len(found) THEN found[i] ELSE Zero]
      BY DEF WriteAt
<1> HIDE DEF n
<1>4. WriteAt(found, position, byte) \in [1..n -> Data]
      BY <1>2, <1>3
<1>5. WriteAt(found, position, byte) \in FileContents
      BY <1>1, <1>4 DEF FileContents
<1>6. Len(WriteAt(found, position, byte)) = n
      BY <1>1, <1>4
<1> QED BY <1>5, <1>6 DEF n

LEMMA WriteAtFits ==
  ASSUME NEW data \in BoundedFiles, NEW position \in Nat, NEW byte \in Bytes,
         position + 1 <= MaxFileSize
  PROVE  WriteAt(data, position, byte) \in BoundedFiles
<1>1. data \in FileContents /\ Len(data) \in Nat
      BY DEF BoundedFiles, FileContents
<1> DEFINE written == WriteAt(data, position, byte)
<1>2. /\ written \in FileContents
      /\ Len(written) = IF position < Len(data) THEN Len(data) ELSE position + 1
      BY <1>1, WriteAtKeepsData
<1> HIDE DEF written
<1>3. Len(written) <= MaxFileSize \/ Len(written) <= Len(Found)
      BY <1>1, <1>2 DEF BoundedFiles
<1> QED BY <1>2, <1>3 DEF BoundedFiles, written

(* An upload with a file open                                               *)
LEMMA ActiveUploads ==
  ASSUME TransferTables, NEW u \in Uploads, Active(u)
  PROVE  upload[u].path \in ManagedFiles /\ upload[u].file \in Inodes
BY DEF TransferTables, UploadFits, UploadCalls, Active, Busy

(* A step of one upload writes to its own file only, and opens a file only  *)
(* with those that are in it counted as having met it.                      *)
LEMMA UploadMoves ==
  ASSUME TransferInv, NEW u \in Uploads, NEW call, NEW told,
         upload' = [upload EXCEPT ![u] = call], UploadFits(call),
         expected' = [expected EXCEPT ![u] = told], download' = download,
         NamesFit', content' \in [Inodes -> BoundedFiles], mode' = [i \in Inodes |-> mode'[i]],
         strays' \subseteq [file : Inodes, chunk : Chunks],
         shared \subseteq shared', shared' \subseteq Uploads \cup Downloads,
         \A w \in strays' : w \in strays \/ (Active(u) /\ w.file = upload[u].file),
         \A f \in ManagedFiles : named[f] # NoFile => named'[f] = named[f],
         \A i \in Inodes : content'[i] = content[i] \/ (Active(u) /\ i = upload[u].file),
         \A i \in Inodes : mode'[i] = mode[i] \/ (Active(u) /\ i = named[upload[u].path]),
         Active(u)' => \/ Active(u) /\ call.path = upload[u].path /\ call.file = upload[u].file
                       \/ Meeting(u, call.path, call.file) \subseteq shared',
         u \notin shared' => Alone(u)' /\ AsWritten(u)'
  PROVE  TransferInv'
<1>0. /\ NamesFit /\ TransferTables
      /\ NoFile \notin Inodes /\ NoFile \notin ManagedFiles
      /\ \A v \in Uploads \ shared : Alone(v) /\ AsWritten(v)
      /\ \A d \in Downloads \ shared : ReadsAlone(d) /\ DownloadExact(download[d], content)
      BY InodesAreNotNoFile DEF TransferInv
<1>1. /\ upload' = [v \in Uploads |-> upload'[v]] /\ expected' = [v \in Uploads |-> expected'[v]]
      /\ upload'[u] = call /\ expected'[u] = told
      /\ \A v \in Uploads : v # u => upload'[v] = upload[v] /\ expected'[v] = expected[v]
      BY <1>0 DEF TransferTables
<1>2. \A v \in Uploads : UploadFits(upload'[v])
      BY <1>0, <1>1 DEF TransferTables
<1>3. TransferTables'
      BY <1>0, <1>1, <1>2 DEF TransferTables
<1>4. \A v \in Uploads : v # u => (Active(v)' <=> Active(v))
      BY <1>1 DEF Active
<1>5. ASSUME NEW v \in Uploads, v # u, v \notin shared'
      PROVE  Alone(v)' /\ AsWritten(v)'
  <2>1. Alone(v) /\ AsWritten(v)
        BY <1>0, <1>5
  <2>2. CASE ~Active(v)
    <3>1. ~Active(v)' /\ upload'[v] = upload[v] /\ expected'[v] = expected[v]
          BY <1>1, <1>4, <1>5, <2>2
    <3>2. Alone(v)'
          BY <3>1 DEF Alone
    <3>3. upload[v].step # "hash"
          BY <1>0, <2>2 DEF TransferTables, UploadFits, Active
    <3>4. AsWritten(v)'
          BY <2>1, <3>1, <3>3 DEF AsWritten
    <3> QED BY <3>2, <3>4
  <2>3. CASE Active(v)
    <3>1. /\ upload'[v] = upload[v] /\ expected'[v] = expected[v]
          /\ upload[v].path \in ManagedFiles /\ upload[v].file \in Inodes
          BY <1>0, <1>1, <1>5, <2>3, ActiveUploads
    <3>2. /\ upload[v].file = named[upload[v].path]
          /\ \A x \in Uploads \ {v} : Active(x) =>
               upload[x].path # upload[v].path /\ upload[x].file # upload[v].file
          /\ \A w \in strays : w.file # upload[v].file
          BY <2>1, <2>3 DEF Alone
    <3>3. named'[upload[v].path] = upload[v].file
          BY <1>0, <3>1, <3>2
    <3>4. content'[upload[v].file] = content[upload[v].file]
          BY <1>5, <3>1, <3>2
    <3>5. mode'[upload[v].file] = mode[upload[v].file]
      <4>1. Active(u) => upload[u].path \in ManagedFiles /\ upload[u].path # upload[v].path
            BY <1>0, <1>5, <3>2, ActiveUploads
      <4>2. Active(u) => named[upload[u].path] # upload[v].file
            BY <1>0, <3>1, <3>2, <4>1 DEF NamesFit
      <4> QED BY <3>1, <4>2
    <3>6. Active(u)' => call.path # upload[v].path /\ call.file # upload[v].file
      <4>1. CASE Active(u) /\ call.path = upload[u].path /\ call.file = upload[u].file
            BY <1>5, <3>2, <4>1
      <4>2. CASE Meeting(u, call.path, call.file) \subseteq shared'
            BY <1>5, <2>3, <4>2 DEF Meeting
      <4> QED BY <4>1, <4>2
    <3>7. \A x \in Uploads \ {v} : Active(x)' =>
            upload'[x].path # upload[v].path /\ upload'[x].file # upload[v].file
      <4> TAKE x \in Uploads \ {v}
      <4>1. CASE x = u
            BY <1>1, <3>6, <4>1
      <4>2. CASE x # u
            BY <1>1, <1>4, <3>2, <4>2
      <4> QED BY <4>1, <4>2
    <3>8. \A w \in strays' : w.file # upload[v].file
          BY <1>5, <3>2
    <3>9. Alone(v)'
          BY <3>1, <3>3, <3>7, <3>8 DEF Alone
    <3>10. AsWritten(v)'
      <4>1. Active(v)'
            BY <1>4, <1>5, <2>3
      <4> QED BY <2>1, <2>3, <3>1, <3>4, <3>5, <4>1 DEF AsWritten
    <3> QED BY <3>9, <3>10
  <2> QED BY <2>2, <2>3
<1>6. ASSUME NEW d \in Downloads, d \notin shared'
      PROVE  ReadsAlone(d)' /\ DownloadExact(download'[d], content')
  <2>1. ReadsAlone(d) /\ DownloadExact(download[d], content)
        BY <1>0, <1>6
  <2>2. CASE download[d].step \in {"open", "read"}
    <3>1. /\ download[d].file \in Inodes /\ download[d].path \in ManagedFiles
          BY <2>1, <2>2 DEF DownloadExact
    <3>2. /\ \A x \in Uploads : Active(x) => upload[x].file # download[d].file
          /\ \A w \in strays : w.file # download[d].file
          /\ download[d].step = "open" => named[download[d].path] = download[d].file
          BY <2>1, <2>2 DEF ReadsAlone
    <3>3. content'[download[d].file] = content[download[d].file]
          BY <3>1, <3>2
    <3>4. Active(u)' => call.file # download[d].file
      <4>1. CASE Active(u) /\ call.path = upload[u].path /\ call.file = upload[u].file
            BY <3>2, <4>1
      <4>2. CASE Meeting(u, call.path, call.file) \subseteq shared'
            BY <1>6, <2>2, <4>2 DEF Meeting, Reads
      <4> QED BY <4>1, <4>2
    <3>5. \A x \in Uploads : Active(x)' => upload'[x].file # download[d].file
      <4> TAKE x \in Uploads
      <4>1. CASE x = u
            BY <1>1, <3>4, <4>1
      <4>2. CASE x # u
            BY <1>1, <1>4, <3>2, <4>2
      <4> QED BY <4>1, <4>2
    <3>6. ReadsAlone(d)'
          BY <1>0, <3>1, <3>2, <3>5 DEF ReadsAlone
    <3>7. DownloadExact(download'[d], content')
          BY <2>1, <3>3 DEF DownloadExact
    <3> QED BY <3>6, <3>7
  <2>3. CASE download[d].step \notin {"open", "read"}
        BY <2>1, <2>3 DEF DownloadExact, ReadsAlone
  <2> QED BY <2>2, <2>3
<1> QED BY <1>3, <1>5, <1>6 DEF TransferInv

(* What an upload leaves alone when it opens no file and drops none         *)
LEMMA UploadStays ==
  ASSUME TransferInv, NEW u \in Uploads, NEW call, NEW told,
         upload' = [upload EXCEPT ![u] = call], UploadFits(call),
         expected' = [expected EXCEPT ![u] = told],
         UNCHANGED <<named, strays, download, shared, transfers>>,
         content' \in [Inodes -> BoundedFiles], mode' = [i \in Inodes |-> mode'[i]],
         \A i \in Inodes : content'[i] = content[i] \/ (Active(u) /\ i = upload[u].file),
         \A i \in Inodes : mode'[i] = mode[i] \/ (Active(u) /\ i = named[upload[u].path]),
         call.step \in Busy /\ call.path # NoFile =>
           Active(u) /\ call.path = upload[u].path /\ call.file = upload[u].file,
         u \notin shared => AsWritten(u)'
  PROVE  TransferInv'
<1>1. NamesFit' /\ strays' \subseteq [file : Inodes, chunk : Chunks]
      BY DEF TransferInv, TransferTables, NamesFit
<1>2. /\ upload'[u] = call /\ \A v \in Uploads : v # u => upload'[v] = upload[v]
      /\ shared' \subseteq Uploads \cup Downloads
      BY DEF TransferInv, TransferTables
<1>3. Active(u)' => Active(u) /\ call.path = upload[u].path /\ call.file = upload[u].file
      BY <1>2 DEF Active, Busy
<1>4. ASSUME u \notin shared PROVE Alone(u)'
  <2>1. Alone(u) /\ \A v \in Uploads \ {u} : Active(v)' <=> Active(v)
        BY <1>2, <1>4 DEF TransferInv, Active
  <2>2. CASE Active(u)'
        BY <1>2, <1>3, <2>1, <2>2 DEF Alone
  <2>3. CASE ~Active(u)'
        BY <2>3 DEF Alone
  <2> QED BY <2>2, <2>3
<1> QED BY <1>1, <1>2, <1>3, <1>4, UploadMoves

LEMMA NewStreamsFit ==
  ASSUME NEW step \in {"next", "failed"}
  PROVE  /\ UploadFits(Stream(step)) /\ Stream(step).step = step /\ Stream(step).path = NoFile
         /\ Stream(step).look = "none"
BY DEF UploadFits, UploadCalls, Stream, Busy, ChunkAtMost

(* The write on its way from a file that is dropped                         *)
LEMMA UnflushedFits ==
  ASSUME TransferInv, NEW u \in Uploads
  PROVE  /\ Unflushed(u) \subseteq [file : Inodes, chunk : Chunks]
         /\ \A w \in Unflushed(u) : Active(u) /\ w.file = upload[u].file
<1>1. UploadFits(upload[u])
      BY DEF TransferInv, TransferTables
<1>2. CASE upload[u].queued = << >>
  <2>1. Unflushed(u) = {}
        BY <1>2 DEF Unflushed, Range
  <2> QED BY <2>1
<1>3. CASE upload[u].queued # << >>
  <2>1. upload[u].queued[1] \in Chunks /\ Range(upload[u].queued) = {upload[u].queued[1]}
        BY <1>1, <1>3, ChunkIs DEF UploadFits, UploadCalls
  <2>2. upload[u].file \in Inodes /\ Active(u)
        BY <1>1, <1>3 DEF UploadFits, Active, Busy
  <2> QED BY <2>1, <2>2 DEF Unflushed
<1> QED BY <1>2, <1>3

LEMMA FailSteps ==
  ASSUME TransferInv, NEW u \in Uploads, Fail(u),
         UNCHANGED <<named, content, mode, download, expected, shared>>,
         transfers' \in 0..MaxTransfers, transfers <= transfers'
  PROVE  TransferInv'
<1> DEFINE call == Stream("failed")
<1>1. /\ upload' = [upload EXCEPT ![u] = call] /\ strays' = strays \cup Unflushed(u)
      /\ expected' = [expected EXCEPT ![u] = expected[u]]
      BY DEF Fail, TransferInv, TransferTables
<1>2. UploadFits(call) /\ call.path = NoFile /\ call.step = "failed"
      BY NewStreamsFit
<1>3. NamesFit'
  <2>1. transfers \in Nat /\ transfers' \in Nat /\ \A n \in 1..transfers : n \in 1..transfers'
        BY InodesAreNotNoFile DEF TransferInv, NamesFit
  <2> QED BY <2>1 DEF TransferInv, NamesFit
<1>4. upload'[u] = call
      BY <1>1 DEF TransferInv, TransferTables
<1> HIDE DEF call
<1>5. ~Active(u)' /\ Alone(u)' /\ AsWritten(u)'
      BY <1>2, <1>4 DEF Active, Alone, AsWritten
<1>6. /\ content' \in [Inodes -> BoundedFiles] /\ mode' = [i \in Inodes |-> mode'[i]]
      /\ strays' \subseteq [file : Inodes, chunk : Chunks]
      /\ \A w \in strays' : w \in strays \/ (Active(u) /\ w.file = upload[u].file)
      /\ shared' \subseteq Uploads \cup Downloads
      BY <1>1, UnflushedFits DEF TransferInv, TransferTables
<1> QED BY <1>1, <1>2, <1>3, <1>5, <1>6, UploadMoves

LEMMA OpenSteps ==
  ASSUME TransferInv, NEW u \in Uploads, ReceiveChunk(u)
  PROVE  TransferInv'
<1>0. /\ NamesFit /\ TransferTables /\ UploadFits(upload[u])
      /\ upload[u].step = "next" /\ transfers < MaxTransfers /\ transfers' = transfers + 1
      /\ UNCHANGED <<content, mode, download>>
      /\ transfers \in Nat /\ transfers' \in 1..MaxTransfers /\ transfers <= transfers'
      BY InodesAreNotNoFile DEF ReceiveChunk, TransferInv, TransferTables, NamesFit
<1>1. PICK f \in ManagedFiles, position \in 0..MaxFileSize, byte \in Bytes, close \in BOOLEAN :
        LET chunk == [number |-> transfers + 1, position |-> position, byte |-> byte, close |-> close]
            found == IF named[f] = NoFile THEN transfers + 1 ELSE named[f]
        IN
        /\ upload[u].step = "next" /\ transfers < MaxTransfers /\ transfers' = transfers + 1
        /\ \/ /\ WithinLimits(position)
              /\ \/ /\ NeedsOpen(u, f)
                    /\ upload' = [upload EXCEPT ![u] =
                         [Stream("write") EXCEPT !.path = f, !.file = found, !.chunk = <<chunk>>]]
                    /\ strays' = strays \cup Unflushed(u)
                    /\ named' = [named EXCEPT ![f] = found]
                    /\ shared' = shared \cup Meeting(u, f, found)
                 \/ /\ ~NeedsOpen(u, f)
                    /\ upload' = [upload EXCEPT ![u].step = "write", ![u].chunk = <<chunk>>]
                    /\ UNCHANGED <<named, strays, shared>>
              /\ expected' = [expected EXCEPT ![u] = IF upload[u].path = f THEN @ ELSE content[found]]
           \/ Fail(u) /\ UNCHANGED <<named, expected, shared>>
        /\ UNCHANGED <<content, mode, download, rename>>
      BY Zenon DEF ReceiveChunk
<1> DEFINE chunk == [number |-> transfers + 1, position |-> position, byte |-> byte, close |-> close]
           found == IF named[f] = NoFile THEN transfers + 1 ELSE named[f]
<1>2. WithinLimits(position) => <<chunk>> \in ChunkAtMost /\ <<chunk>> # << >>
      BY <1>0, ChunksFit
<1> HIDE DEF chunk
<1>3. CASE Fail(u) /\ UNCHANGED <<named, expected, shared>>
      BY <1>0, <1>3, FailSteps
<1>4. CASE /\ WithinLimits(position) /\ NeedsOpen(u, f)
           /\ upload' = [upload EXCEPT ![u] =
                [Stream("write") EXCEPT !.path = f, !.file = found, !.chunk = <<chunk>>]]
           /\ strays' = strays \cup Unflushed(u)
           /\ named' = [named EXCEPT ![f] = found]
           /\ shared' = shared \cup Meeting(u, f, found)
           /\ expected' = [expected EXCEPT ![u] = IF upload[u].path = f THEN @ ELSE content[found]]
  <2> DEFINE call == [step |-> "write", path |-> f, file |-> found, chunk |-> <<chunk>>,
                      queued |-> << >>, look |-> "none", sha256 |-> NoFile]
  <2>1. upload[u].path # f
        BY <1>4 DEF NeedsOpen
  <2>2. /\ upload' = [upload EXCEPT ![u] = call]
        /\ expected' = [expected EXCEPT ![u] = content[found]]
    <3>1. [Stream("write") EXCEPT !.path = f, !.file = found, !.chunk = <<chunk>>] = call
      <4> DEFINE first == [Stream("write") EXCEPT !.path = f]
                 second == [first EXCEPT !.file = found]
      <4>1. first = [step |-> "write", path |-> f, file |-> NoFile, chunk |-> << >>,
                     queued |-> << >>, look |-> "none", sha256 |-> NoFile]
            BY DEF Stream
      <4> HIDE DEF first, found
      <4>2. second = [step |-> "write", path |-> f, file |-> found, chunk |-> << >>,
                      queued |-> << >>, look |-> "none", sha256 |-> NoFile]
            BY <4>1
      <4> HIDE DEF second
      <4>3. [second EXCEPT !.chunk = <<chunk>>] = call
            BY <4>2
      <4> QED BY <4>3 DEF second, first
    <3> HIDE DEF call, found
    <3> QED BY <1>4, <2>1, <3>1
  <2>3. /\ found \in Inodes /\ found \in ManagedFiles \cup 1..transfers'
        /\ found = named[f] \/ (named[f] = NoFile /\ found = transfers + 1)
        BY <1>0, InodesAreNotNoFile DEF NamesFit, Inodes
  <2> HIDE DEF found
  <2>4. UploadFits(call)
    <3>1. call \in UploadCalls
          BY <1>2, <1>4, <2>3 DEF UploadCalls, Busy, ChunkAtMost
    <3>2. /\ call.step = "write" /\ call.path = f /\ call.file = found /\ call.chunk = <<chunk>>
          /\ call.queued = << >> /\ call.look = "none" /\ f # NoFile
          BY InodesAreNotNoFile
    <3> HIDE DEF call
    <3> QED BY <1>2, <1>4, <2>3, <3>1, <3>2 DEF UploadFits, Busy
  <2>5. /\ named[f] # NoFile => named'[f] = named[f]
        /\ named'[f] = found /\ \A g \in ManagedFiles : g # f => named'[g] = named[g]
        BY <1>0, <1>4, <2>3 DEF NamesFit
  <2>6. \A g \in ManagedFiles : g # f => named[g] # found
        BY <1>0, <2>3, InodesAreNotNoFile DEF NamesFit
  <2>7. NamesFit'
    <3>1. named' \in [ManagedFiles -> ManagedFiles \cup 1..transfers' \cup {NoFile}]
          BY <1>0, <1>4, <2>3 DEF NamesFit
    <3>2. \A g, h \in ManagedFiles : g # h /\ named'[g] # NoFile => named'[g] # named'[h]
      <4> TAKE g \in ManagedFiles, h \in ManagedFiles
      <4>1. CASE g = f
            BY <2>5, <2>6, <4>1
      <4>2. CASE g # f /\ h = f
            BY <2>5, <2>6, <4>2
      <4>3. CASE g # f /\ h # f
            BY <1>0, <2>5, <4>3 DEF NamesFit
      <4> QED BY <4>1, <4>2, <4>3
    <3> QED BY <1>0, <3>1, <3>2 DEF NamesFit
  <2>8. /\ content' \in [Inodes -> BoundedFiles] /\ mode' = [i \in Inodes |-> mode'[i]]
        /\ strays' \subseteq [file : Inodes, chunk : Chunks]
        /\ \A w \in strays' : w \in strays \/ (Active(u) /\ w.file = upload[u].file)
        /\ shared' \subseteq Uploads \cup Downloads /\ shared \subseteq shared'
    <3>1. Meeting(u, f, found) \subseteq Uploads \cup Downloads
          BY DEF Meeting
    <3> QED BY <1>0, <1>4, <3>1, UnflushedFits DEF TransferTables
  <2>9. upload'[u] = call /\ expected'[u] = content[found]
        /\ \A v \in Uploads : v # u => upload'[v] = upload[v] /\ (Active(v)' <=> Active(v))
        BY <1>0, <2>2 DEF TransferTables, Active
  <2>10. ASSUME u \notin shared' PROVE Alone(u)' /\ AsWritten(u)'
    <3>1. /\ \A v \in Uploads \ {u} : Active(v) => upload[v].path # f /\ upload[v].file # found
          /\ \A w \in strays : w.file # found
      <4>1. u \notin Meeting(u, f, found)
            BY <1>4, <2>10
      <4>2. /\ {v \in Uploads \ {u} : Active(v) /\ (upload[v].path = f \/ upload[v].file = found)} = {}
            /\ \A w \in strays : w.file # found
            BY <4>1 DEF Meeting
      <4> QED BY <4>2
    <3>2. Active(u) => upload[u].file # found
      <4>1. Alone(u)
            BY <1>4, <2>8, <2>10 DEF TransferInv
      <4>2. Active(u) => upload[u].path \in ManagedFiles /\ upload[u].file = named[upload[u].path]
            BY <1>0, <4>1, ActiveUploads DEF Alone
      <4> QED BY <2>1, <2>6, <4>2
    <3>3. \A w \in strays' : w.file # found
          BY <2>8, <3>1, <3>2
    <3>4. Alone(u)'
          BY <2>5, <2>9, <3>1, <3>3 DEF Alone
    <3>5. AsWritten(u)'
          BY <1>0, <2>3, <2>9 DEF AsWritten, Landed
    <3> QED BY <3>4, <3>5
  <2>11. Active(u)' => Meeting(u, call.path, call.file) \subseteq shared'
        BY <1>4
  <2>12. \A g \in ManagedFiles : named[g] # NoFile => named'[g] = named[g]
        BY <2>5
  <2> HIDE DEF call
  <2> QED BY <1>0, <2>2, <2>4, <2>7, <2>8, <2>10, <2>11, <2>12, UploadMoves
<1>5. CASE /\ WithinLimits(position) /\ ~NeedsOpen(u, f)
           /\ upload' = [upload EXCEPT ![u].step = "write", ![u].chunk = <<chunk>>]
           /\ UNCHANGED <<named, strays, shared>>
           /\ expected' = [expected EXCEPT ![u] = IF upload[u].path = f THEN @ ELSE content[found]]
  <2> DEFINE r == upload[u]
             call == [step |-> "write", path |-> r.path, file |-> r.file, chunk |-> <<chunk>>,
                      queued |-> r.queued, look |-> r.look, sha256 |-> r.sha256]
  <2>1. r.path = f /\ f # NoFile /\ r \in UploadCalls /\ Active(u)
        BY <1>0, <1>5, InodesAreNotNoFile DEF NeedsOpen, UploadFits, Active
  <2>2. expected' = [expected EXCEPT ![u] = expected[u]]
        BY <1>5, <2>1
  <2>3. upload' = [upload EXCEPT ![u] = call]
    <3> DEFINE first == [upload EXCEPT ![u].step = "write"]
    <3>1. /\ DOMAIN first = Uploads /\ \A v \in Uploads : v # u => first[v] = upload[v]
          /\ first[u] = [r EXCEPT !.step = "write"]
          BY <1>0 DEF TransferTables
    <3> HIDE DEF first
    <3>5. first[u] = [step |-> "write", path |-> r.path, file |-> r.file, chunk |-> r.chunk,
                      queued |-> r.queued, look |-> r.look, sha256 |-> r.sha256]
          BY <2>1, <3>1 DEF UploadCalls
    <3>2. upload' = [first EXCEPT ![u].chunk = <<chunk>>]
          BY <1>5 DEF first
    <3>3. [first[u] EXCEPT !.chunk = <<chunk>>] = call
          BY <3>5
    <3> HIDE DEF call
    <3>4. upload' = [first EXCEPT ![u] = call]
          BY <3>2, <3>3
    <3> QED BY <1>0, <3>1, <3>4 DEF TransferTables
  <2>4. UploadFits(call)
    <3>1. call \in UploadCalls
          BY <1>2, <1>5, <2>1 DEF UploadCalls, Busy
    <3> QED BY <1>0, <1>2, <1>5, <2>1, <3>1 DEF UploadFits, Busy
  <2>5. NamesFit' /\ strays' \subseteq [file : Inodes, chunk : Chunks]
    <3>1. \A n \in 1..transfers : n \in 1..transfers'
          BY <1>0
    <3> QED BY <1>0, <1>5, <3>1 DEF NamesFit, TransferTables
  <2>6. upload'[u] = call /\ expected'[u] = expected[u]
        /\ \A v \in Uploads : v # u => upload'[v] = upload[v] /\ (Active(v)' <=> Active(v))
        BY <1>0, <2>2, <2>3 DEF TransferTables, Active
  <2>7. ASSUME u \notin shared PROVE Alone(u)' /\ AsWritten(u)'
    <3>1. Alone(u) /\ AsWritten(u)
          BY <2>7 DEF TransferInv
    <3>2. Alone(u)'
      <4>1. upload'[u].path = r.path /\ upload'[u].file = r.file
            BY <2>6
      <4> HIDE DEF call, r
      <4>2. named' = named /\ strays' = strays
            BY <1>5
      <4> QED BY <2>1, <2>6, <3>1, <4>1, <4>2 DEF Alone, r
    <3>3. AsWritten(u)'
          BY <1>0, <2>1, <2>6, <3>1 DEF AsWritten
    <3> QED BY <3>2, <3>3
  <2>8. call.path = upload[u].path /\ call.file = upload[u].file
        OBVIOUS
  <2>9. content' \in [Inodes -> BoundedFiles] /\ mode' = [i \in Inodes |-> mode'[i]]
        /\ shared' \subseteq Uploads \cup Downloads
        BY <1>0, <1>5 DEF TransferTables
  <2> HIDE DEF call, r
  <2> QED BY <1>0, <1>5, <2>1, <2>2, <2>3, <2>4, <2>5, <2>7, <2>8, <2>9, UploadMoves
<1> HIDE DEF found
<1>6. \/ /\ WithinLimits(position)
         /\ \/ /\ NeedsOpen(u, f)
               /\ upload' = [upload EXCEPT ![u] =
                    [Stream("write") EXCEPT !.path = f, !.file = found, !.chunk = <<chunk>>]]
               /\ strays' = strays \cup Unflushed(u)
               /\ named' = [named EXCEPT ![f] = found]
               /\ shared' = shared \cup Meeting(u, f, found)
            \/ /\ ~NeedsOpen(u, f)
               /\ upload' = [upload EXCEPT ![u].step = "write", ![u].chunk = <<chunk>>]
               /\ UNCHANGED <<named, strays, shared>>
         /\ expected' = [expected EXCEPT ![u] = IF upload[u].path = f THEN @ ELSE content[found]]
      \/ Fail(u) /\ UNCHANGED <<named, expected, shared>>
      BY <1>1 DEF chunk, found
<1> QED BY <1>3, <1>4, <1>5, <1>6

LEMMA QueueSteps ==
  ASSUME TransferInv, NEW u \in Uploads, QueueChunk(u)
  PROVE  TransferInv'
<1> DEFINE r == upload[u]
           chunk == r.chunk[1]
           step == IF chunk.close THEN "close" ELSE "next"
           call == [step |-> step, path |-> r.path, file |-> r.file, chunk |-> << >>,
                    queued |-> <<chunk>>, look |-> r.look, sha256 |-> r.sha256]
           told == WriteAt(expected[u], chunk.position, chunk.byte)
<1>1. /\ r.step = "write" /\ r.queued = << >> /\ r \in UploadCalls /\ UploadFits(r)
      /\ r.path # NoFile /\ r.file \in Inodes /\ Active(u)
      /\ UNCHANGED <<named, content, mode, strays, download, shared, transfers>>
      /\ upload' = [upload EXCEPT ![u] =
           [r EXCEPT !.step = step, !.chunk = << >>, !.queued = <<chunk>>]]
      /\ expected' = [expected EXCEPT ![u] = told]
      BY DEF QueueChunk, TransferInv, TransferTables, UploadFits, Active, Busy
<1>2. chunk \in Chunks /\ r.chunk \in ChunkAtMost /\ r.chunk # << >>
      BY <1>1, ChunkIs DEF UploadFits, UploadCalls
<1> HIDE DEF chunk
<1>3. [r EXCEPT !.step = step, !.chunk = << >>, !.queued = <<chunk>>] = call
  <2> DEFINE first == [r EXCEPT !.step = step]
             second == [first EXCEPT !.chunk = << >>]
  <2> HIDE DEF step
  <2>1. first = [step |-> step, path |-> r.path, file |-> r.file, chunk |-> r.chunk,
                 queued |-> r.queued, look |-> r.look, sha256 |-> r.sha256]
        BY <1>1 DEF UploadCalls
  <2> HIDE DEF first
  <2>2. second = [step |-> step, path |-> r.path, file |-> r.file, chunk |-> << >>,
                  queued |-> r.queued, look |-> r.look, sha256 |-> r.sha256]
        BY <2>1
  <2> HIDE DEF second
  <2>3. [second EXCEPT !.queued = <<chunk>>] = call
        BY <2>2
  <2> QED BY <2>3 DEF second, first
<1>4. /\ call.step \in {"close", "next"} /\ call.path = r.path /\ call.file = r.file
      /\ call.queued = <<chunk>> /\ call.look = r.look /\ call.step = step
      OBVIOUS
<1>6. r.look = "none"
      BY <1>1 DEF UploadFits
<1>7. UploadFits(call)
  <2>1. <<chunk>> \in ChunkAtMost /\ << >> \in ChunkAtMost /\ step \in Busy
        BY <1>2 DEF ChunkAtMost, Busy
  <2>2. call \in UploadCalls
    <3> HIDE DEF step
    <3> QED BY <1>1, <2>1 DEF UploadCalls
  <2> HIDE DEF call, r
  <2> QED BY <1>1, <1>4, <1>6, <2>1, <2>2 DEF UploadFits, r
<1> HIDE DEF call, step, told
<1>8. /\ upload' = [upload EXCEPT ![u] = call] /\ upload'[u] = call /\ expected'[u] = told
      BY <1>1, <1>3 DEF TransferInv, TransferTables
<1>9. ASSUME u \notin shared PROVE AsWritten(u)'
  <2>1. /\ content[r.file] = expected[u]
        BY <1>1, <1>9 DEF TransferInv, AsWritten, Landed
  <2>2. Landed(content[r.file], <<chunk>>) = told
    <3>1. <<chunk>> # << >> /\ <<chunk>>[1] = chunk
          OBVIOUS
    <3> QED BY <2>1, <3>1 DEF Landed, told
  <2> HIDE DEF r
  <2> QED BY <1>1, <1>4, <1>6, <1>8, <2>2 DEF AsWritten
<1>10. content' \in [Inodes -> BoundedFiles] /\ mode' = [i \in Inodes |-> mode'[i]]
       BY <1>1 DEF TransferInv, TransferTables
<1> QED BY <1>1, <1>4, <1>7, <1>8, <1>9, <1>10, UploadStays

LEMMA LandSteps ==
  ASSUME TransferInv, NEW u \in Uploads, ChunkLands(u)
  PROVE  TransferInv'
<1> DEFINE r == upload[u]
           chunk == r.queued[1]
           call == [r EXCEPT !.queued = << >>]
           data == WriteAt(content[r.file], chunk.position, chunk.byte)
<1>1. /\ r.queued # << >> /\ r \in UploadCalls /\ UploadFits(r)
      /\ r.path # NoFile /\ r.file \in Inodes /\ Active(u)
      /\ UNCHANGED <<named, mode, strays, download, expected, shared, transfers>>
      /\ upload' = [upload EXCEPT ![u] = call]
      /\ content' = [content EXCEPT ![r.file] = data]
      BY DEF ChunkLands, TransferInv, TransferTables, UploadFits, Active, Busy
<1>2. chunk.position \in Nat /\ chunk.position + 1 <= MaxFileSize /\ chunk.byte \in Bytes
      BY <1>1, ChunkIs DEF UploadFits, UploadCalls
<1>3. data \in BoundedFiles /\ content \in [Inodes -> BoundedFiles]
      BY <1>1, <1>2, WriteAtFits DEF TransferInv, TransferTables
<1> HIDE DEF chunk
<1>4. /\ call.step = r.step /\ call.path = r.path /\ call.file = r.file /\ call.chunk = r.chunk
      /\ call.queued = << >> /\ call.look = r.look /\ call.sha256 = r.sha256
      BY <1>1 DEF UploadCalls
<1>5. UploadFits(call)
  <2>1. call \in UploadCalls
        BY <1>1 DEF UploadCalls, ChunkAtMost
  <2> HIDE DEF call
  <2> QED BY <1>1, <1>4, <2>1 DEF UploadFits
<1> HIDE DEF call
<1>6. /\ upload'[u] = call /\ expected' = [expected EXCEPT ![u] = expected[u]]
      /\ expected'[u] = expected[u]
      BY <1>1 DEF TransferInv, TransferTables
<1> HIDE DEF data
<1>7. /\ content' \in [Inodes -> BoundedFiles] /\ mode' = [i \in Inodes |-> mode'[i]]
      /\ content'[r.file] = data /\ \A i \in Inodes : content'[i] = content[i] \/ i = r.file
      BY <1>1, <1>3 DEF TransferInv, TransferTables
<1>8. ASSUME u \notin shared PROVE AsWritten(u)'
  <2>1. /\ AsWritten(u) /\ Landed(content[r.file], r.queued) = expected[u]
        BY <1>1, <1>8 DEF TransferInv, AsWritten
  <2>2. data = expected[u]
        BY <1>1, <2>1 DEF Landed, data, chunk
  <2> HIDE DEF r
  <2>3. Landed(content'[call.file], call.queued) = expected'[u]
        BY <1>4, <1>6, <1>7, <2>2 DEF Landed
  <2>4. call.step # "hash" \/ mode'[call.file] = mode[r.file]
        BY <1>1, <1>4
  <2> QED BY <1>1, <1>4, <1>6, <2>1, <2>3, <2>4 DEF AsWritten, r
<1>9. call.step \in Busy /\ call.path # NoFile =>
        Active(u) /\ call.path = upload[u].path /\ call.file = upload[u].file
      BY <1>1, <1>4
<1> QED BY <1>1, <1>5, <1>6, <1>7, <1>8, <1>9, UploadStays

LEMMA LookSteps ==
  ASSUME TransferInv, NEW u \in Uploads, LooksExecutable(u)
  PROVE  TransferInv'
<1> DEFINE r == upload[u]
<1>1. /\ r.step \in {"close", "finalize"} /\ r.queued = << >>
      /\ r \in UploadCalls /\ UploadFits(r) /\ r.path \in ManagedFiles /\ r.file \in Inodes
      /\ Active(u)
      /\ UNCHANGED <<named, content, mode, strays, download, expected, shared, transfers>>
      BY DEF LooksExecutable, Flushed, TransferInv, TransferTables, UploadFits, UploadCalls,
             Active, Busy
<1>2. PICK look \in {"program", "plain", "unread"} :
        /\ IF r.path \in ProgramNames THEN look = "program"
           ELSE look # "unread" =>
                  named[r.path] # NoFile /\ look = ModeOf(r.path, content[named[r.path]])
        /\ upload' = [upload EXCEPT ![u].look = look]
      BY DEF LooksExecutable
<1> DEFINE call == [r EXCEPT !.look = look]
<1>3. /\ call.step = r.step /\ call.path = r.path /\ call.file = r.file /\ call.chunk = r.chunk
      /\ call.queued = r.queued /\ call.look = look /\ call.sha256 = r.sha256
      BY <1>1 DEF UploadCalls
<1>4. UploadFits(call)
  <2>1. call \in UploadCalls
        BY <1>1 DEF UploadCalls
  <2> HIDE DEF call
  <2> QED BY <1>1, <1>3, <2>1 DEF UploadFits
<1>5. upload' = [upload EXCEPT ![u] = call] /\ upload'[u] = call
      BY <1>2 DEF TransferInv, TransferTables
<1> HIDE DEF call
<1>6. /\ expected' = [expected EXCEPT ![u] = expected[u]] /\ expected'[u] = expected[u]
      /\ content' \in [Inodes -> BoundedFiles] /\ mode' = [i \in Inodes |-> mode'[i]]
      BY <1>1 DEF TransferInv, TransferTables
<1>7. ASSUME u \notin shared PROVE AsWritten(u)'
  <2>1. /\ content[r.file] = expected[u] /\ r.file = named[r.path]
        BY <1>1, <1>7 DEF TransferInv, AsWritten, Alone, Landed
  <2>2. look = "unread" \/ look = ModeOf(r.path, expected[u])
    <3>1. r.path \in ProgramNames => ModeOf(r.path, expected[u]) = "program"
          BY DEF ModeOf
    <3> QED BY <1>2, <2>1, <3>1
  <2>3. Landed(content'[call.file], call.queued) = expected'[u]
        BY <1>1, <1>3, <1>6, <2>1 DEF Landed
  <2>4. call.step # "hash" /\ call.step # "done"
        BY <1>1, <1>3
  <2> HIDE DEF r
  <2> QED BY <1>3, <1>5, <1>6, <2>2, <2>3, <2>4 DEF AsWritten
<1> QED BY <1>1, <1>3, <1>4, <1>5, <1>6, <1>7, UploadStays

LEMMA PermissionSteps ==
  ASSUME TransferInv, NEW u \in Uploads, SetPermissions(u)
  PROVE  TransferInv'
<1> DEFINE r == upload[u]
           target == named[r.path]
<1>1. /\ r.step \in {"close", "finalize"} /\ r.look # "none" /\ r.queued = << >>
      /\ r \in UploadCalls /\ UploadFits(r) /\ r.path \in ManagedFiles /\ r.file \in Inodes
      /\ Active(u)
      /\ UNCHANGED <<named, content, download, expected, shared, transfers>>
      BY DEF SetPermissions, TransferInv, TransferTables, UploadFits, UploadCalls, Active, Busy
<1>2. CASE target = NoFile
  <2>1. Fail(u) /\ UNCHANGED mode
        BY <1>2 DEF SetPermissions
  <2> QED BY <1>1, <2>1, FailSteps DEF TransferInv, NamesFit
<1>3. CASE target # NoFile
  <2> DEFINE set == IF r.look = "program" THEN "program" ELSE "plain"
             call == IF r.step = "close" THEN Stream("next") ELSE [r EXCEPT !.step = "hash"]
  <2>1. /\ mode' = [mode EXCEPT ![target] = set] /\ upload' = [upload EXCEPT ![u] = call]
        /\ strays' = strays
        BY <1>3 DEF SetPermissions
  <2>2. \/ r.step = "close" /\ call = Stream("next") /\ call.path = NoFile /\ UploadFits(call)
        \/ /\ call.step = "hash" /\ call.path = r.path /\ call.file = r.file
           /\ call.queued = << >> /\ call.look = r.look /\ UploadFits(call)
    <3>1. CASE r.step = "close"
          BY <3>1, NewStreamsFit
    <3>2. CASE r.step # "close"
      <4> DEFINE hash == [r EXCEPT !.step = "hash"]
      <4>1. /\ hash \in UploadCalls
            /\ hash.step = "hash" /\ hash.path = r.path /\ hash.file = r.file
            /\ hash.chunk = r.chunk /\ hash.queued = << >> /\ hash.look = r.look
            BY <1>1 DEF UploadCalls, Busy
      <4> HIDE DEF hash
      <4>2. UploadFits(hash)
            BY <1>1, <4>1 DEF UploadFits, Busy
      <4>3. call = hash
            BY <3>2 DEF hash
      <4> QED BY <4>1, <4>2, <4>3
    <3> QED BY <3>1, <3>2
  <2> HIDE DEF call
  <2>3. /\ upload'[u] = call /\ expected' = [expected EXCEPT ![u] = expected[u]]
        /\ expected'[u] = expected[u]
        BY <1>1, <2>1 DEF TransferInv, TransferTables
  <2> HIDE DEF set
  <2>4. /\ content' \in [Inodes -> BoundedFiles] /\ mode' = [i \in Inodes |-> mode'[i]]
        /\ \A i \in Inodes : mode'[i] = mode[i] \/ i = target
        /\ target \in Inodes => mode'[target] = set
        BY <1>1, <2>1 DEF TransferInv, TransferTables
  <2>5. ASSUME u \notin shared PROVE AsWritten(u)'
    <3>1. /\ content[r.file] = expected[u] /\ r.file = target
          /\ r.look = "unread" \/ r.look = ModeOf(r.path, expected[u])
          BY <1>1, <2>5 DEF TransferInv, AsWritten, Alone, Landed
    <3>2. CASE r.step = "close" /\ call = Stream("next")
          BY <2>3, <3>2 DEF AsWritten, Stream, Active
    <3>3. CASE /\ call.step = "hash" /\ call.path = r.path /\ call.file = r.file
               /\ call.queued = << >> /\ call.look = r.look
      <4>1. set = IF r.look = "unread" THEN "plain" ELSE ModeOf(r.path, expected[u])
        <5>1. ModeOf(r.path, expected[u]) \in {"program", "plain"}
              BY DEF ModeOf
        <5> QED BY <3>1, <5>1 DEF set
      <4>2. mode'[call.file] = set
            BY <1>1, <2>4, <3>1, <3>3
      <4>3. Landed(content'[call.file], call.queued) = expected'[u]
            BY <1>1, <2>3, <3>1, <3>3 DEF Landed
      <4> HIDE DEF r, target
      <4> QED BY <2>3, <3>1, <3>3, <4>1, <4>2, <4>3 DEF AsWritten
    <3> QED BY <2>2, <3>2, <3>3
  <2>6. call.step \in Busy /\ call.path # NoFile =>
          Active(u) /\ call.path = upload[u].path /\ call.file = upload[u].file
        BY <1>1, <2>2
  <2> QED BY <1>1, <2>1, <2>2, <2>3, <2>4, <2>5, <2>6, UploadStays
<1> QED BY <1>2, <1>3

LEMMA EndSteps ==
  ASSUME TransferInv, NEW u \in Uploads, EndOfStream(u)
  PROVE  TransferInv'
<1> DEFINE r == upload[u]
           step == IF r.path = NoFile THEN "done" ELSE "finalize"
           call == [r EXCEPT !.step = step]
<1>1. /\ r.step = "next" /\ r \in UploadCalls /\ UploadFits(r)
      /\ UNCHANGED <<named, content, mode, strays, download, expected, shared, transfers>>
      /\ upload' = [upload EXCEPT ![u] = call]
      BY DEF EndOfStream, TransferInv, TransferTables, UploadFits
<1>2. /\ call.step = step /\ call.path = r.path /\ call.file = r.file /\ call.chunk = r.chunk
      /\ call.queued = r.queued /\ call.look = r.look
      /\ step \in {"done", "finalize"} /\ (step = "done" <=> r.path = NoFile)
      BY <1>1 DEF UploadCalls
<1> HIDE DEF step
<1>3. UploadFits(call)
  <2>1. call \in UploadCalls
        BY <1>1, <1>2 DEF UploadCalls, Busy
  <2> HIDE DEF call
  <2> QED BY <1>1, <1>2, <2>1 DEF UploadFits, Busy
<1> HIDE DEF call
<1>4. /\ upload'[u] = call /\ expected' = [expected EXCEPT ![u] = expected[u]]
      /\ expected'[u] = expected[u]
      /\ content' \in [Inodes -> BoundedFiles] /\ mode' = [i \in Inodes |-> mode'[i]]
      BY <1>1 DEF TransferInv, TransferTables
<1>5. Active(u) <=> r.path # NoFile
      BY <1>1 DEF Active
<1>6. ASSUME u \notin shared PROVE AsWritten(u)'
  <2>1. AsWritten(u) /\ r.look = "none"
        BY <1>1, <1>6 DEF TransferInv, UploadFits
  <2> HIDE DEF r
  <2>2. Active(u)' <=> r.path # NoFile
        BY <1>2, <1>4 DEF Active
  <2> QED BY <1>1, <1>2, <1>4, <1>5, <2>1, <2>2 DEF AsWritten, r
<1>7. call.step \in Busy /\ call.path # NoFile =>
        Active(u) /\ call.path = upload[u].path /\ call.file = upload[u].file
      BY <1>2, <1>5
<1> QED BY <1>1, <1>3, <1>4, <1>6, <1>7, UploadStays

LEMMA HashSteps ==
  ASSUME TransferInv, NEW u \in Uploads, Hash(u)
  PROVE  TransferInv'
<1> DEFINE r == upload[u]
           target == named[r.path]
<1>1. /\ r.step = "hash" /\ r \in UploadCalls /\ UploadFits(r) /\ r.path \in ManagedFiles
      /\ Active(u)
      /\ UNCHANGED <<named, content, mode, download, expected, shared, transfers>>
      BY DEF Hash, TransferInv, TransferTables, UploadFits, UploadCalls, Active
<1>2. CASE target = NoFile
  <2>1. Fail(u)
        BY <1>2 DEF Hash
  <2> QED BY <1>1, <2>1, FailSteps DEF TransferInv, NamesFit
<1>3. CASE target # NoFile
  <2> DEFINE call == [step |-> "done", path |-> r.path, file |-> r.file, chunk |-> r.chunk,
                      queued |-> r.queued, look |-> r.look, sha256 |-> content[target]]
  <2>1. content[target] \in BoundedFiles
    <3>1. target \in Inodes
          BY <1>1, <1>3, InodesAreNotNoFile DEF TransferInv, NamesFit, Inodes
    <3> QED BY <3>1 DEF TransferInv, TransferTables
  <2>2. /\ upload' = [upload EXCEPT ![u] = [r EXCEPT !.step = "done", !.sha256 = content[target]]]
        /\ strays' = strays
        BY <1>3 DEF Hash
  <2> HIDE DEF target
  <2>3. [r EXCEPT !.step = "done", !.sha256 = content[target]] = call
    <3> DEFINE first == [r EXCEPT !.step = "done"]
    <3>1. first = [step |-> "done", path |-> r.path, file |-> r.file, chunk |-> r.chunk,
                   queued |-> r.queued, look |-> r.look, sha256 |-> r.sha256]
          BY <1>1 DEF UploadCalls
    <3> HIDE DEF first
    <3>2. [first EXCEPT !.sha256 = content[target]] = call
          BY <3>1
    <3> QED BY <3>2 DEF first
  <2>4. /\ call.step = "done" /\ call.path = r.path /\ call.queued = r.queued
        /\ call.look = r.look /\ call.sha256 = content[target]
        OBVIOUS
  <2>5. call \in UploadCalls
        BY <1>1, <2>1 DEF UploadCalls
  <2> HIDE DEF call
  <2>6. /\ upload' = [upload EXCEPT ![u] = call] /\ upload'[u] = call
        /\ expected' = [expected EXCEPT ![u] = expected[u]]
        /\ content' \in [Inodes -> BoundedFiles] /\ mode' = [i \in Inodes |-> mode'[i]]
        BY <1>1, <2>2, <2>3 DEF TransferInv, TransferTables
  <2>7. ASSUME u \notin shared PROVE AsWritten(u)'
    <3>0. r.queued = << >>
          BY <1>1 DEF UploadFits
    <3>1. content[r.file] = expected[u] /\ r.file = target
          BY <1>1, <2>7, <3>0 DEF TransferInv, AsWritten, Alone, Landed, target
    <3>2. upload'[u].step = "done" /\ upload'[u].sha256 = expected[u] /\ expected'[u] = expected[u]
          BY <1>1, <2>4, <2>6, <3>1
    <3> HIDE DEF r
    <3>3. ~Active(u)'
          BY <3>2 DEF Active
    <3> QED BY <3>2, <3>3 DEF AsWritten
  <2>8. UploadFits(call)
    <3>1. r.queued = << >>
          BY <1>1 DEF UploadFits
    <3> QED BY <1>1, <2>4, <2>5, <3>1 DEF UploadFits, Busy
  <2>9. call.step \notin Busy
        BY <2>4 DEF Busy
  <2> QED BY <1>1, <2>2, <2>6, <2>7, <2>8, <2>9, UploadStays
<1> QED BY <1>2, <1>3

LEMMA UploadSteps ==
  ASSUME TransferInv, NEW u \in Uploads,
         \/ ReceiveChunk(u) \/ QueueChunk(u) \/ ChunkLands(u)
         \/ LooksExecutable(u) \/ SetPermissions(u) \/ Hash(u)
         \/ EndOfStream(u) \/ UploadBreaks(u)
  PROVE  TransferInv'
<1>1. CASE UploadBreaks(u)
      BY <1>1, FailSteps DEF UploadBreaks, TransferInv, NamesFit
<1> QED BY <1>1, OpenSteps, QueueSteps, LandSteps, LookSteps, PermissionSteps, HashSteps, EndSteps

(* The write of a dropped file is to no file that a stream has alone.       *)
LEMMA StraySteps ==
  ASSUME TransferInv, StrayEnds
  PROVE  TransferInv'
<1>1. PICK w \in strays :
        /\ \/ content' = [content EXCEPT ![w.file] = WriteAt(@, w.chunk.position, w.chunk.byte)]
           \/ UNCHANGED content
        /\ strays' = strays \ {w}
        /\ UNCHANGED <<named, mode, upload, download, rename, expected, shared, transfers>>
      BY DEF StrayEnds
<1>2. w \in [file : Inodes, chunk : Chunks] /\ content \in [Inodes -> BoundedFiles]
      BY DEF TransferInv, TransferTables
<1>3. /\ w.file \in Inodes /\ w.chunk.position \in Nat /\ w.chunk.byte \in Bytes
      /\ w.chunk.position + 1 <= MaxFileSize
      BY <1>2, InodesAreNotNoFile DEF Chunks, WithinLimits
<1> DEFINE data == WriteAt(content[w.file], w.chunk.position, w.chunk.byte)
<1>4. data \in BoundedFiles
      BY <1>2, <1>3, WriteAtFits
<1>5. content' = [content EXCEPT ![w.file] = data] \/ content' = content
      BY <1>1
<1> HIDE DEF data
<1>6. /\ content' \in [Inodes -> BoundedFiles]
      /\ \A i \in Inodes : i # w.file => content'[i] = content[i]
      BY <1>2, <1>3, <1>4, <1>5
<1>7. NamesFit' /\ TransferTables'
      BY <1>1, <1>6 DEF TransferInv, NamesFit, TransferTables
<1>8. \A v \in Uploads : Active(v)' <=> Active(v)
      BY <1>1 DEF Active
<1>9. ASSUME NEW u \in Uploads, u \notin shared'
      PROVE  Alone(u)' /\ AsWritten(u)'
  <2>1. Alone(u) /\ AsWritten(u) /\ TransferTables
        BY <1>1, <1>9 DEF TransferInv
  <2>2. Alone(u)'
        BY <1>1, <1>8, <2>1 DEF Alone
  <2>3. CASE Active(u)
    <3>1. upload[u].file \in Inodes /\ upload[u].file # w.file
          BY <2>1, <2>3, ActiveUploads DEF Alone
    <3> QED BY <1>1, <1>6, <1>8, <2>1, <2>2, <3>1 DEF AsWritten
  <2>4. CASE ~Active(u)
    <3>1. upload[u].step # "hash"
          BY <2>1, <2>4 DEF TransferTables, UploadFits, Active
    <3> QED BY <1>1, <1>8, <2>1, <2>2, <2>4, <3>1 DEF AsWritten
  <2> QED BY <2>3, <2>4
<1>10. ASSUME NEW d \in Downloads, d \notin shared'
       PROVE  ReadsAlone(d)' /\ DownloadExact(download'[d], content')
  <2>1. ReadsAlone(d) /\ DownloadExact(download[d], content)
        BY <1>1, <1>10 DEF TransferInv
  <2>2. ReadsAlone(d)'
        BY <1>1, <1>8, <2>1 DEF ReadsAlone
  <2>3. CASE download[d].step \in {"open", "read"}
    <3>1. content'[download[d].file] = content[download[d].file]
          BY <1>6, <2>1, <2>3 DEF ReadsAlone, DownloadExact
    <3> QED BY <1>1, <2>1, <2>2, <3>1 DEF DownloadExact
  <2>4. CASE download[d].step \notin {"open", "read"}
        BY <1>1, <2>1, <2>2, <2>4 DEF DownloadExact
  <2> QED BY <2>3, <2>4
<1> QED BY <1>7, <1>9, <1>10 DEF TransferInv

(* A rename counts those who know its names as having met it.               *)
LEMMA RenameMoves ==
  ASSUME TransferInv, NamesFit', shared \subseteq shared', shared' \subseteq Uploads \cup Downloads,
         UNCHANGED <<content, mode, upload, strays, download, expected>>,
         \A f \in ManagedFiles : named'[f] = named[f] \/ Naming(f) \subseteq shared'
  PROVE  TransferInv'
<1>1. TransferTables' /\ TransferTables /\ \A v \in Uploads : Active(v)' <=> Active(v)
      BY DEF TransferInv, TransferTables, Active
<1>2. ASSUME NEW u \in Uploads, u \notin shared'
      PROVE  Alone(u)' /\ AsWritten(u)'
  <2>1. Alone(u) /\ AsWritten(u)
        BY <1>2 DEF TransferInv
  <2>2. Active(u) => upload[u].path \in ManagedFiles /\ u \in Naming(upload[u].path)
        BY <1>1, ActiveUploads DEF Naming
  <2>3. Active(u) => named'[upload[u].path] = named[upload[u].path]
        BY <1>2, <2>2
  <2>4. Alone(u)'
        BY <1>1, <2>1, <2>3 DEF Alone
  <2>5. AsWritten(u)'
        BY <1>1, <2>1 DEF AsWritten
  <2> QED BY <2>4, <2>5
<1>3. ASSUME NEW d \in Downloads, d \notin shared'
      PROVE  ReadsAlone(d)' /\ DownloadExact(download'[d], content')
  <2>1. ReadsAlone(d) /\ DownloadExact(download[d], content)
        BY <1>3 DEF TransferInv
  <2>2. download[d].step = "open" => named'[download[d].path] = named[download[d].path]
        BY <1>3, <2>1 DEF DownloadExact, Naming
  <2>3. ReadsAlone(d)'
        BY <1>1, <2>1, <2>2 DEF ReadsAlone
  <2> QED BY <2>1, <2>3
<1> QED BY <1>1, <1>2, <1>3 DEF TransferInv

LEMMA RenameSteps ==
  ASSUME TransferInv, NEW r \in Renames,
         /\ StartRename(r) \/ LookForNew(r) \/ RemoveNew(r) \/ MoveFile(r)
         /\ rename[r].step # "none" =>
              rename[r].old \in ManagedFiles /\ rename[r].new \in ManagedFiles
  PROVE  TransferInv'
<1>0. /\ NamesFit /\ TransferTables /\ NoFile \notin ManagedFiles
      /\ UNCHANGED <<content, mode, upload, strays, download, expected>>
      BY InodesAreNotNoFile DEF TransferInv, StartRename, LookForNew, RemoveNew, MoveFile
<1>1. \A f : Naming(f) \subseteq Uploads \cup Downloads
      BY DEF Naming
<1>2. CASE StartRename(r)
  <2>1. named' = named /\ shared' = shared /\ transfers < MaxTransfers /\ transfers' = transfers + 1
        BY <1>2 DEF StartRename
  <2>2. NamesFit'
    <3>1. /\ transfers \in Nat /\ transfers' \in 0..MaxTransfers
          /\ \A n \in 1..transfers : n \in 1..transfers'
          BY <1>0, <2>1, InodesAreNotNoFile DEF NamesFit
    <3> QED BY <1>0, <2>1, <3>1 DEF NamesFit
  <2> QED BY <1>0, <2>1, <2>2, RenameMoves DEF TransferTables
<1>3. CASE LookForNew(r)
  <2>1. named' = named /\ shared' = shared /\ transfers' = transfers
        BY <1>3 DEF LookForNew
  <2> QED BY <1>0, <2>1, RenameMoves DEF NamesFit, TransferTables
<1>4. CASE RemoveNew(r)
  <2> DEFINE new == rename[r].new
  <2>1. /\ named' = [named EXCEPT ![new] = NoFile] /\ shared' = shared \cup Naming(new)
        /\ transfers' = transfers /\ new \in ManagedFiles
        BY <1>4 DEF RemoveNew
  <2> HIDE DEF new
  <2>2. NamesFit' /\ \A f \in ManagedFiles : f # new => named'[f] = named[f]
        BY <1>0, <2>1 DEF NamesFit
  <2> QED BY <1>0, <1>1, <2>1, <2>2, RenameMoves DEF TransferTables
<1>5. CASE MoveFile(r)
  <2> DEFINE old == rename[r].old
             new == rename[r].new
  <2>1. /\ old \in ManagedFiles /\ new \in ManagedFiles /\ transfers' = transfers
        /\ IF named[old] = NoFile \/ old = new THEN UNCHANGED <<named, shared>>
           ELSE /\ named' = [named EXCEPT ![new] = named[old], ![old] = NoFile]
                /\ shared' = shared \cup Naming(old) \cup Naming(new)
        BY <1>5 DEF MoveFile
  <2> HIDE DEF old, new
  <2>2. CASE named[old] = NoFile \/ old = new
        BY <1>0, <2>1, <2>2, RenameMoves DEF NamesFit, TransferTables
  <2>3. CASE named[old] # NoFile /\ old # new
    <3> DEFINE first == [named EXCEPT ![new] = named[old]]
    <3>1. /\ first \in [ManagedFiles -> ManagedFiles \cup 1..transfers \cup {NoFile}]
          /\ first[new] = named[old] /\ \A f \in ManagedFiles : f # new => first[f] = named[f]
          BY <1>0, <2>1 DEF NamesFit
    <3>2. named' = [first EXCEPT ![old] = NoFile] /\ shared' = shared \cup Naming(old) \cup Naming(new)
          BY <2>1, <2>3
    <3> HIDE DEF first
    <3>3. /\ named' \in [ManagedFiles -> ManagedFiles \cup 1..transfers \cup {NoFile}]
          /\ named'[new] = named[old] /\ named'[old] = NoFile
          /\ \A f \in ManagedFiles : f # new /\ f # old => named'[f] = named[f]
          BY <2>1, <2>3, <3>1, <3>2
    <3>4. \A f, g \in ManagedFiles : f # g /\ named'[f] # NoFile => named'[f] # named'[g]
      <4> SUFFICES ASSUME NEW f \in ManagedFiles, NEW g \in ManagedFiles, f # g,
                          named'[f] # NoFile
                   PROVE  named'[f] # named'[g]
          OBVIOUS
      <4>1. CASE g = old
            BY <3>3, <4>1
      <4>2. CASE f = new /\ g # old
            BY <1>0, <2>1, <3>3, <4>2 DEF NamesFit
      <4>3. CASE g = new /\ f # old
            BY <1>0, <2>1, <3>3, <4>3 DEF NamesFit
      <4>4. CASE g # old /\ g # new /\ f # new
            BY <1>0, <3>3, <4>4 DEF NamesFit
      <4> QED BY <3>3, <4>1, <4>2, <4>3, <4>4
    <3>5. NamesFit'
          BY <1>0, <2>1, <3>3, <3>4 DEF NamesFit
    <3>6. \A f \in ManagedFiles : named'[f] = named[f] \/ Naming(f) \subseteq shared'
          BY <3>2, <3>3
    <3>7. shared \subseteq shared' /\ shared' \subseteq Uploads \cup Downloads
          BY <1>0, <1>1, <3>2 DEF TransferTables
    <3> QED BY <1>0, <3>5, <3>6, <3>7, RenameMoves
  <2> QED BY <2>2, <2>3
<1> QED BY <1>2, <1>3, <1>4, <1>5
(* What was got, byte by byte, from the start to the end of the file        *)
LEMMA SubSeqIs ==
  ASSUME NEW was \in FileContents, NEW got \in FileContents, NEW start \in Nat,
         start + Len(got) = Len(was),
         \A i \in 1..Len(got) : got[i] = was[start + i]
  PROVE  got = SubSeq(was, start + 1, Len(was))
<1>0. Len(was) \in Nat /\ Len(got) \in Nat
      BY DEF FileContents
<1>1. \A i \in (start + 1)..Len(was) : was[i] \in Data
      BY <1>0 DEF FileContents
<1>2. /\ SubSeq(was, start + 1, Len(was)) \in Seq(Data)
      /\ Len(SubSeq(was, start + 1, Len(was))) = IF start + 1 <= Len(was) THEN Len(was) - (start + 1) + 1 ELSE 0
      /\ \A i \in 1..(Len(was) - (start + 1) + 1) : SubSeq(was, start + 1, Len(was))[i] = was[start + 1 + i - 1]
      BY <1>0, <1>1, SubSeqProperties
<1> DEFINE rest == SubSeq(was, start + 1, Len(was))
<1>3. rest \in Seq(Data) /\ Len(rest) = Len(got)
      BY <1>0, <1>2
<1>4. \A i \in 1..Len(got) : rest[i] = got[i]
      BY <1>0, <1>2
<1> HIDE DEF rest
<1>5. got = rest
      BY <1>3, <1>4, SeqEqual DEF FileContents
<1> QED BY <1>5 DEF rest

(* A step of one download leaves the files and the uploads alone.           *)
LEMMA DownloadMoves ==
  ASSUME TransferInv, NEW d \in Downloads, NEW call,
         download' = [download EXCEPT ![d] = call], NamesFit',
         UNCHANGED <<named, content, mode, upload, strays, expected>>,
         shared \subseteq shared', shared' \subseteq Uploads \cup Downloads,
         d \notin shared' => ReadsAlone(d)' /\ DownloadExact(call, content)
  PROVE  TransferInv'
<1>1. /\ download' = [e \in Downloads |-> download'[e]] /\ download'[d] = call
      /\ \A e \in Downloads \ {d} : download'[e] = download[e]
      BY DEF TransferInv, TransferTables
<1>2. TransferTables' /\ \A v \in Uploads : Active(v)' <=> Active(v)
      BY <1>1 DEF TransferInv, TransferTables, Active
<1>3. ASSUME NEW e \in Downloads, e \notin shared'
      PROVE  ReadsAlone(e)' /\ DownloadExact(download'[e], content')
  <2>1. CASE e = d
        BY <1>1, <1>3, <2>1
  <2>2. CASE e # d
    <3>1. ReadsAlone(e) /\ DownloadExact(download[e], content) /\ download'[e] = download[e]
          BY <1>1, <1>3, <2>2 DEF TransferInv
    <3>2. ReadsAlone(e)'
          BY <1>2, <3>1 DEF ReadsAlone
    <3> QED BY <3>1, <3>2
  <2> QED BY <2>1, <2>2
<1>4. ASSUME NEW u \in Uploads, u \notin shared'
      PROVE  Alone(u)' /\ AsWritten(u)'
  <2>1. Alone(u) /\ AsWritten(u)
        BY <1>4 DEF TransferInv
  <2>2. Alone(u)'
        BY <1>2, <2>1 DEF Alone
  <2>3. AsWritten(u)'
        BY <1>2, <2>1 DEF AsWritten
  <2> QED BY <2>2, <2>3
<1> QED BY <1>2, <1>3, <1>4 DEF TransferInv

LEMMA DownloadSteps ==
  ASSUME TransferInv, NEW d \in Downloads,
         StartDownload(d) \/ OpenDownload(d) \/ ReadNext(d)
  PROVE  TransferInv'
<1>0. /\ NamesFit /\ TransferTables /\ content \in [Inodes -> BoundedFiles]
      /\ d \notin shared => ReadsAlone(d) /\ DownloadExact(download[d], content)
      /\ download = [e \in Downloads |-> download[e]] /\ shared \subseteq Uploads \cup Downloads
      /\ \A i \in Inodes : content[i] \in FileContents
      BY DEF TransferInv, TransferTables, BoundedFiles
<1>1. CASE StartDownload(d)
  <2>1. PICK f \in ManagedFiles, start \in 0..MaxFileSize :
          LET i == named[f]
              writers == {u \in Uploads : Active(u) /\ upload[u].file = i}
          IN
          /\ download[d].step = "none" /\ i # NoFile
          /\ Len(content[i]) <= MaxFileSize
          /\ transfers < MaxTransfers /\ transfers' = transfers + 1
          /\ download' = [download EXCEPT ![d] =
               [step |-> "open", path |-> f, file |-> i, total |-> Len(content[i]),
                start |-> start, got |-> << >>, was |-> content[i]]]
          /\ shared' = IF writers = {} /\ \A w \in strays : w.file # i THEN shared
                       ELSE shared \cup {d}
          /\ UNCHANGED <<named, content, mode, upload, strays, rename, expected>>
        BY <1>1, Zenon DEF StartDownload
  <2> DEFINE i == named[f]
             call == [step |-> "open", path |-> f, file |-> i, total |-> Len(content[i]),
                      start |-> start, got |-> << >>, was |-> content[i]]
  <2>2. i \in Inodes
        BY <1>0, <2>1, InodesAreNotNoFile DEF NamesFit, Inodes
  <2>3. NamesFit'
    <3>1. /\ transfers \in Nat /\ transfers' \in 0..MaxTransfers
          /\ \A n \in 1..transfers : n \in 1..transfers'
          BY <1>0, <2>1, InodesAreNotNoFile DEF NamesFit
    <3> QED BY <1>0, <2>1, <3>1 DEF NamesFit
  <2>4. DownloadExact(call, content)
    <3>1. /\ content[i] \in FileContents /\ << >> \in FileContents /\ Len(<< >>) = 0
          /\ start \in Nat
          BY <1>0, <2>2, InodesAreNotNoFile DEF FileContents
    <3> HIDE DEF i
    <3> QED BY <2>2, <3>1 DEF DownloadExact
  <2>5. /\ download' = [download EXCEPT ![d] = call]
        /\ UNCHANGED <<named, content, mode, upload, strays, expected>>
        /\ shared \subseteq shared' /\ shared' \subseteq Uploads \cup Downloads
        BY <1>0, <2>1
  <2>6. ASSUME d \notin shared' PROVE ReadsAlone(d)'
    <3>1. /\ \A u \in Uploads : Active(u) => upload[u].file # i
          /\ \A w \in strays : w.file # i
      <4>1. /\ {u \in Uploads : Active(u) /\ upload[u].file = i} = {}
            /\ \A w \in strays : w.file # i
            BY <2>1, <2>6
      <4> QED BY <4>1
    <3>2. call.path = f /\ call.file = i /\ download'[d] = call
          BY <1>0, <2>5
    <3>3. \A u \in Uploads : Active(u)' <=> Active(u)
          BY <2>5 DEF Active
    <3> HIDE DEF call
    <3> QED BY <2>5, <3>1, <3>2, <3>3 DEF ReadsAlone
  <2> HIDE DEF call
  <2> QED BY <2>3, <2>4, <2>5, <2>6, DownloadMoves
<1>2. CASE OpenDownload(d)
  <2> DEFINE r == download[d]
             i == named[r.path]
             step == IF i = NoFile THEN "failed" ELSE "read"
             call == [download[d] EXCEPT !.step = step, !.file = i]
  <2>1. /\ r.step = "open" /\ shared' = shared
        /\ download' = [download EXCEPT ![d].step = step, ![d].file = i]
        /\ UNCHANGED <<named, content, mode, upload, strays, expected, transfers>>
        BY <1>2 DEF OpenDownload
  <2>2. NamesFit'
        BY <1>0, <2>1 DEF NamesFit
  <2>3. download' = [download EXCEPT ![d] = download'[d]]
    <3> DEFINE first == [download EXCEPT ![d].step = step]
    <3>1. DOMAIN first = Downloads /\ \A e \in Downloads : e # d => first[e] = download[e]
          BY <1>0
    <3>2. download' = [first EXCEPT ![d].file = i]
          BY <2>1
    <3> HIDE DEF first, step, i
    <3>3. /\ download' = [e \in Downloads |-> download'[e]]
          /\ \A e \in Downloads : e # d => download'[e] = download[e]
          BY <3>1, <3>2
    <3> QED BY <1>0, <3>3
  <2>4. ASSUME d \notin shared
        PROVE  ReadsAlone(d)' /\ DownloadExact(download'[d], content)
    <3>1. /\ r = [step |-> r.step, path |-> r.path, file |-> r.file, total |-> r.total,
                  start |-> r.start, got |-> r.got, was |-> r.was]
          /\ r.file \in Inodes /\ i = r.file /\ DownloadExact(r, content)
          /\ \A u \in Uploads : Active(u) => upload[u].file # r.file
          /\ \A w \in strays : w.file # r.file
          BY <1>0, <2>1, <2>4 DEF DownloadExact, ReadsAlone
    <3> DEFINE next == [step |-> "read", path |-> r.path, file |-> r.file, total |-> r.total,
                        start |-> r.start, got |-> r.got, was |-> r.was]
    <3>2. download'[d] = next
      <4> DEFINE first == [download EXCEPT ![d].step = step]
      <4>1. step = "read"
            BY <3>1, InodesAreNotNoFile
      <4> HIDE DEF step
      <4>2. /\ DOMAIN first = Downloads
            /\ first[d] = [step |-> "read", path |-> r.path, file |-> r.file, total |-> r.total,
                           start |-> r.start, got |-> r.got, was |-> r.was]
        <5> HIDE DEF i
        <5>1. first[d] = [r EXCEPT !.step = "read"]
              BY <1>0, <4>1
        <5>2. [r EXCEPT !.step = "read"] = next
              BY <3>1
        <5> QED BY <1>0, <5>1, <5>2
      <4>3. download' = [first EXCEPT ![d].file = i]
            BY <2>1
      <4> HIDE DEF first
      <4>4. download'[d] = [first[d] EXCEPT !.file = i]
            BY <4>2, <4>3
      <4> HIDE DEF i
      <4>5. [first[d] EXCEPT !.file = i] = next
            BY <3>1, <4>2
      <4> QED BY <4>4, <4>5
    <3>3. /\ next.step = "read" /\ next.path = r.path /\ next.file = r.file
          /\ next.total = r.total /\ next.start = r.start /\ next.got = r.got /\ next.was = r.was
          /\ next = [step |-> next.step, path |-> next.path, file |-> next.file,
                     total |-> next.total, start |-> next.start, got |-> next.got,
                     was |-> next.was]
          OBVIOUS
    <3>4. \A u \in Uploads : Active(u)' <=> Active(u)
          BY <2>1 DEF Active
    <3> HIDE DEF next, i
    <3>5. DownloadExact(next, content)
          BY <2>1, <3>1, <3>3 DEF DownloadExact
    <3>6. ReadsAlone(d)'
          BY <2>1, <3>1, <3>2, <3>3, <3>4 DEF ReadsAlone
    <3> QED BY <3>2, <3>5, <3>6
  <2> HIDE DEF step, i
  <2> QED BY <1>0, <2>1, <2>2, <2>3, <2>4, DownloadMoves
<1>3. CASE ReadNext(d)
  <2> DEFINE r == download[d]
             position == r.start + Len(r.got)
             ended == [r EXCEPT !.step = "completed"]
             step == IF position + 1 >= r.total THEN "completed" ELSE "read"
             grown == Append(r.got, content[r.file][position + 1])
             more == [step |-> step, path |-> r.path, file |-> r.file, total |-> r.total,
                      start |-> r.start, got |-> grown, was |-> r.was]
  <2>1. /\ r.step = "read" /\ shared' = shared
        /\ UNCHANGED <<named, content, mode, upload, strays, expected, transfers>>
        /\ shared \subseteq shared' /\ shared' \subseteq Uploads \cup Downloads
        BY <1>0, <1>3 DEF ReadNext
  <2>n. NamesFit' /\ \A u \in Uploads : Active(u)' <=> Active(u)
        BY <1>0, <2>1 DEF NamesFit, Active
  <2>2. CASE d \in shared
    <3>1. \E call : download' = [download EXCEPT ![d] = call]
      <4>1. download' = [download EXCEPT ![d] = ended] \/
            download' = [download EXCEPT ![d].got = grown, ![d].step = step]
            BY <1>3 DEF ReadNext
      <4>2. CASE download' = [download EXCEPT ![d].got = grown, ![d].step = step]
        <5> DEFINE first == [download EXCEPT ![d].got = grown]
        <5>1. DOMAIN first = Downloads /\ \A e \in Downloads : e # d => first[e] = download[e]
              BY <1>0
        <5>2. download' = [first EXCEPT ![d].step = step]
              BY <4>2
        <5> HIDE DEF first, grown, step
        <5>3. /\ download' = [e \in Downloads |-> download'[e]]
              /\ \A e \in Downloads : e # d => download'[e] = download[e]
              BY <5>1, <5>2
        <5>4. download' = [download EXCEPT ![d] = download'[d]]
              BY <1>0, <5>3
        <5> QED BY <5>4
      <4> QED BY <4>1, <4>2
    <3> QED BY <2>1, <2>n, <2>2, <3>1, DownloadMoves
  <2>3. CASE d \notin shared
    <3>1. /\ r = [step |-> r.step, path |-> r.path, file |-> r.file, total |-> r.total,
                  start |-> r.start, got |-> r.got, was |-> r.was]
          /\ r.path \in ManagedFiles /\ r.file \in Inodes /\ content[r.file] = r.was
          /\ r.was \in FileContents /\ r.got \in FileContents /\ r.start \in Nat
          /\ r.total = Len(r.was)
          /\ r.got = << >> \/ r.start + Len(r.got) <= Len(r.was)
          /\ \A i \in 1..Len(r.got) : r.got[i] = r.was[r.start + i]
          BY <1>0, <2>1, <2>3 DEF DownloadExact
    <3>2. /\ Len(r.got) \in Nat /\ Len(r.was) \in Nat /\ position \in Nat
          BY <3>1 DEF FileContents
    <3>r. ASSUME NEW call, download' = [download EXCEPT ![d] = call], call.file = r.file,
                 call.step \in {"read", "completed"}
          PROVE  ReadsAlone(d)'
      <4>1. ReadsAlone(d) /\ download'[d] = call
            BY <1>0, <2>3, <3>r
      <4> QED BY <2>1, <2>n, <3>r, <4>1 DEF ReadsAlone
    <3>3. CASE position >= Len(content[r.file])
      <4>1. download' = [download EXCEPT ![d] = ended]
            BY <1>3, <3>3 DEF ReadNext
      <4>2. /\ ended.step = "completed" /\ ended.got = r.got /\ ended.was = r.was
            /\ ended.start = r.start /\ ended.file = r.file
            BY <3>1
      <4>3. r.got = SubSeq(r.was, r.start + 1, Len(r.was))
        <5>1. CASE r.got = << >>
          <6>1. Len(r.was) < r.start + 1
                BY <3>1, <3>2, <3>3, <5>1
          <6> QED BY <3>1, <3>2, <5>1, <6>1, SubSeqEmpty
        <5>2. CASE r.start + Len(r.got) = Len(r.was)
              BY <3>1, <3>2, <5>2, SubSeqIs
        <5> QED BY <3>1, <3>2, <3>3, <5>1, <5>2
      <4> HIDE DEF ended
      <4>4. DownloadExact(ended, content)
            BY <4>2, <4>3 DEF DownloadExact
      <4> QED BY <2>1, <2>n, <3>r, <4>1, <4>2, <4>4, DownloadMoves
    <3>4. CASE ~(position >= Len(content[r.file]))
      <4>1. download' = [download EXCEPT ![d].got = grown, ![d].step = step]
            BY <1>3, <3>4 DEF ReadNext
      <4>2. position < Len(r.was) /\ content[r.file] = r.was
            BY <3>1, <3>2, <3>4
      <4>3. r.was[position + 1] \in Data
            BY <3>1, <3>2, <4>2 DEF FileContents
      <4>4. /\ grown \in FileContents /\ Len(grown) = Len(r.got) + 1
            /\ \A i \in 1..Len(grown) : grown[i] = r.was[r.start + i]
        <5>1. grown = Append(r.got, r.was[r.start + Len(r.got) + 1])
              BY <4>2
        <5> HIDE DEF grown
        <5>2. \A i \in 1..Len(r.got) : grown[i] = r.got[i]
              BY <3>1, <4>3, <5>1 DEF FileContents
        <5>3. /\ grown \in FileContents /\ Len(grown) = Len(r.got) + 1
              /\ grown[Len(r.got) + 1] = r.was[r.start + (Len(r.got) + 1)]
              BY <3>1, <3>2, <4>3, <5>1 DEF FileContents
        <5> QED BY <3>1, <3>2, <5>2, <5>3
      <4>5. download' = [download EXCEPT ![d] = more]
        <5> DEFINE first == [download EXCEPT ![d].got = grown]
        <5>1. DOMAIN first = Downloads /\ (\A e \in Downloads : e # d => first[e] = download[e])
              /\ first[d] = [step |-> r.step, path |-> r.path, file |-> r.file, total |-> r.total,
                             start |-> r.start, got |-> grown, was |-> r.was]
              BY <1>0, <3>1
        <5>2. download' = [first EXCEPT ![d].step = step]
              BY <4>1
        <5> HIDE DEF first, grown, step
        <5>3. /\ download' = [e \in Downloads |-> download'[e]]
              /\ \A e \in Downloads : e # d => download'[e] = download[e]
              /\ download'[d] = [first[d] EXCEPT !.step = step]
              BY <5>1, <5>2
        <5>4. [first[d] EXCEPT !.step = step] = more
              BY <5>1
        <5> HIDE DEF more
        <5> QED BY <1>0, <5>3, <5>4
      <4>6. /\ more.step = step /\ more.path = r.path /\ more.file = r.file /\ more.total = r.total
            /\ more.start = r.start /\ more.got = grown /\ more.was = r.was
            /\ more = [step |-> more.step, path |-> more.path, file |-> more.file,
                       total |-> more.total, start |-> more.start, got |-> more.got,
                       was |-> more.was]
            OBVIOUS
      <4>7. step = "completed" => grown = SubSeq(r.was, r.start + 1, Len(r.was))
        <5> SUFFICES ASSUME step = "completed"
                     PROVE  grown = SubSeq(r.was, r.start + 1, Len(r.was))
            OBVIOUS
        <5>1. position + 1 = Len(r.was)
              BY <3>1, <3>2, <4>2
        <5> HIDE DEF grown
        <5>2. r.start + Len(grown) = Len(r.was)
              BY <3>1, <3>2, <4>4, <5>1
        <5> QED BY <3>1, <4>4, <5>2, SubSeqIs
      <4>8. r.start + Len(grown) <= Len(r.was)
            BY <3>1, <3>2, <4>2, <4>4
      <4>s. more.step \in {"read", "completed"}
            OBVIOUS
      <4> HIDE DEF more, grown, step
      <4>9. DownloadExact(more, content)
            BY <3>1, <4>4, <4>6, <4>7, <4>8 DEF DownloadExact
      <4> QED BY <2>1, <2>n, <3>r, <4>5, <4>6, <4>s, <4>9, DownloadMoves
    <3> QED BY <3>3, <3>4
  <2> QED BY <2>2, <2>3
<1> QED BY <1>1, <1>2, <1>3

(* Both names of a rename under way are names of managed files.             *)
RenamesFit ==
  /\ rename = [r \in Renames |-> rename[r]]
  /\ \A r \in Renames : rename[r].step # "none" =>
       rename[r].old \in ManagedFiles /\ rename[r].new \in ManagedFiles

LEMMA RenamesStayFit ==
  ASSUME RenamesFit, [TransferNext]_transferVars
  PROVE  RenamesFit'
<1>1. CASE UNCHANGED rename
      BY <1>1 DEF RenamesFit
<1>2. ASSUME NEW r \in Renames,
             StartRename(r) \/ LookForNew(r) \/ RemoveNew(r) \/ MoveFile(r)
      PROVE  RenamesFit'
  <2>1. CASE StartRename(r)
    <3>1. PICK old \in ManagedFiles, new \in ManagedFiles :
            rename' = [rename EXCEPT ![r] =
              [step |-> IF named[old] = NoFile THEN "done" ELSE "look", old |-> old, new |-> new]]
          BY <2>1 DEF StartRename
    <3> QED BY <3>1 DEF RenamesFit
  <2>2. CASE ~StartRename(r)
    <3>1. PICK step : rename' = [rename EXCEPT ![r].step = step] /\ rename[r].step # "none"
          BY <1>2, <2>2 DEF LookForNew, RemoveNew, MoveFile, RenameTo
    <3>2. /\ rename' = [q \in Renames |-> rename'[q]]
          /\ \A q \in Renames : q # r => rename'[q] = rename[q]
          /\ rename'[r] = [rename[r] EXCEPT !.step = step]
          BY <3>1 DEF RenamesFit
    <3>3. rename'[r].old = rename[r].old /\ rename'[r].new = rename[r].new
          BY <3>2
    <3> QED BY <3>1, <3>2, <3>3 DEF RenamesFit
  <2> QED BY <2>1, <2>2
<1>3. ASSUME NEW u \in Uploads,
             \/ ReceiveChunk(u) \/ QueueChunk(u) \/ ChunkLands(u)
             \/ LooksExecutable(u) \/ SetPermissions(u) \/ Hash(u)
             \/ EndOfStream(u) \/ UploadBreaks(u)
      PROVE  UNCHANGED rename
      BY <1>3 DEF ReceiveChunk, QueueChunk, ChunkLands, LooksExecutable, SetPermissions, Hash,
                  EndOfStream, UploadBreaks
<1>4. ASSUME NEW d \in Downloads, StartDownload(d) \/ OpenDownload(d) \/ ReadNext(d)
      PROVE  UNCHANGED rename
      BY <1>4 DEF StartDownload, OpenDownload, ReadNext
<1>5. CASE StrayEnds \/ UNCHANGED transferVars
      BY <1>1, <1>5 DEF StrayEnds, transferVars
<1> QED BY <1>1, <1>2, <1>3, <1>4, <1>5 DEF TransferNext

(* Streams that met no other, no write of a dropped file and no rename have *)
(* their files to themselves, at every step of them.                        *)
LEMMA TransferInvariant == TransferSpec => [](TransferInv /\ RenamesFit)
<1>1. TransferInit => TransferInv /\ RenamesFit
  <2> SUFFICES ASSUME TransferInit PROVE TransferInv /\ RenamesFit
      OBVIOUS
  <2>1. /\ upload = [u \in Uploads |-> Stream("next")] /\ strays = {} /\ shared = {}
        /\ \A d \in Downloads : download[d].step = "none"
        /\ download = [d \in Downloads |-> download[d]]
        /\ mode = [i \in Inodes |-> mode[i]] /\ expected = [u \in Uploads |-> expected[u]]
        /\ transfers = 0
        BY DEF TransferInit
  <2>2. \A u \in Uploads : UploadFits(upload[u]) /\ ~Active(u) /\ upload[u].step = "next"
    <3>1. \A u \in Uploads : upload[u] = Stream("next")
          BY <2>1
    <3> QED BY <3>1, NewStreamsFit DEF Active
  <2>3. content \in [Inodes -> BoundedFiles]
    <3>1. Found \in BoundedFiles /\ << >> \in BoundedFiles
      <4>1. Found \in FileContents /\ << >> \in FileContents /\ Len(<< >>) = 0
            BY DEF Found, FileContents, Data
      <4>2. Len(Found) \in Nat
            BY <4>1 DEF FileContents
      <4> QED BY <4>1, <4>2, InodesAreNotNoFile DEF BoundedFiles
    <3> QED BY <3>1 DEF TransferInit
  <2>4. NamesFit
    <3>1. /\ \A f \in ManagedFiles : named[f] \in {f, NoFile}
          /\ named \in [ManagedFiles -> ManagedFiles \cup {NoFile}]
          BY DEF TransferInit
    <3> QED BY <2>1, <3>1, InodesAreNotNoFile DEF NamesFit
  <2>5. TransferTables
        BY <2>1, <2>2, <2>3 DEF TransferTables
  <2>6. \A u \in Uploads : Alone(u) /\ AsWritten(u)
        BY <2>2 DEF Alone, AsWritten
  <2>7. \A d \in Downloads : ReadsAlone(d) /\ DownloadExact(download[d], content)
        BY <2>1 DEF ReadsAlone, DownloadExact
  <2>8. RenamesFit
        BY DEF TransferInit, RenamesFit
  <2> QED BY <2>4, <2>5, <2>6, <2>7, <2>8 DEF TransferInv
<1>2. TransferInv /\ RenamesFit /\ [TransferNext]_transferVars => TransferInv' /\ RenamesFit'
  <2> SUFFICES ASSUME TransferInv, RenamesFit, [TransferNext]_transferVars
               PROVE  TransferInv' /\ RenamesFit'
      OBVIOUS
  <2>1. CASE UNCHANGED transferVars
    <3>1. \A v \in Uploads : Active(v)' <=> Active(v)
          BY <2>1 DEF transferVars, Active
    <3>2. NamesFit' /\ TransferTables'
          BY <2>1 DEF transferVars, TransferInv, NamesFit, TransferTables
    <3>3. \A u \in Uploads : (Alone(u) => Alone(u)') /\ (AsWritten(u) => AsWritten(u)')
          BY <2>1, <3>1 DEF transferVars, Alone, AsWritten
    <3>4. \A d \in Downloads : ReadsAlone(d) => ReadsAlone(d)'
          BY <2>1, <3>1 DEF transferVars, ReadsAlone
    <3>5. shared' = shared /\ content' = content /\ download' = download
          BY <2>1 DEF transferVars
    <3>6. TransferInv'
          BY <3>2, <3>3, <3>4, <3>5 DEF TransferInv
    <3> QED BY <2>1, <3>6, RenamesStayFit
  <2>2. CASE TransferNext
    <3>1. ASSUME NEW r \in Renames,
                 StartRename(r) \/ LookForNew(r) \/ RemoveNew(r) \/ MoveFile(r)
          PROVE  TransferInv'
          BY <3>1, RenameSteps DEF RenamesFit
    <3> QED BY <2>2, <3>1, UploadSteps, DownloadSteps, StraySteps, RenamesStayFit DEF TransferNext
  <2> QED BY <2>1, <2>2
<1> QED BY <1>1, <1>2, PTL DEF TransferSpec

(* However many streams and renames run at once, on any files, an upload    *)
(* that met no other upload of its file, no write of a file dropped without *)
(* a flush and no rename of it answers for what the file holds once all its *)
(* chunks have landed, and sets the mode of those bytes, or the plain one   *)
(* when they could not be read; a download that met none of these is        *)
(* complete only with all of the file.                                      *)
THEOREM LoneTransfersAreExact == TransferSpec => []TransfersAreExact
<1>1. TransferInv => TransfersAreExact
  <2> SUFFICES ASSUME TransferInv PROVE TransfersAreExact
      OBVIOUS
  <2>1. \A u \in Uploads \ shared : AsWritten(u)
        BY DEF TransferInv
  <2>2. \A d \in Downloads \ shared : DownloadExact(download[d], content)
        BY DEF TransferInv
  <2> QED BY <2>1, <2>2 DEF TransfersAreExact, AsWritten, DownloadExact
<1> QED BY <1>1, TransferInvariant, PTL

-----------------------------------------------------------------------------
(* The alert engine *)

AlertSpec == AlertInit /\ [][AlertNext]_alertVars

FiredAlert == [at : Int, since : Int, cooldown : Nat, duration : Nat \cup {Never}]

(* The state of every rule there is was filled in by now: what is firing has *)
(* matched since then or longer, and no alert is younger than the last one.  *)
AlertTimes ==
  /\ \A r \in Rules : firing[r] # Never => matching[r] # Never /\ matching[r] <= firing[r]
  /\ \A r \in Rules : \A i \in DOMAIN fired[r] :
       lastFired[r] # Never /\ fired[r][i].at <= lastFired[r]

AlertTables ==
  /\ alertTime \in Nat /\ rules \in [Rules -> RuleForms \cup {NoRule}]
  /\ firing \in [Rules -> 0..alertTime \cup {Never}]
  /\ lastFired \in [Rules -> 0..alertTime \cup {Never}]
  /\ matching \in [Rules -> 0..alertTime \cup {Never}]
  /\ fired \in [Rules -> Seq(FiredAlert)]

AlertInv == AlertTables /\ AlertTimes /\ AlertsAreDue

(* Whole seconds that are some seconds apart are as many apart in time, up   *)
(* to the second that is rounded away.                                      *)
LEMMA SecondsApart ==
  ASSUME NEW s \in Nat, NEW t \in Nat, NEW d \in Nat, Seconds(t) - Seconds(s) >= d
  PROVE  t - s > 2 * d - 2
<1>1. s \div 2 \in Int /\ t \div 2 \in Int /\ t >= 2 * (t \div 2) /\ s <= 2 * (s \div 2) + 1
      BY SMT
<1> QED BY <1>1 DEF Seconds

LEMMA AlertEvaluates ==
  ASSUME AlertInv, Evaluate
  PROVE  AlertInv'
<1> USE AlertAssumption
<1>p. PICK sample \in Samples :
      LET matched == {r \in Enabled : RuleMatches(rules[r], sample)}
          due == {r \in matched : CooledDown(r) /\ HeldLongEnough(r)}
          still == [r \in Rules |-> IF r \in matched /\ matching[r] = Never THEN alertTime
                                    ELSE IF r \in Enabled \ matched THEN Never
                                    ELSE matching[r]]
      IN
      /\ firing' = [r \in Rules |-> IF r \in matched THEN Since(r)
                                    ELSE IF r \in Enabled THEN Never ELSE firing[r]]
      /\ lastFired' = [r \in Rules |-> IF r \in due THEN alertTime ELSE lastFired[r]]
      /\ matching' = still
      /\ fired' = [r \in Rules |-> IF r \notin due THEN fired[r] ELSE Append(fired[r],
           [at |-> alertTime, since |-> still[r],
            cooldown |-> rules[r].cooldown, duration |-> rules[r].duration])]
      /\ UNCHANGED <<rules, alertTime, ruleChanges>>
      BY DEF Evaluate
<1> DEFINE matched == {r \in Enabled : RuleMatches(rules[r], sample)}
           due == {r \in matched : CooledDown(r) /\ HeldLongEnough(r)}
           alert(r) == [at |-> alertTime, since |-> matching'[r],
                        cooldown |-> rules[r].cooldown, duration |-> rules[r].duration]
<1>0. AlertTables /\ AlertTimes /\ AlertsAreDue /\ alertTime \in Nat
      BY DEF AlertInv, AlertTables
<1>u. UNCHANGED <<rules, alertTime>>
      BY <1>p
<1>1. /\ firing' = [r \in Rules |-> IF r \in matched THEN Since(r)
                                    ELSE IF r \in Enabled THEN Never ELSE firing[r]]
      /\ lastFired' = [r \in Rules |-> IF r \in due THEN alertTime ELSE lastFired[r]]
      /\ matching' = [r \in Rules |-> IF r \in matched /\ matching[r] = Never THEN alertTime
                                      ELSE IF r \in Enabled \ matched THEN Never
                                      ELSE matching[r]]
      BY <1>p
<1>2. matched \subseteq Enabled /\ due \subseteq matched /\ Enabled \subseteq Rules
      BY DEF Enabled
<1>3. \A r \in Rules : fired'[r] = IF r \notin due THEN fired[r] ELSE Append(fired[r], alert(r))
      BY <1>p
<1>f. fired' = [r \in Rules |-> fired'[r]]
      BY <1>p
<1> HIDE DEF due, matched
<1>4. \A r \in Rules : Since(r) \in 0..alertTime
      BY <1>0 DEF Since, AlertTables
<1>5. /\ firing' \in [Rules -> 0..alertTime \cup {Never}]
      /\ lastFired' \in [Rules -> 0..alertTime \cup {Never}]
      /\ matching' \in [Rules -> 0..alertTime \cup {Never}]
      BY <1>0, <1>1, <1>4 DEF AlertTables
<1>6. ASSUME NEW r \in matched
      PROVE  /\ rules[r].cooldown \in Nat /\ rules[r].duration \in Nat \cup {Never}
             /\ matching'[r] \in 0..alertTime /\ matching'[r] <= Since(r)
  <2>1. r \in Rules /\ rules[r] \in RuleForms
        BY <1>0, <1>2 DEF AlertTables, Enabled
  <2>2. firing[r] # Never => matching[r] # Never /\ matching[r] <= firing[r]
        BY <1>0, <2>1 DEF AlertTimes
  <2>3. firing[r] \in 0..alertTime \cup {Never} /\ matching[r] \in 0..alertTime \cup {Never}
        BY <1>0, <2>1 DEF AlertTables
  <2>4. matching'[r] = IF matching[r] = Never THEN alertTime ELSE matching[r]
        BY <1>1, <2>1
  <2> QED BY <2>1, <2>2, <2>3, <2>4, <1>0 DEF Since
<1>7. ASSUME NEW r \in due
      PROVE  alert(r) \in FiredAlert
      BY <1>6, <1>2, <1>0 DEF FiredAlert
<1>8. fired' \in [Rules -> Seq(FiredAlert)]
  <2>1. ASSUME NEW r \in Rules PROVE fired'[r] \in Seq(FiredAlert)
    <3>1. fired[r] \in Seq(FiredAlert)
          BY <1>0 DEF AlertTables
    <3>2. r \in due => Append(fired[r], alert(r)) \in Seq(FiredAlert)
          BY <3>1, <1>7
    <3> QED BY <3>1, <3>2, <1>3
  <2> QED BY <2>1, <1>f
<1>9. AlertTables'
      BY <1>0, <1>5, <1>8, <1>u DEF AlertTables
<1>10. ASSUME NEW r \in Rules
       PROVE  /\ firing'[r] # Never => matching'[r] # Never /\ matching'[r] <= firing'[r]
              /\ \A i \in DOMAIN fired'[r] :
                   lastFired'[r] # Never /\ fired'[r][i].at <= lastFired'[r]
  <2>1. firing[r] # Never => matching[r] # Never /\ matching[r] <= firing[r]
        BY <1>0 DEF AlertTimes
  <2>2. firing'[r] # Never => matching'[r] # Never /\ matching'[r] <= firing'[r]
    <3>1. CASE r \in matched
          BY <3>1, <1>6, <1>1
    <3>2. CASE r \notin matched
          BY <3>2, <2>1, <1>1
    <3> QED BY <3>1, <3>2
  <2>3. \A i \in DOMAIN fired[r] : lastFired[r] # Never /\ fired[r][i].at <= lastFired[r]
        BY <1>0 DEF AlertTimes
  <2>4. CASE r \notin due
    <3>1. fired'[r] = fired[r] /\ lastFired'[r] = lastFired[r]
          BY <2>4, <1>1, <1>3
    <3> QED BY <2>2, <2>3, <3>1
  <2>5. CASE r \in due
    <3>1. fired'[r] = Append(fired[r], alert(r)) /\ lastFired'[r] = alertTime
          BY <2>5, <1>1, <1>3
    <3>2. fired[r] \in Seq(FiredAlert) /\ lastFired[r] \in 0..alertTime \cup {Never}
          BY <1>0 DEF AlertTables
    <3>3. ASSUME NEW i \in DOMAIN fired'[r] PROVE fired'[r][i].at <= alertTime
      <4>1. i \in 1..Len(fired[r]) + 1
            BY <3>1, <3>2
      <4>2. CASE i = Len(fired[r]) + 1
            BY <4>2, <3>1, <3>2, <1>0
      <4>3. CASE i # Len(fired[r]) + 1
        <5>1. i \in DOMAIN fired[r] /\ fired'[r][i] = fired[r][i]
              BY <4>1, <4>3, <3>1, <3>2
        <5>2. fired[r][i] \in FiredAlert
              BY <5>1, <3>2
        <5> QED BY <5>1, <5>2, <2>3, <3>2, <1>0 DEF FiredAlert
      <4> QED BY <4>2, <4>3
    <3> QED BY <2>2, <3>1, <3>3, <1>0
  <2> QED BY <2>4, <2>5
<1>11. ASSUME NEW r \in due
       PROVE  /\ \A i \in DOMAIN fired[r] : alertTime - fired[r][i].at > 2 * rules[r].cooldown - 2
              /\ rules[r].duration # Never =>
                   alertTime - matching'[r] > 2 * rules[r].duration - 2
  <2>0. r \in Rules /\ r \in matched
        BY <1>2
  <2>1. CooledDown(r) /\ HeldLongEnough(r)
        BY DEF due
  <2>2. rules[r].cooldown \in Nat /\ rules[r].duration \in Nat \cup {Never}
        BY <2>0, <1>6
  <2>3. ASSUME NEW i \in DOMAIN fired[r]
        PROVE  alertTime - fired[r][i].at > 2 * rules[r].cooldown - 2
    <3>1. lastFired[r] # Never /\ fired[r][i].at <= lastFired[r]
          BY <1>0, <2>0 DEF AlertTimes
    <3>2. lastFired[r] \in Nat /\ fired[r][i].at \in Int
      <4>1. fired[r] \in Seq(FiredAlert) /\ lastFired[r] \in 0..alertTime \cup {Never}
            BY <1>0, <2>0 DEF AlertTables
      <4>2. fired[r][i] \in FiredAlert
            BY <4>1
      <4> QED BY <4>1, <4>2, <3>1, <1>0 DEF FiredAlert
    <3>3. alertTime - lastFired[r] > 2 * rules[r].cooldown - 2
          BY <2>1, <2>2, <3>1, <3>2, <1>0, SecondsApart DEF CooledDown
    <3> QED BY <3>1, <3>2, <3>3, <2>2, <1>0
  <2>4. ASSUME rules[r].duration # Never
        PROVE  alertTime - matching'[r] > 2 * rules[r].duration - 2
    <3>1. Since(r) \in Nat /\ rules[r].duration \in Nat
          BY <1>4, <2>0, <2>2, <2>4
    <3>2. alertTime - Since(r) > 2 * rules[r].duration - 2
          BY <2>1, <2>4, <3>1, <1>0, SecondsApart DEF HeldLongEnough
    <3>3. matching'[r] \in Int /\ matching'[r] <= Since(r)
          BY <1>6, <2>0
    <3> QED BY <3>1, <3>2, <3>3, <1>0
  <2> QED BY <2>3, <2>4
<1>12. ASSUME NEW r \in Rules, NEW j \in DOMAIN fired'[r]
       PROVE  /\ fired'[r][j].since # Never
              /\ fired'[r][j].duration # Never =>
                   fired'[r][j].at - fired'[r][j].since > 2 * fired'[r][j].duration - 2
              /\ \A i \in 1..j-1 :
                   fired'[r][j].at - fired'[r][i].at > 2 * fired'[r][j].cooldown - 2
  <2>1. fired[r] \in Seq(FiredAlert)
        BY <1>0 DEF AlertTables
  <2>2. CASE j \in DOMAIN fired[r] /\ r \in due
    <3>1. fired'[r] = Append(fired[r], alert(r))
          BY <2>2, <1>3
    <3>2. j \in 1..Len(fired[r])
          BY <2>1, <2>2
    <3>3. \A i \in 1..j : fired'[r][i] = fired[r][i]
          BY <2>1, <3>1, <3>2
    <3>4. fired'[r][j] = fired[r][j]
          BY <3>2, <3>3
    <3>5. \A i \in 1..j-1 : fired'[r][i] = fired[r][i]
          BY <3>2, <3>3
    <3>6. /\ fired[r][j].since # Never
          /\ fired[r][j].duration # Never =>
               fired[r][j].at - fired[r][j].since > 2 * fired[r][j].duration - 2
          /\ \A i \in 1..j-1 :
               fired[r][j].at - fired[r][i].at > 2 * fired[r][j].cooldown - 2
          BY <2>2, <1>0 DEF AlertsAreDue
    <3> QED BY <3>4, <3>5, <3>6
  <2>3. CASE r \notin due
        BY <2>3, <1>3, <1>0 DEF AlertsAreDue
  <2>4. CASE j \notin DOMAIN fired[r] /\ r \in due
    <3>1. fired'[r] = Append(fired[r], alert(r))
          BY <2>4, <1>3
    <3>2. fired'[r][j] = alert(r) /\ j = Len(fired[r]) + 1
          BY <2>1, <2>4, <3>1
    <3>3. \A i \in 1..j-1 : i \in DOMAIN fired[r] /\ fired'[r][i] = fired[r][i]
          BY <2>1, <3>1, <3>2
    <3>4. alert(r).since # Never
          BY <2>4, <1>6, <1>2
    <3> QED BY <3>2, <3>3, <3>4, <1>11, <2>4
  <2> QED BY <2>2, <2>3, <2>4
<1>13. AlertTimes'
       BY <1>10 DEF AlertTimes
<1>14. AlertsAreDue'
       BY <1>12 DEF AlertsAreDue
<1> QED BY <1>9, <1>13, <1>14 DEF AlertInv

LEMMA AlertInduction ==
  ASSUME AlertInv, [AlertNext]_alertVars
  PROVE  AlertInv'
<1> USE AlertAssumption
<1>0. AlertTables /\ AlertTimes /\ AlertsAreDue
      BY DEF AlertInv
<1>1. CASE UNCHANGED alertVars
      BY <1>1 DEF AlertInv, AlertTables, AlertTimes, AlertsAreDue, alertVars
<1>2. CASE AddRule
  <2>1. rules' \in [Rules -> RuleForms \cup {NoRule}]
        BY <1>2, <1>0 DEF AddRule, AlertTables
  <2>2. UNCHANGED <<firing, lastFired, alertTime, matching, fired>>
        BY <1>2 DEF AddRule
  <2> QED BY <2>1, <2>2, <1>0 DEF AlertInv, AlertTables, AlertTimes, AlertsAreDue
<1>3. CASE RemoveRule
  <2> PICK r \in Rules :
        /\ rules' = [rules EXCEPT ![r] = NoRule] /\ Forgotten(r)
        /\ matching' = [matching EXCEPT ![r] = Never] /\ fired' = [fired EXCEPT ![r] = << >>]
        /\ alertTime' = alertTime
        BY <1>3 DEF RemoveRule
  <2>1. AlertTables'
        BY <1>0 DEF AlertTables, Forgotten
  <2>2. firing'[r] = Never /\ fired'[r] = << >>
        BY <1>0 DEF AlertTables, Forgotten
  <2>3. ASSUME NEW q \in Rules, q # r
        PROVE  /\ firing'[q] = firing[q] /\ lastFired'[q] = lastFired[q]
               /\ matching'[q] = matching[q] /\ fired'[q] = fired[q]
        BY <1>0, <2>3 DEF AlertTables, Forgotten
  <2>4. AlertTimes'
        BY <1>0, <2>2, <2>3 DEF AlertTimes
  <2>5. AlertsAreDue'
        BY <1>0, <2>2, <2>3 DEF AlertsAreDue
  <2> QED BY <2>1, <2>4, <2>5 DEF AlertInv
<1>4. CASE Evaluate
      BY <1>4, AlertEvaluates
<1>5. CASE ResolveAlert
      BY <1>5, <1>0 DEF ResolveAlert, AlertInv, AlertTables, AlertTimes, AlertsAreDue
<1>6. CASE AlertClock
  <2>1. alertTime' = alertTime + 1 /\ UNCHANGED <<rules, firing, lastFired, matching, fired>>
        BY <1>6 DEF AlertClock
  <2>2. AlertTables'
        BY <2>1, <1>0 DEF AlertTables
  <2> QED BY <2>1, <2>2, <1>0 DEF AlertInv, AlertTimes, AlertsAreDue
<1> QED BY <1>1, <1>2, <1>3, <1>4, <1>5, <1>6 DEF AlertNext

(* What the engine keeps of a rule fits the alerts the rule has fired.       *)
LEMMA AlertInvariant == AlertSpec => []AlertInv
<1>1. AlertInit => AlertInv
      BY DEF AlertInit, AlertInv, AlertTables, AlertTimes, AlertsAreDue
<1> QED BY <1>1, AlertInduction, PTL DEF AlertSpec

(* However rules are added, replaced and removed between the evaluations,   *)
(* every alert is fired after its rule matched for the duration it asks     *)
(* for, and its cooldown after the alert before it.                         *)
THEOREM AlertsAreDueAlways == AlertSpec => []AlertsAreDue
<1>1. AlertInv => AlertsAreDue
      BY DEF AlertInv
<1> QED BY <1>1, AlertInvariant, PTL


-----------------------------------------------------------------------------
(* The script engine *)

RenderSpec == RenderInit /\ [][RenderNext]_rendering

(* A value that resolves is one the definition allows.                      *)
LEMMA ResolvedIsAllowed ==
  ASSUME NEW def \in Definition, NEW given \in [Names -> Values], Resolves(def, given)
  PROVE  LET value == ValueToUse(def, given) IN
         /\ value \in Values \cap def.pattern
         /\ value = given[def.name] \/ (given[def.name] = Empty /\ value = def.default)
         /\ def.required => value \notin {Empty, Blank}
         /\ value = Empty \/ value \in def.type
<1>1. Validates(def, ValueToUse(def, given))
      BY DEF Resolves
<1>2. def.pattern \subseteq Values
      BY DEF Definition
<1> QED BY <1>1, <1>2 DEF Validates, ValueToUse

(* The definition that decides is the last one of its name.                 *)
LEMMA LastDefinition ==
  ASSUME NEW defs \in Seq(Definition), NEW n \in Defined(defs)
  PROVE  LET k == Max({l \in DOMAIN defs : defs[l].name = n}) IN
         /\ k \in DOMAIN defs /\ defs[k].name = n
         /\ \A l \in k+1..Len(defs) : defs[l].name # n
<1> DEFINE S == {l \in DOMAIN defs : defs[l].name = n}
           k == Max(S)
<1>1. S \in SUBSET (1..Len(defs)) /\ S # {} /\ Len(defs) \in Nat
      BY DEF Defined
<1>2. k \in S /\ \A l \in S : k >= l
  <2> HIDE DEF S
  <2> QED BY <1>1, GreatestIndex
<1>3. k \in DOMAIN defs /\ defs[k].name = n
      BY <1>2
<1>4. ASSUME NEW l \in k+1..Len(defs) PROVE defs[l].name # n
  <2> HIDE DEF k
  <2>1. l \in 1..Len(defs) /\ ~(k >= l)
        BY <1>1, <1>2
  <2> QED BY <2>1, <1>2
<1> QED BY <1>3, <1>4

LEMMA ScriptRenders ==
  ASSUME RenderScript
  PROVE  RenderedIsComplete'
<1> PICK body \in Bodies, defs \in Definitions, given \in [Names -> Values] :
      rendering' = [result |-> Rendered(body, defs, given).result,
                    body |-> body, defs |-> defs, given |-> given,
                    command |-> IF Rendered(body, defs, given).result # "ok" THEN << >>
                      ELSE ExecutionCommand("shell", Rendered(body, defs, given).content).args]
      BY DEF RenderScript
<1>1. SUFFICES ASSUME rendering'.result = "ok"
               PROVE  RenderedIsComplete'
      BY DEF RenderedIsComplete
<1>2. Rendered(body, defs, given).result = "ok"
      BY <1>1
<1>3. /\ MissingDefinitions(body, defs) = {} /\ \A i \in DOMAIN defs : Resolves(defs[i], given)
      /\ Rendered(body, defs, given).content = Substituted(body, defs, given)
      BY <1>2 DEF Rendered, IsValid
<1> DEFINE text == Substituted(body, defs, given)
<1>4. rendering'.command = Append(<<"-c">>, text)
      BY <1>2, <1>3 DEF ExecutionCommand
<1>5. body \in Seq(Names \cup Values) /\ defs \in Seq(Definition)
      BY ScriptEngineAssumption
<1>6. text = [i \in 1..Len(body) |-> text[i]]
      BY <1>5 DEF Substituted
<1>7. Last(rendering'.command) = text /\ Len(text) = Len(body)
  <2>1. Len(text) = Len(body)
        BY <1>5, <1>6
  <2> HIDE DEF text
  <2>2. <<"-c">> \in Seq({"-c", text}) /\ Len(<<"-c">>) = 1
        OBVIOUS
  <2>3. Last(rendering'.command) = text
        BY <2>2, <1>4 DEF Last
  <2> QED BY <2>1, <2>3
<1>8. ASSUME NEW i \in DOMAIN body
      PROVE  IF body[i] \notin Names THEN text[i] = body[i]
             ELSE \E k \in DOMAIN defs :
               /\ defs[k].name = body[i] /\ \A l \in k+1..Len(defs) : defs[l].name # body[i]
               /\ text[i] \in Values \cap defs[k].pattern
               /\ \/ text[i] = given[defs[k].name]
                  \/ given[defs[k].name] = Empty /\ text[i] = defs[k].default
               /\ defs[k].required => text[i] \notin {Empty, Blank}
               /\ text[i] = Empty \/ text[i] \in defs[k].type
  <2>1. CASE body[i] \notin Names
    <3>1. \A d \in Definition : d.name \in Names
          BY DEF Definition
    <3>2. body[i] \notin Defined(defs)
          BY <2>1, <3>1, <1>5 DEF Defined
    <3> QED BY <2>1, <3>2 DEF Substituted
  <2>2. CASE body[i] \in Names
    <3> DEFINE k == Max({l \in DOMAIN defs : defs[l].name = body[i]})
    <3>1. body[i] \in Defined(defs)
          BY <2>2, <1>3 DEF MissingDefinitions, Detected
    <3>2. /\ k \in DOMAIN defs /\ defs[k].name = body[i]
          /\ \A l \in k+1..Len(defs) : defs[l].name # body[i]
          BY <3>1, <1>5, LastDefinition
    <3>3. text[i] = ValueToUse(defs[k], given)
          BY <3>1 DEF Substituted
    <3> HIDE DEF k, text
    <3>4. defs[k] \in Definition /\ Resolves(defs[k], given)
          BY <3>2, <1>3, <1>5
    <3> QED BY <2>2, <3>2, <3>3, <3>4, ResolvedIsAllowed
  <2> QED BY <2>1, <2>2
<1>9. rendering'.body = body /\ rendering'.defs = defs /\ rendering'.given = given
      OBVIOUS
<1> HIDE DEF text
<1> QED BY <1>7, <1>8, <1>9 DEF RenderedIsComplete

(* Whatever a script and the definitions of its parameters say, what is     *)
(* rendered has a value its last definition allows at every placeholder.    *)
THEOREM RenderedIsAlwaysComplete == RenderSpec => []RenderedIsComplete
<1>1. RenderInit => RenderedIsComplete
      BY DEF RenderInit, RenderedIsComplete, Unanswered
<1>2. RenderedIsComplete /\ [RenderNext]_rendering => RenderedIsComplete'
  <2>1. CASE UNCHANGED rendering
        BY <2>1 DEF RenderedIsComplete
  <2>2. CASE RenderScript
        BY <2>2, ScriptRenders
  <2>3. CASE RenderReturns
        BY <2>3 DEF RenderReturns, RenderedIsComplete, Unanswered
  <2> QED BY <2>1, <2>2, <2>3 DEF RenderNext
<1> QED BY <1>1, <1>2, PTL DEF RenderSpec


-----------------------------------------------------------------------------
(* The data router *)

RouterSpec == RouterInit /\ [][RouterNext]_routerVars

(* A call of deliver that still sends knows which of the senders in its     *)
(* copy, all of them behind it, are closed; while nobody shortened the      *)
(* list since, it begins with the copy.                                     *)
DeliverCall == [at : {"sending"}, topic : Topics, to : Seq(Subscribers), next : Nat,
                dead : Seq(Nat), cuts : Nat]

Sending(m) ==
  LET d == delivery[m] IN
  /\ d \in DeliverCall /\ d.next \in 1..Len(d.to)+1 /\ d.cuts <= cuts
  /\ \A i \in DOMAIN d.dead :
       /\ d.dead[i] \in 1..d.next-1 /\ d.to[d.dead[i]] \in Ended
       /\ \A j \in DOMAIN d.dead : i < j => d.dead[i] < d.dead[j]
  /\ d.cuts = cuts => /\ Len(d.to) <= Len(Senders)
                      /\ \A i \in 1..Len(d.to) : Senders[i] = d.to[i]

RouterAgrees ==
  /\ registry \in Seq(Subscribers) \cup {NoList} /\ cuts \in Nat
  /\ forwarder \in [Subscribers -> {"new", "waiting", "sending", "ended"}]
  /\ delivery = [m \in Deliveries |-> delivery[m]]
  /\ \A m \in Deliveries : delivery[m].at = "sending" => Sending(m)
  /\ ~poisoned /\ Live \ removed \subseteq ToSet(Senders)

RouterInv == raced \in BOOLEAN /\ (~raced => RouterAgrees)

LEMMA SwapRemoves ==
  ASSUME NEW S, NEW list \in Seq(S), NEW i \in 1..Len(list)
  PROVE  /\ SwapRemove(list, i) \in Seq(S)
         /\ Len(SwapRemove(list, i)) = Len(list) - 1
         /\ \A p \in 1..Len(list)-1 :
              SwapRemove(list, i)[p] = IF p = i THEN list[Len(list)] ELSE list[p]
<1> DEFINE moved == [list EXCEPT ![i] = Last(list)]
<1>1. Len(list) \in Nat /\ Len(list) >= 1
      OBVIOUS
<1>2. Last(list) = list[Len(list)] /\ list[Len(list)] \in S
      BY <1>1 DEF Last
<1>3. \A p \in 1..Len(list) : moved[p] = IF p = i THEN list[Len(list)] ELSE list[p]
      BY <1>2
<1>4. \A p \in 1..Len(list)-1 : moved[p] \in S
      BY <1>1, <1>2, <1>3
<1> HIDE DEF moved
<1>5. /\ SubSeq(moved, 1, Len(list) - 1) \in Seq(S)
      /\ Len(SubSeq(moved, 1, Len(list) - 1)) = Len(list) - 1
      /\ \A p \in 1..Len(list)-1 : SubSeq(moved, 1, Len(list) - 1)[p] = moved[p]
  <2>1. Len(list) - 1 \in Int
        BY <1>1
  <2>2. /\ SubSeq(moved, 1, Len(list) - 1) \in Seq(S)
        /\ Len(SubSeq(moved, 1, Len(list) - 1)) =
             IF 1 <= Len(list) - 1 THEN Len(list) - 1 - 1 + 1 ELSE 0
        /\ \A p \in 1..Len(list)-1-1+1 : SubSeq(moved, 1, Len(list) - 1)[p] = moved[1 + p - 1]
        BY <2>1, <1>4, SubSeqProperties
  <2>3. Len(list) - 1 - 1 + 1 = Len(list) - 1 /\ \A p \in Int : 1 + p - 1 = p
        BY <1>1
  <2>4. CASE Len(list) = 1
    <3>1. ~(1 <= Len(list) - 1) /\ Len(list) - 1 = 0
          BY <2>4
    <3> QED BY <2>2, <2>3, <3>1
  <2>5. CASE Len(list) # 1
    <3>1. \A l \in Nat : l >= 1 /\ l # 1 => 1 <= l - 1
          OBVIOUS
    <3>2. 1 <= Len(list) - 1
          BY <3>1, <2>5, <1>1
    <3> QED BY <2>2, <2>3, <3>2
  <2> QED BY <2>4, <2>5
<1>6. SwapRemove(list, i) = SubSeq(moved, 1, Len(list) - 1)
      BY DEF SwapRemove, moved
<1>7. \A p \in 1..Len(list)-1 :
        SwapRemove(list, i)[p] = IF p = i THEN list[Len(list)] ELSE list[p]
  <2> TAKE p \in 1..Len(list)-1
  <2>1. p \in 1..Len(list)
        BY <1>1
  <2> QED BY <2>1, <1>3, <1>5, <1>6
<1> QED BY <1>5, <1>6, <1>7

TakesOff(after, list, order) ==
  /\ after[0] = [list |-> list, panics |-> FALSE]
  /\ \A k \in 1..Len(order) :
       after[k] = IF after[k-1].panics \/ order[k] > Len(after[k-1].list)
                  THEN [after[k-1] EXCEPT !.panics = TRUE]
                  ELSE [after[k-1] EXCEPT !.list = SwapRemove(@, order[k])]

(* Removals takes one sender off after the other.                           *)
LEMMA RemovalsStep ==
  ASSUME NEW S, NEW list \in Seq(S), NEW order \in Seq(Nat \ {0})
  PROVE  TakesOff(Removals(list, order), list, order)
<1> DEFINE X == [list : Seq(S), panics : BOOLEAN]
           Next1(b, i) == IF b.panics \/ i > Len(b.list) THEN [b EXCEPT !.panics = TRUE]
                          ELSE [b EXCEPT !.list = SwapRemove(@, i)]
           step == [k \in Nat |-> [b \in X |->
                      IF k \in 1..Len(order) THEN Next1(b, order[k]) ELSE b]]
           start == [list |-> list, panics |-> FALSE]
           Goal(f) == f = [k \in 0..Len(order) |->
             IF k = 0 THEN start
             ELSE IF f[k-1].panics \/ order[k] > Len(f[k-1].list)
             THEN [f[k-1] EXCEPT !.panics = TRUE]
             ELSE [f[k-1] EXCEPT !.list = SwapRemove(@, order[k])]]
<1>0. Len(order) \in Nat /\ \A k \in 1..Len(order) : order[k] \in Nat \ {0}
      OBVIOUS
<1>1. ASSUME NEW b \in X, NEW i \in Nat \ {0} PROVE Next1(b, i) \in X
  <2>1. CASE b.panics \/ i > Len(b.list)
        BY <2>1
  <2>2. CASE ~b.panics /\ ~(i > Len(b.list))
    <3>1. b.list \in Seq(S) /\ i \in 1..Len(b.list)
          BY <2>2
    <3>2. SwapRemove(b.list, i) \in Seq(S)
          BY <3>1, SwapRemoves
    <3> QED BY <2>2, <3>2
  <2> QED BY <2>1, <2>2
<1>2. start \in X
      OBVIOUS
<1>3. step \in [Nat -> [X -> X]]
  <2>1. ASSUME NEW k \in Nat, NEW b \in X
        PROVE  (IF k \in 1..Len(order) THEN Next1(b, order[k]) ELSE b) \in X
    <3> HIDE DEF X, Next1
    <3> QED BY <1>0, <1>1
  <2> HIDE DEF X, Next1
  <2> QED BY <2>1
<1>4. \A b \in X, k \in 1..Len(order) : step[k][b] = Next1(b, order[k])
  <2> TAKE b \in X, k \in 1..Len(order)
  <2>1. k \in Nat
        BY <1>0
  <2> HIDE DEF X, Next1
  <2> QED BY <2>1
<1> HIDE DEF X, step, start
<1>n. Len(order) \in Nat
      BY <1>0
<1>r. PICK f \in [0..Len(order) -> X] : Recurs(f, start, step, Len(order))
      BY <1>n, <1>2, <1>3, Recursion
<1>5. f[0] = start /\ \A k \in 1..Len(order) : f[k] = step[k][f[k-1]]
      BY <1>r DEF Recurs
<1>6. \A k \in 1..Len(order) : f[k] = Next1(f[k-1], order[k])
  <2> TAKE k \in 1..Len(order)
  <2>1. k - 1 \in 0..Len(order)
        BY <1>0
  <2>2. f[k-1] \in X
        BY <2>1
  <2> HIDE DEF Next1
  <2> QED BY <2>2, <1>4, <1>5
<1>7. Goal(f)
  <2>1. \A k \in 0..Len(order) : k # 0 => k \in 1..Len(order)
        BY <1>0
  <2>2. \A k \in 0..Len(order) : f[k] = IF k = 0 THEN start ELSE Next1(f[k-1], order[k])
        BY <2>1, <1>5, <1>6
  <2>3. f = [k \in 0..Len(order) |-> f[k]]
        OBVIOUS
  <2> QED BY <2>2, <2>3
<1>8. Goal(Removals(list, order))
  <2>1. Removals(list, order) = CHOOSE g : Goal(g)
        BY DEF Removals, start
  <2> HIDE DEF Goal
  <2> QED BY <1>7, <2>1
<1> DEFINE g == Removals(list, order)
<1>9. g[0] = start
  <2>1. 0 \in 0..Len(order)
        BY <1>0
  <2> HIDE DEF g
  <2> QED BY <2>1, <1>8 DEF g
<1>10. \A k \in 1..Len(order) : g[k] = Next1(g[k-1], order[k])
  <2> TAKE k \in 1..Len(order)
  <2>1. k \in 0..Len(order) /\ k # 0
        BY <1>0
  <2> HIDE DEF g
  <2> QED BY <2>1, <1>8 DEF g
<1> HIDE DEF g
<1>11. TakesOff(g, list, order)
       BY <1>9, <1>10 DEF TakesOff, start
<1> QED BY <1>11 DEF g

(* Taking closed senders off from the last to the first never leaves the    *)
(* list, and whoever is not closed stays on it.                             *)
LEMMA CleanedKeeps ==
  ASSUME NEW S, NEW list \in Seq(S), NEW closed, NEW dead \in Seq(Nat),
         \A i \in DOMAIN dead : /\ dead[i] \in 1..Len(list) /\ list[dead[i]] \in closed
                                /\ \A j \in DOMAIN dead : i < j => dead[i] < dead[j]
  PROVE  LET after == CleanedList(list, dead) IN
         /\ after.list \in Seq(S) /\ after.panics = FALSE
         /\ ToSet(list) \ closed \subseteq ToSet(after.list)
<1> DEFINE n == Len(dead)
           order == RemovalOrder(dead)
           after == Removals(list, order)
           Untouched(k) == IF k = 0 THEN Len(list) ELSE order[k] - 1
           Good(k) == /\ after[k] = [list |-> after[k].list, panics |-> FALSE]
                      /\ after[k].list \in Seq(S)
                      /\ Untouched(k) \in Nat /\ Untouched(k) <= Len(after[k].list)
                      /\ \A p \in 1..Untouched(k) : after[k].list[p] = list[p]
                      /\ ToSet(list) \ closed \subseteq ToSet(after[k].list)
           T == {k \in Nat : k <= n => Good(k)}
<1>0. n \in Nat /\ Len(list) \in Nat
      OBVIOUS
<1>1. /\ order \in Seq(Nat \ {0}) /\ Len(order) = n
      /\ \A k \in 1..n : order[k] \in 1..Len(list) /\ list[order[k]] \in closed
      /\ \A k \in 1..n : k > 1 => order[k] < order[k-1]
  <2>1. order = [k \in 1..n |-> dead[(n - k) + 1]]
        BY DEF RemovalOrder, Reverse
  <2>2. \A k \in 1..n : (n - k) + 1 \in 1..n /\ (n - k) + 1 \in DOMAIN dead
        BY <1>0
  <2>3. \A k \in 1..n : order[k] \in 1..Len(list) /\ list[order[k]] \in closed
    <3> HIDE DEF n, order
    <3> QED BY <2>1, <2>2
  <2>4. \A k \in 1..n : order[k] \in Nat \ {0}
        BY <2>3, <1>0
  <2>5. order \in Seq(Nat \ {0}) /\ Len(order) = n
    <3> HIDE DEF order, n
    <3> QED BY <2>1, <2>4, <1>0
  <2>6. ASSUME NEW k \in 1..n, k > 1 PROVE order[k] < order[k-1]
    <3>1. k - 1 \in 1..n /\ (n - k) + 1 < (n - (k - 1)) + 1
          BY <2>6, <1>0
    <3>2. order[k] = dead[(n - k) + 1] /\ order[k-1] = dead[(n - (k - 1)) + 1]
      <4> HIDE DEF n, order
      <4> QED BY <3>1, <2>1
    <3> HIDE DEF n, order
    <3> QED BY <3>1, <3>2, <2>2
  <2> QED BY <2>3, <2>5, <2>6
<1>2. /\ after[0] = [list |-> list, panics |-> FALSE]
      /\ \A k \in 1..n :
           after[k] = IF after[k-1].panics \/ order[k] > Len(after[k-1].list)
                      THEN [after[k-1] EXCEPT !.panics = TRUE]
                      ELSE [after[k-1] EXCEPT !.list = SwapRemove(@, order[k])]
  <2> HIDE DEF order
  <2>1. order \in Seq(Nat \ {0}) /\ Len(order) = n
        BY <1>1
  <2>2. TakesOff(after, list, order)
        BY <2>1, RemovalsStep
  <2> HIDE DEF n, after
  <2> QED BY <2>1, <2>2 DEF TakesOff
<1> HIDE DEF n, order, after
<1>3. 0 \in T
  <2>1. Good(0)
        BY <1>0, <1>2
  <2> HIDE DEF Good
  <2> QED BY <2>1
<1>4. ASSUME NEW k \in Nat, k + 1 <= n, Good(k)
      PROVE  Good(k + 1)
  <2> DEFINE l == after[k].list
             i == order[k + 1]
             r == SwapRemove(l, i)
  <2>0. k + 1 \in 1..n /\ (k + 1) - 1 = k
        BY <1>0, <1>4
  <2>t. after[k] = [list |-> l, panics |-> FALSE]
        BY <1>4, Zenon
  <2>p. after[k].panics = FALSE
        BY <2>t
  <2>1. l \in Seq(S) /\ after[k].panics = FALSE /\ Len(l) \in Nat
        BY <2>p, <1>4
  <2>2. i \in 1..Untouched(k) /\ list[i] \in closed
    <3>1. i \in 1..Len(list) /\ list[i] \in closed
          BY <2>0, <1>1
    <3>2. CASE k = 0
          BY <3>1, <3>2
    <3>3. CASE k # 0
      <4>1. k \in 1..n /\ order[k + 1] < order[k]
            BY <2>0, <3>3, <1>0, <1>1
      <4>2. order[k] \in Nat
            BY <4>1, <1>0, <1>1
      <4> HIDE DEF i
      <4> QED BY <3>1, <3>3, <4>1, <4>2 DEF i
    <3> QED BY <3>2, <3>3
  <2>3. i \in 1..Len(l) /\ l[i] \in closed
        BY <2>1, <2>2, <1>4
  <2>4. after[k + 1] = [list |-> r, panics |-> FALSE]
    <3>1. ~(i > Len(l))
          BY <2>1, <2>3
    <3>2. after[k + 1] = [after[k] EXCEPT !.list = r]
          BY <1>2, <2>0, <2>1, <3>1
    <3>3. \A u, v, w : [[list |-> u, panics |-> v] EXCEPT !.list = w] =
                         [list |-> w, panics |-> v]
          OBVIOUS
    <3>4. [[list |-> l, panics |-> FALSE] EXCEPT !.list = r] = [list |-> r, panics |-> FALSE]
          BY <3>3, Zenon
    <3> HIDE DEF l, r
    <3> QED BY <3>2, <3>4, <2>t, Zenon
  <2>5. /\ r \in Seq(S) /\ Len(r) = Len(l) - 1
        /\ \A p \in 1..Len(l)-1 : r[p] = IF p = i THEN l[Len(l)] ELSE l[p]
    <3> HIDE DEF l, i
    <3> QED BY <2>1, <2>3, SwapRemoves
  <2>6. Untouched(k + 1) = i - 1
        BY <2>0
  <2>u. Untouched(k) \in Nat /\ Untouched(k) <= Len(l)
        BY <1>4
  <2>v. \A p \in 1..Untouched(k) : l[p] = list[p]
        BY <1>4
  <2>w. ToSet(list) \ closed \subseteq ToSet(l)
        BY <1>4
  <2> HIDE DEF l, i, r, Untouched
  <2>7. \A p \in 1..i-1 : r[p] = list[p]
    <3> TAKE p \in 1..i-1
    <3>1. p \in 1..Len(l)-1 /\ p # i /\ p \in 1..Untouched(k)
          BY <2>1, <2>2, <2>3, <2>u
    <3> QED BY <3>1, <2>5, <2>v
  <2>8. ASSUME NEW x \in ToSet(list) \ closed PROVE x \in ToSet(r)
    <3>1. PICK p \in 1..Len(l) : l[p] = x
          BY <2>1, <2>w DEF ToSet
    <3>2. p # i
          BY <3>1, <2>3
    <3>3. CASE p = Len(l)
      <4>1. i \in 1..Len(l)-1
            BY <2>1, <2>3, <3>2, <3>3
      <4>2. r[i] = x
            BY <4>1, <3>1, <3>3, <2>5
      <4>3. i \in DOMAIN r
            BY <4>1, <2>5
      <4> QED BY <4>2, <4>3 DEF ToSet
    <3>4. CASE p # Len(l)
      <4>1. p \in 1..Len(l)-1
            BY <2>1, <3>4
      <4>2. r[p] = x
            BY <4>1, <3>1, <3>2, <2>5
      <4>3. p \in DOMAIN r
            BY <4>1, <2>5
      <4> QED BY <4>2, <4>3 DEF ToSet
    <3> QED BY <3>3, <3>4
  <2>9. i - 1 \in Nat /\ i - 1 <= Len(r)
        BY <2>1, <2>3, <2>5
  <2> QED BY <2>4, <2>5, <2>6, <2>7, <2>8, <2>9
<1>5. T \in SUBSET Nat /\ \A k \in T : k + 1 \in T
  <2> HIDE DEF Good
  <2>1. ASSUME NEW k \in Nat, k <= n => Good(k), k + 1 <= n PROVE Good(k + 1)
    <3>1. k <= n
          BY <1>0, <2>1
    <3> QED BY <2>1, <3>1, <1>4
  <2> QED BY <2>1
<1>6. Good(n)
  <2> HIDE DEF T, Good
  <2>1. T = Nat
        BY <1>3, <1>5, NumberInduction
  <2>2. n \in T /\ n <= n
        BY <2>1, <1>0
  <2> QED BY <2>2 DEF T
<1>7. CleanedList(list, dead) = after[n]
      BY DEF CleanedList, after, order, n
<1> QED BY <1>6, <1>7


(* A call that sends is not disturbed when a list only grows and closed     *)
(* subscriptions stay closed, nor by the list being shortened.              *)
LEMMA SendingStays ==
  ASSUME NEW m, Sending(m), delivery'[m] = delivery[m], Ended \subseteq Ended',
         cuts \in Nat, Senders \in Seq(Subscribers), Senders' \in Seq(Subscribers),
         \/ cuts' = cuts + 1
         \/ /\ cuts' = cuts /\ Len(Senders) <= Len(Senders')
            /\ \A i \in 1..Len(Senders) : Senders'[i] = Senders[i]
  PROVE  Sending(m)'
<1> DEFINE d == delivery[m]
<1>0. d \in DeliverCall
      BY DEF Sending
<1>1. /\ d.to \in Seq(Subscribers) /\ d.next \in 1..Len(d.to)+1
      /\ d.cuts \in Nat /\ d.cuts <= cuts /\ d.dead \in Seq(Nat)
      BY <1>0 DEF Sending, DeliverCall
<1>2. \A i \in DOMAIN d.dead :
        /\ d.dead[i] \in 1..d.next-1 /\ d.to[d.dead[i]] \in Ended'
        /\ \A j \in DOMAIN d.dead : i < j => d.dead[i] < d.dead[j]
      BY DEF Sending
<1>3. d.cuts = cuts => /\ Len(d.to) <= Len(Senders)
                       /\ \A i \in 1..Len(d.to) : Senders[i] = d.to[i]
      BY DEF Sending
<1>4. delivery'[m] = d
      OBVIOUS
<1> HIDE DEF d
<1>5. d.cuts <= cuts' /\ (d.cuts = cuts' => cuts' = cuts)
      BY <1>1
<1>6. d.cuts = cuts' => /\ Len(d.to) <= Len(Senders')
                        /\ \A i \in 1..Len(d.to) : Senders'[i] = d.to[i]
  <2>1. SUFFICES ASSUME d.cuts = cuts'
                 PROVE  /\ Len(d.to) <= Len(Senders')
                        /\ \A i \in 1..Len(d.to) : Senders'[i] = d.to[i]
        OBVIOUS
  <2>2. cuts' = cuts /\ Len(Senders) <= Len(Senders')
        /\ \A i \in 1..Len(Senders) : Senders'[i] = Senders[i]
        BY <2>1, <1>5
  <2>3. Len(d.to) <= Len(Senders) /\ \A i \in 1..Len(d.to) : Senders[i] = d.to[i]
        BY <2>1, <2>2, <1>3
  <2>4. Len(d.to) \in Nat /\ Len(Senders) \in Nat /\ Len(Senders') \in Nat
        BY <1>1
  <2>5. \A i \in 1..Len(d.to) : i \in 1..Len(Senders)
        BY <2>3, <2>4
  <2> QED BY <2>2, <2>3, <2>4, <2>5
<1> QED BY <1>0, <1>1, <1>2, <1>4, <1>5, <1>6 DEF Sending

LEMMA SendersType ==
  ASSUME RouterAgrees
  PROVE  Senders \in Seq(Subscribers)
  BY RouterAssumption DEF RouterAgrees, Senders

(* What none of the calls and no forwarder's end touches keeps the rest.    *)
LEMMA RouterKeeps ==
  ASSUME RouterAgrees, UNCHANGED <<registry, poisoned, delivery, cuts, removed>>,
         forwarder' \in [Subscribers -> {"new", "waiting", "sending", "ended"}],
         Ended \subseteq Ended', Live' \subseteq Live
  PROVE  RouterAgrees'
<1>1. Senders \in Seq(Subscribers) /\ Senders' = Senders /\ Len(Senders) \in Nat
      BY SendersType DEF Senders
<1>2. cuts \in Nat /\ \A m \in Deliveries : delivery[m].at = "sending" => Sending(m)
      BY DEF RouterAgrees
<1>3. ASSUME NEW m \in Deliveries, delivery'[m].at = "sending" PROVE Sending(m)'
  <2>1. Sending(m) /\ delivery'[m] = delivery[m]
        BY <1>2, <1>3
  <2>2. cuts' = cuts /\ Len(Senders) <= Len(Senders')
        /\ \A i \in 1..Len(Senders) : Senders'[i] = Senders[i]
        BY <1>1
  <2>3. Senders' \in Seq(Subscribers)
        BY <1>1
  <2> QED BY <2>1, <2>2, <2>3, <1>1, <1>2, SendingStays
<1>4. Live' \ removed' \subseteq ToSet(Senders')
      BY <1>1 DEF RouterAgrees
<1> QED BY <1>3, <1>4 DEF RouterAgrees

LEMMA DeliverStarts ==
  ASSUME RouterAgrees, NEW m \in Deliveries, Deliver(m)
  PROVE  RouterAgrees'
<1> PICK topic \in Topics :
      delivery' = [delivery EXCEPT ![m] = [at |-> "sending", topic |-> topic,
                     to |-> Senders, next |-> 1, dead |-> << >>, cuts |-> cuts]]
      BY DEF Deliver
<1> DEFINE d == [at |-> "sending", topic |-> topic,
                 to |-> Senders, next |-> 1, dead |-> << >>, cuts |-> cuts]
<1>0. UNCHANGED <<registry, poisoned, forwarder, cuts, removed>>
      BY DEF Deliver
<1>1. Senders \in Seq(Subscribers) /\ Senders' = Senders /\ Len(Senders) \in Nat
      BY <1>0, SendersType DEF Senders
<1>2. cuts \in Nat /\ delivery = [k \in Deliveries |-> delivery[k]]
      /\ \A k \in Deliveries : delivery[k].at = "sending" => Sending(k)
      BY DEF RouterAgrees
<1>3. /\ delivery'[m] = d /\ delivery' = [k \in Deliveries |-> delivery'[k]]
      /\ \A k \in Deliveries : k # m => delivery'[k] = delivery[k]
  <2> HIDE DEF d
  <2>1. delivery' = [delivery EXCEPT ![m] = d]
        BY DEF d
  <2> QED BY <2>1, <1>2
<1>4. Ended' = Ended /\ Live' = Live
      BY <1>0 DEF Ended, Live
<1>5. Sending(m)'
  <2>1. /\ d.to = Senders /\ d.next = 1 /\ d.dead = << >> /\ d.cuts = cuts
        OBVIOUS
  <2>2. << >> \in Seq(Nat) /\ DOMAIN << >> = {}
        OBVIOUS
  <2>3. d \in DeliverCall
        BY <1>1, <1>2, <2>2 DEF DeliverCall
  <2>4. delivery'[m] = d
        BY <1>3
  <2> HIDE DEF d
  <2>5. 1 \in 1..Len(Senders)+1 /\ cuts <= cuts
        BY <1>1, <1>2
  <2>6. Len(d.to) <= Len(Senders') /\ \A i \in 1..Len(d.to) : Senders'[i] = d.to[i]
        BY <2>1, <1>1
  <2>7. \A i : i \notin DOMAIN d.dead
        BY <2>1, <2>2
  <2> QED BY <2>1, <2>3, <2>4, <2>5, <2>6, <2>7, <1>0 DEF Sending
<1>6. ASSUME NEW k \in Deliveries, delivery'[k].at = "sending" PROVE Sending(k)'
  <2>1. CASE k = m
        BY <2>1, <1>5
  <2>2. CASE k # m
    <3>1. Sending(k) /\ delivery'[k] = delivery[k]
          BY <2>2, <1>2, <1>3, <1>6
    <3>2. Ended \subseteq Ended' /\ cuts' = cuts /\ Len(Senders) <= Len(Senders')
          /\ \A i \in 1..Len(Senders) : Senders'[i] = Senders[i]
          BY <1>0, <1>1, <1>4
    <3>3. Senders' \in Seq(Subscribers)
          BY <1>1
    <3> QED BY <3>1, <3>2, <3>3, <1>1, <1>2, SendingStays
  <2> QED BY <2>1, <2>2
<1>7. Live' \ removed' \subseteq ToSet(Senders')
      BY <1>0, <1>1, <1>4 DEF RouterAgrees
<1> HIDE DEF d
<1> QED BY <1>0, <1>3, <1>6, <1>7 DEF RouterAgrees

LEMMA DeliverSends ==
  ASSUME RouterAgrees, NEW m \in Deliveries, SendNext(m)
  PROVE  RouterAgrees'
<1> DEFINE d == delivery[m]
<1>0. UNCHANGED <<registry, poisoned, forwarder, cuts, removed>>
      BY DEF SendNext
<1>1. Senders \in Seq(Subscribers) /\ Senders' = Senders /\ Len(Senders) \in Nat
      BY <1>0, SendersType DEF Senders
<1>2. cuts \in Nat /\ delivery = [k \in Deliveries |-> delivery[k]]
      /\ \A k \in Deliveries : delivery[k].at = "sending" => Sending(k)
      BY DEF RouterAgrees
<1>3. /\ d.at = "sending" /\ d.next <= Len(d.to) /\ Sending(m)
      BY <1>2 DEF SendNext
<1>4. /\ d.to \in Seq(Subscribers) /\ d.next \in 1..Len(d.to) /\ Len(d.to) \in Nat
      /\ d.cuts \in Nat /\ d.cuts <= cuts /\ d.dead \in Seq(Nat) /\ d \in DeliverCall
      BY <1>3 DEF Sending, DeliverCall
<1>5. \/ /\ d.to[d.next] \in Ended
         /\ delivery' = [delivery EXCEPT ![m].next = @ + 1, ![m].dead = Append(@, d.next)]
      \/ delivery' = [delivery EXCEPT ![m].next = @ + 1]
      BY DEF SendNext
<1>6. /\ delivery' = [k \in Deliveries |-> delivery'[k]]
      /\ \A k \in Deliveries : k # m => delivery'[k] = delivery[k]
      BY <1>2, <1>5
<1>7. Ended' = Ended /\ Live' = Live
      BY <1>0 DEF Ended, Live
<1>8. Sending(m)'
  <2> DEFINE sent == [d EXCEPT !.next = @ + 1]
             failed == [d EXCEPT !.next = @ + 1, !.dead = Append(@, d.next)]
  <2>1. \/ delivery'[m] = failed /\ d.to[d.next] \in Ended
        \/ delivery'[m] = sent
        BY <1>2, <1>5
  <2>2. \A i \in DOMAIN d.dead :
          /\ d.dead[i] \in 1..d.next-1 /\ d.to[d.dead[i]] \in Ended
          /\ \A j \in DOMAIN d.dead : i < j => d.dead[i] < d.dead[j]
        BY <1>3 DEF Sending
  <2>3. d.cuts = cuts => /\ Len(d.to) <= Len(Senders)
                         /\ \A i \in 1..Len(d.to) : Senders[i] = d.to[i]
        BY <1>3 DEF Sending
  <2>4. d.next + 1 \in 1..Len(d.to)+1 /\ d.next + 1 \in Nat
        BY <1>4
  <2>5. CASE delivery'[m] = sent
    <3>1. /\ sent \in DeliverCall /\ sent.to = d.to /\ sent.next = d.next + 1
          /\ sent.dead = d.dead /\ sent.cuts = d.cuts
          BY <1>4, <2>4 DEF DeliverCall
    <3>2. \A i \in DOMAIN d.dead : d.dead[i] \in 1..d.next+1-1
          BY <2>2, <1>4
    <3> HIDE DEF sent, d
    <3> QED BY <2>2, <2>3, <2>4, <2>5, <3>1, <3>2, <1>0, <1>1, <1>4, <1>7 DEF Sending
  <2>6. CASE delivery'[m] = failed /\ d.to[d.next] \in Ended
    <3> DEFINE dead == Append(d.dead, d.next)
    <3>1. /\ failed \in DeliverCall /\ failed.to = d.to /\ failed.next = d.next + 1
          /\ failed.dead = dead /\ failed.cuts = d.cuts
      <4>1. /\ sent \in DeliverCall /\ sent.to = d.to /\ sent.next = d.next + 1
            /\ sent.cuts = d.cuts
            BY <1>4, <2>4 DEF DeliverCall
      <4>2. dead \in Seq(Nat)
            BY <1>4
      <4>3. failed = [sent EXCEPT !.dead = dead]
            BY <1>4 DEF DeliverCall
      <4> HIDE DEF sent, dead, failed
      <4> QED BY <4>1, <4>2, <4>3 DEF DeliverCall
    <3>d. /\ Len(d.dead) \in Nat /\ DOMAIN dead = 1..Len(d.dead)+1
          /\ DOMAIN d.dead = 1..Len(d.dead)
          /\ dead[Len(d.dead)+1] = d.next
          /\ \A i \in DOMAIN d.dead : dead[i] = d.dead[i]
          BY <1>4
    <3> HIDE DEF failed, dead, d
    <3>2. ASSUME NEW i \in DOMAIN dead
          PROVE  /\ dead[i] \in 1..d.next+1-1 /\ d.to[dead[i]] \in Ended
                 /\ \A j \in DOMAIN dead : i < j => dead[i] < dead[j]
      <4>1. CASE i \in DOMAIN d.dead
        <5>1. dead[i] = d.dead[i] /\ dead[i] \in 1..d.next-1 /\ d.to[dead[i]] \in Ended
              BY <4>1, <3>d, <2>2
        <5>2. ASSUME NEW j \in DOMAIN dead, i < j PROVE dead[i] < dead[j]
          <6>1. CASE j \in DOMAIN d.dead
                BY <6>1, <4>1, <5>1, <5>2, <2>2, <3>d
          <6>2. CASE j \notin DOMAIN d.dead
            <7>1. j = Len(d.dead) + 1
                  BY <6>2, <3>d
            <7> QED BY <7>1, <5>1, <3>d, <1>4
          <6> QED BY <6>1, <6>2
        <5> QED BY <5>1, <5>2, <1>4
      <4>2. CASE i \notin DOMAIN d.dead
        <5>1. i = Len(d.dead) + 1
              BY <4>2, <3>d
        <5>2. dead[i] = d.next
              BY <5>1, <3>d
        <5>3. \A j \in DOMAIN dead : ~(i < j)
              BY <5>1, <3>d
        <5> QED BY <5>2, <5>3, <2>6, <1>4
      <4> QED BY <4>1, <4>2
    <3> QED BY <2>3, <2>4, <2>6, <3>1, <3>2, <1>0, <1>1, <1>4, <1>7 DEF Sending
  <2> QED BY <2>1, <2>5, <2>6
<1>9. ASSUME NEW k \in Deliveries, delivery'[k].at = "sending" PROVE Sending(k)'
  <2>1. CASE k = m
        BY <2>1, <1>8, <1>9
  <2>2. CASE k # m
    <3>1. Sending(k) /\ delivery'[k] = delivery[k]
          BY <2>2, <1>2, <1>6, <1>9
    <3>2. Ended \subseteq Ended' /\ cuts' = cuts /\ Len(Senders) <= Len(Senders')
          /\ \A i \in 1..Len(Senders) : Senders'[i] = Senders[i]
          BY <1>0, <1>1, <1>7
    <3>3. Senders' \in Seq(Subscribers)
          BY <1>1
    <3> QED BY <3>1, <3>2, <3>3, <1>1, <1>2, SendingStays
  <2> QED BY <2>1, <2>2
<1>10. Live' \ removed' \subseteq ToSet(Senders')
      BY <1>0, <1>1, <1>7 DEF RouterAgrees
<1> QED BY <1>0, <1>6, <1>9, <1>10 DEF RouterAgrees


LEMMA DeliverCleansUp ==
  ASSUME RouterAgrees, NEW m \in Deliveries, CleanUp(m), ~raced'
  PROVE  RouterAgrees'
<1> DEFINE d == delivery[m]
           after == CleanedList(registry, d.dead)
<1>0. UNCHANGED <<forwarder, removed>> /\ delivery' = [delivery EXCEPT ![m] = [at |-> "done"]]
      /\ d.at = "sending" /\ d.next > Len(d.to)
      BY DEF CleanUp
<1>1. Senders \in Seq(Subscribers) /\ Len(Senders) \in Nat
      BY SendersType
<1>2. cuts \in Nat /\ delivery = [k \in Deliveries |-> delivery[k]] /\ ~poisoned
      /\ registry \in Seq(Subscribers) \cup {NoList}
      /\ \A k \in Deliveries : delivery[k].at = "sending" => Sending(k)
      BY DEF RouterAgrees
<1>3. /\ delivery' = [k \in Deliveries |-> delivery'[k]] /\ delivery'[m] = [at |-> "done"]
      /\ \A k \in Deliveries : k # m => delivery'[k] = delivery[k]
      BY <1>0, <1>2
<1>4. Ended' = Ended /\ Live' = Live /\ Live \cap Ended = {}
      BY <1>0 DEF Ended, Live
<1>5. ASSUME NEW k \in Deliveries, delivery'[k].at = "sending"
      PROVE  Sending(k) /\ delivery'[k] = delivery[k]
  <2>1. [at |-> "done"].at # "sending"
        OBVIOUS
  <2>2. k # m
        BY <2>1, <1>3, <1>5
  <2> QED BY <2>2, <1>2, <1>3, <1>5
<1>6. CASE UNCHANGED <<registry, poisoned, cuts>>
  <2>1. Senders' = Senders
        BY <1>6 DEF Senders
  <2>2. ASSUME NEW k \in Deliveries, delivery'[k].at = "sending" PROVE Sending(k)'
    <3>1. Sending(k) /\ delivery'[k] = delivery[k]
          BY <1>5, <2>2
    <3>2. Ended \subseteq Ended' /\ cuts' = cuts /\ Len(Senders) <= Len(Senders')
          /\ \A i \in 1..Len(Senders) : Senders'[i] = Senders[i]
          BY <1>6, <1>1, <1>4, <2>1
    <3>3. Senders' \in Seq(Subscribers)
          BY <1>1, <2>1
    <3> QED BY <3>1, <3>2, <3>3, <1>1, <1>2, SendingStays
  <2>3. Live' \ removed' \subseteq ToSet(Senders')
        BY <1>0, <1>4, <2>1 DEF RouterAgrees
  <2> QED BY <1>0, <1>3, <1>6, <2>2, <2>3 DEF RouterAgrees
<1>7. CASE /\ registry # NoList /\ registry' = after.list /\ poisoned' = after.panics
           /\ cuts' = cuts + 1 /\ raced' = (raced \/ cuts # d.cuts)
  <2>1. registry \in Seq(Subscribers) /\ Senders = registry /\ d.cuts = cuts
        BY <1>2, <1>7 DEF Senders
  <2>2. Sending(m)
        BY <1>0, <1>2
  <2>3. /\ d.to \in Seq(Subscribers) /\ d.next \in Nat /\ d.next = Len(d.to) + 1
        /\ d.dead \in Seq(Nat)
        BY <2>2, <1>0 DEF Sending, DeliverCall
  <2>4. Len(d.to) <= Len(registry) /\ \A i \in 1..Len(d.to) : registry[i] = d.to[i]
        BY <2>1, <2>2 DEF Sending
  <2>5. \A i \in DOMAIN d.dead :
          /\ d.dead[i] \in 1..d.next-1 /\ d.to[d.dead[i]] \in Ended
          /\ \A j \in DOMAIN d.dead : i < j => d.dead[i] < d.dead[j]
        BY <2>2 DEF Sending
  <2> HIDE DEF d
  <2>6. ASSUME NEW i \in DOMAIN d.dead
        PROVE  d.dead[i] \in 1..Len(registry) /\ registry[d.dead[i]] \in Ended
    <3>1. d.dead[i] \in 1..Len(d.to) /\ d.to[d.dead[i]] \in Ended
          BY <2>3, <2>5
    <3>2. Len(d.to) \in Nat /\ Len(registry) \in Nat
          BY <2>1, <2>3
    <3> QED BY <3>1, <3>2, <2>4
  <2>7. /\ after.list \in Seq(Subscribers) /\ after.panics = FALSE
        /\ ToSet(registry) \ Ended \subseteq ToSet(after.list)
    <3>1. \A i \in DOMAIN d.dead :
            /\ d.dead[i] \in 1..Len(registry) /\ registry[d.dead[i]] \in Ended
            /\ \A j \in DOMAIN d.dead : i < j => d.dead[i] < d.dead[j]
          BY <2>5, <2>6
    <3> QED BY <2>1, <2>3, <3>1, CleanedKeeps
  <2> HIDE DEF after
  <2>8. registry' \in Seq(Subscribers) /\ Senders' = registry' /\ cuts' \in Nat
        BY <2>7, <1>2, <1>7, RouterAssumption DEF Senders
  <2>9. ~poisoned'
        BY <2>7, <1>7, Zenon
  <2>10. ASSUME NEW k \in Deliveries, delivery'[k].at = "sending" PROVE Sending(k)'
    <3>1. Sending(k) /\ delivery'[k] = delivery[k]
          BY <1>5, <2>10
    <3>2. Ended \subseteq Ended' /\ cuts' = cuts + 1
          BY <1>7, <1>4
    <3>3. Senders' \in Seq(Subscribers)
          BY <2>8
    <3> QED BY <3>1, <3>2, <3>3, <1>1, <1>2, SendingStays
  <2>11. Live' \ removed' \subseteq ToSet(Senders')
    <3>1. Live \ removed \subseteq ToSet(registry)
          BY <2>1 DEF RouterAgrees
    <3>2. ToSet(Senders') = ToSet(after.list)
          BY <2>8, <1>7
    <3> QED BY <3>1, <3>2, <2>7, <1>0, <1>4
  <2>12. forwarder' \in [Subscribers -> {"new", "waiting", "sending", "ended"}]
         BY <1>0 DEF RouterAgrees
  <2> QED BY <1>3, <2>8, <2>9, <2>10, <2>11, <2>12 DEF RouterAgrees
<1> QED BY <1>2, <1>6, <1>7 DEF CleanUp

LEMMA AppIsRemoved ==
  ASSUME RouterAgrees, RemoveApp
  PROVE  RouterAgrees'
<1>0. /\ registry # NoList /\ registry' = NoList /\ cuts' = cuts + 1
      /\ removed' = removed \cup ToSet(registry) /\ UNCHANGED <<poisoned, forwarder, delivery>>
      BY DEF RemoveApp
<1>1. Senders \in Seq(Subscribers) /\ Senders = registry
      BY <1>0, SendersType DEF Senders
<1>2. cuts \in Nat /\ \A k \in Deliveries : delivery[k].at = "sending" => Sending(k)
      BY DEF RouterAgrees
<1>3. Senders' = << >> /\ Senders' \in Seq(Subscribers)
      BY <1>0 DEF Senders
<1>4. Ended' = Ended /\ Live' = Live
      BY <1>0 DEF Ended, Live
<1>5. ASSUME NEW k \in Deliveries, delivery'[k].at = "sending" PROVE Sending(k)'
  <2>1. Sending(k) /\ delivery'[k] = delivery[k]
        BY <1>0, <1>2, <1>5
  <2> QED BY <2>1, <1>0, <1>1, <1>2, <1>3, <1>4, SendingStays
<1>6. Live' \ removed' \subseteq ToSet(Senders')
  <2>1. Live \ removed \subseteq ToSet(registry)
        BY <1>1 DEF RouterAgrees
  <2> QED BY <2>1, <1>0, <1>4
<1> QED BY <1>0, <1>2, <1>5, <1>6 DEF RouterAgrees

LEMMA SubscriberJoins ==
  ASSUME RouterAgrees, NEW s \in Subscribers, SubscribeData(s)
  PROVE  RouterAgrees'
<1>0. /\ registry' = Append(Senders, s) /\ forwarder' = [forwarder EXCEPT ![s] = "waiting"]
      /\ forwarder[s] = "new" /\ UNCHANGED <<poisoned, delivery, cuts, removed>>
      BY DEF SubscribeData
<1>1. Senders \in Seq(Subscribers) /\ Len(Senders) \in Nat
      BY SendersType
<1>2. cuts \in Nat /\ (\A k \in Deliveries : delivery[k].at = "sending" => Sending(k))
      /\ forwarder \in [Subscribers -> {"new", "waiting", "sending", "ended"}]
      BY DEF RouterAgrees
<1>3. registry' \in Seq(Subscribers) /\ Senders' = Append(Senders, s)
  <2>1. Append(Senders, s) \in Seq(Subscribers)
        BY <1>1
  <2>2. registry' # NoList
        BY <1>0, <2>1, RouterAssumption
  <2>3. Senders' = registry'
        BY <2>2 DEF Senders
  <2> QED BY <1>0, <2>1, <2>3
<1>4. /\ Senders' \in Seq(Subscribers) /\ Len(Senders') = Len(Senders) + 1
      /\ \A i \in 1..Len(Senders) : Senders'[i] = Senders[i]
      /\ Senders'[Len(Senders) + 1] = s
      BY <1>1, <1>3
<1>5. /\ forwarder' \in [Subscribers -> {"new", "waiting", "sending", "ended"}]
      /\ forwarder'[s] = "waiting"
      /\ \A q \in Subscribers : q # s => forwarder'[q] = forwarder[q]
      BY <1>0, <1>2
<1>6. Ended \subseteq Ended' /\ Live' \subseteq Live \cup {s}
      BY <1>0, <1>5 DEF Ended, Live
<1>7. ASSUME NEW k \in Deliveries, delivery'[k].at = "sending" PROVE Sending(k)'
  <2>1. Sending(k) /\ delivery'[k] = delivery[k]
        BY <1>0, <1>2, <1>7
  <2>2. cuts' = cuts /\ Len(Senders) <= Len(Senders')
        BY <1>0, <1>1, <1>4
  <2> QED BY <2>1, <2>2, <1>1, <1>2, <1>4, <1>6, SendingStays
<1>8. Live' \ removed' \subseteq ToSet(Senders')
  <2>1. Live \ removed \subseteq ToSet(Senders)
        BY DEF RouterAgrees
  <2>2. ToSet(Senders) \subseteq ToSet(Senders') /\ s \in ToSet(Senders')
        BY <1>1, <1>4 DEF ToSet
  <2> QED BY <2>1, <2>2, <1>0, <1>6
<1>9. ~poisoned'
      BY <1>0 DEF RouterAgrees
<1> QED BY <1>0, <1>2, <1>3, <1>5, <1>7, <1>8, <1>9 DEF RouterAgrees

LEMMA RouterInduction ==
  ASSUME RouterInv, [RouterNext]_routerVars
  PROVE  RouterInv'
<1>0. raced \in BOOLEAN /\ (~raced => RouterAgrees)
      BY DEF RouterInv
<1>1. raced' \in BOOLEAN /\ (raced => raced')
  <2>1. CASE UNCHANGED raced
        BY <2>1, <1>0
  <2>2. CASE \E m \in Deliveries : CleanUp(m)
    <3>1. PICK m \in Deliveries : CleanUp(m)
          BY <2>2
    <3>2. raced' = raced \/ raced' = (raced \/ cuts # delivery[m].cuts)
          BY <3>1 DEF CleanUp
    <3> QED BY <3>2, <1>0, Zenon
  <2> QED BY <2>1, <2>2 DEF RouterNext, routerVars, RemoveApp, Deliver, SendNext,
            SubscribeData, Receive, SendToClient, SendersGone, ClientReads, ClientLeaves
<1>2. SUFFICES ASSUME ~raced', RouterAgrees
               PROVE  RouterAgrees'
      BY <1>0, <1>1 DEF RouterInv
<1>3. forwarder \in [Subscribers -> {"new", "waiting", "sending", "ended"}]
      BY <1>2 DEF RouterAgrees
<1>4. CASE UNCHANGED <<registry, poisoned, delivery, cuts, removed, forwarder>>
  <2>1. Ended' = Ended /\ Live' = Live
        BY <1>4 DEF Ended, Live
  <2> QED BY <1>2, <1>3, <1>4, <2>1, RouterKeeps
<1>5. ASSUME NEW s \in Subscribers, Receive(s) \/ SendToClient(s) \/ SendersGone(s)
      PROVE  RouterAgrees'
  <2>1. /\ forwarder[s] \in {"waiting", "sending"}
        /\ \/ forwarder' = forwarder
           \/ \E f \in {"waiting", "sending", "ended"} : forwarder' = [forwarder EXCEPT ![s] = f]
        BY <1>5 DEF Receive, SendToClient, SendersGone
  <2>2. forwarder' \in [Subscribers -> {"new", "waiting", "sending", "ended"}]
        BY <1>3, <2>1
  <2>3. Ended \subseteq Ended' /\ Live' \subseteq Live
        BY <1>3, <2>1 DEF Ended, Live
  <2>4. UNCHANGED <<registry, poisoned, delivery, cuts, removed>>
        BY <1>5 DEF Receive, SendToClient, SendersGone
  <2> QED BY <1>2, <2>2, <2>3, <2>4, RouterKeeps
<1>6. ASSUME NEW s \in Subscribers, ClientReads(s) \/ ClientLeaves(s)
      PROVE  RouterAgrees'
      BY <1>4, <1>6 DEF ClientReads, ClientLeaves
<1>7. CASE UNCHANGED routerVars
      BY <1>4, <1>7 DEF routerVars
<1>8. ASSUME NEW m \in Deliveries, Deliver(m) \/ SendNext(m) \/ CleanUp(m)
      PROVE  RouterAgrees'
      BY <1>2, <1>8, DeliverStarts, DeliverSends, DeliverCleansUp
<1>9. ASSUME NEW s \in Subscribers, SubscribeData(s) PROVE RouterAgrees'
      BY <1>2, <1>9, SubscriberJoins
<1>10. CASE RemoveApp
       BY <1>2, <1>10, AppIsRemoved
<1> QED BY <1>5, <1>6, <1>7, <1>8, <1>9, <1>10 DEF RouterNext

(* With any number of subscriptions, messages and calls of deliver between  *)
(* them, a live subscriber stays registered and nothing panics, until two   *)
(* calls shorten the list at once.                                          *)
THEOREM LiveSubscribersAlwaysStay == RouterSpec => []LiveSubscribersStay
<1>1. RouterInit => RouterInv
  <2>1. SUFFICES ASSUME RouterInit PROVE RouterInv
        OBVIOUS
  <2>2. \A m \in Deliveries : delivery[m].at # "sending"
        BY <2>1 DEF RouterInit
  <2>3. Live = {}
        BY <2>1 DEF RouterInit, Live
  <2>4. delivery = [m \in Deliveries |-> delivery[m]]
        BY <2>1 DEF RouterInit
  <2>5. /\ registry = NoList /\ cuts \in Nat /\ ~poisoned /\ raced = FALSE
        /\ forwarder \in [Subscribers -> {"new", "waiting", "sending", "ended"}]
        BY <2>1 DEF RouterInit
  <2> QED BY <2>2, <2>3, <2>4, <2>5 DEF RouterInv, RouterAgrees
<1>2. RouterInv => LiveSubscribersStay
      BY DEF RouterInv, RouterAgrees, LiveSubscribersStay
<1> QED BY <1>1, <1>2, RouterInduction, PTL DEF RouterSpec


-----------------------------------------------------------------------------
(* What a filter keeps *)

Filters(kept, seq, S) ==
  /\ kept[0] = << >>
  /\ \A k \in 1..Len(seq) :
       kept[k] = IF seq[k] \in S THEN Append(kept[k-1], seq[k]) ELSE kept[k-1]

(* The recursion of KeptUpTo has a value for every length.                  *)
LEMMA KeptStep ==
  ASSUME NEW X, NEW seq \in Seq(X), NEW S
  PROVE  /\ KeptUpTo(seq, S) \in [0..Len(seq) -> Seq(X \cap S)]
         /\ Filters(KeptUpTo(seq, S), seq, S)
<1> DEFINE Y == Seq(X \cap S)
           step == [k \in Nat |-> [b \in Y |->
                      IF k \in 1..Len(seq) /\ seq[k] \in S THEN Append(b, seq[k]) ELSE b]]
           Goal(f) == f = [n \in 0..Len(seq) |->
                        IF n = 0 THEN << >>
                        ELSE IF seq[n] \in S THEN Append(f[n-1], seq[n]) ELSE f[n-1]]
<1>1. Len(seq) \in Nat /\ \A k \in 1..Len(seq) : seq[k] \in X
      OBVIOUS
<1>2. << >> \in Y
      OBVIOUS
<1>3. step \in [Nat -> [Y -> Y]]
  <2>1. ASSUME NEW k \in Nat, NEW b \in Y
        PROVE  (IF k \in 1..Len(seq) /\ seq[k] \in S THEN Append(b, seq[k]) ELSE b) \in Y
        BY <1>1
  <2> HIDE DEF Y
  <2> QED BY <2>1
<1>4. \A k \in 1..Len(seq), b \in Y :
        step[k][b] = IF seq[k] \in S THEN Append(b, seq[k]) ELSE b
  <2> HIDE DEF Y
  <2> QED BY <1>1
<1> HIDE DEF Y, step
<1>5. PICK f \in [0..Len(seq) -> Y] : Recurs(f, << >>, step, Len(seq))
      BY <1>1, <1>2, <1>3, Recursion
<1>6. f[0] = << >> /\ \A k \in 1..Len(seq) : f[k] = step[k][f[k-1]]
      BY <1>5 DEF Recurs
<1>7. ASSUME NEW k \in 1..Len(seq)
      PROVE  f[k] = IF seq[k] \in S THEN Append(f[k-1], seq[k]) ELSE f[k-1]
  <2>1. k - 1 \in 0..Len(seq)
        BY <1>1
  <2>2. f[k-1] \in Y
        BY <2>1
  <2> QED BY <2>2, <1>4, <1>6
<1>8. Goal(f)
  <2>1. \A k \in 0..Len(seq) : k # 0 => k \in 1..Len(seq)
        BY <1>1
  <2>2. \A k \in 0..Len(seq) :
          f[k] = IF k = 0 THEN << >>
                 ELSE IF seq[k] \in S THEN Append(f[k-1], seq[k]) ELSE f[k-1]
        BY <2>1, <1>6, <1>7
  <2>3. f = [k \in 0..Len(seq) |-> f[k]]
        OBVIOUS
  <2> QED BY <2>2, <2>3
<1> DEFINE g == KeptUpTo(seq, S)
<1>9. Goal(g)
  <2>1. g = CHOOSE h : Goal(h)
        BY DEF KeptUpTo
  <2> HIDE DEF Goal, g
  <2> QED BY <1>8, <2>1
<1> HIDE DEF g
<1>10. g[0] = << >>
  <2>1. 0 \in 0..Len(seq)
        BY <1>1
  <2> QED BY <2>1, <1>9
<1>11. \A k \in 1..Len(seq) :
         g[k] = IF seq[k] \in S THEN Append(g[k-1], seq[k]) ELSE g[k-1]
  <2> TAKE k \in 1..Len(seq)
  <2>1. k \in 0..Len(seq) /\ k # 0
        BY <1>1
  <2> QED BY <2>1, <1>9
<1>12. Filters(g, seq, S)
       BY <1>10, <1>11 DEF Filters
<1>13. g \in [0..Len(seq) -> Y]
  <2> DEFINE T == {k \in Nat : k <= Len(seq) => g[k] \in Y}
  <2>1. 0 \in T
        BY <1>2, <1>10
  <2>2. ASSUME NEW k \in T PROVE k + 1 \in T
    <3>1. SUFFICES ASSUME k + 1 <= Len(seq) PROVE g[k + 1] \in Y
          OBVIOUS
    <3>2. k \in Nat /\ k + 1 \in 1..Len(seq) /\ (k + 1) - 1 = k /\ k <= Len(seq)
          BY <3>1, <1>1
    <3>3. g[k] \in Y /\ seq[k+1] \in X
          BY <3>2, <1>1
    <3>4. g[k + 1] = IF seq[k+1] \in S THEN Append(g[k], seq[k+1]) ELSE g[k]
          BY <3>2, <1>11
    <3> QED BY <3>3, <3>4 DEF Y
  <2> HIDE DEF T
  <2>3. T = Nat
    <3>1. T \in SUBSET Nat
          BY DEF T
    <3> QED BY <3>1, <2>1, <2>2, NumberInduction
  <2>4. \A k \in 0..Len(seq) : g[k] \in Y
        BY <2>3, <1>1 DEF T
  <2>5. g = [k \in 0..Len(seq) |-> g[k]]
        BY <1>9
  <2> QED BY <2>4, <2>5
<1> QED BY <1>12, <1>13 DEF g, Y

LEMMA KeptType ==
  ASSUME NEW X, NEW seq \in Seq(X), NEW S
  PROVE  Kept(seq, S) \in Seq(X \cap S)
<1>1. Len(seq) \in 0..Len(seq)
      OBVIOUS
<1>2. KeptUpTo(seq, S) \in [0..Len(seq) -> Seq(X \cap S)]
      BY KeptStep
<1> QED BY <1>1, <1>2 DEF Kept

(* What comes last is kept last, or not at all.                             *)
LEMMA KeptAppend ==
  ASSUME NEW X, NEW seq \in Seq(X), NEW e \in X, NEW S
  PROVE  Kept(Append(seq, e), S) = IF e \in S THEN Append(Kept(seq, S), e) ELSE Kept(seq, S)
<1> DEFINE more == Append(seq, e)
           f == KeptUpTo(seq, S)
           g == KeptUpTo(more, S)
           T == {k \in Nat : k <= Len(seq) => g[k] = f[k]}
<1>1. /\ Len(seq) \in Nat /\ more \in Seq(X) /\ Len(more) = Len(seq) + 1
      /\ \A k \in 1..Len(seq) : more[k] = seq[k]
      /\ more[Len(seq) + 1] = e
      OBVIOUS
<1> HIDE DEF more
<1>2. Filters(f, seq, S) /\ Filters(g, more, S)
      BY <1>1, KeptStep
<1> HIDE DEF f, g
<1>3. 0 \in T
      BY <1>2 DEF Filters
<1>4. ASSUME NEW k \in T PROVE k + 1 \in T
  <2>1. SUFFICES ASSUME k + 1 <= Len(seq) PROVE g[k + 1] = f[k + 1]
        OBVIOUS
  <2>2. k \in Nat /\ k + 1 \in 1..Len(seq) /\ k + 1 \in 1..Len(more) /\ (k + 1) - 1 = k
        BY <2>1, <1>1
  <2>3. g[k] = f[k] /\ more[k + 1] = seq[k + 1]
        BY <2>1, <2>2, <1>1
  <2>4. f[k + 1] = IF seq[k+1] \in S THEN Append(f[k], seq[k+1]) ELSE f[k]
        BY <2>2, <1>2 DEF Filters
  <2>5. g[k + 1] = IF more[k+1] \in S THEN Append(g[k], more[k+1]) ELSE g[k]
        BY <2>2, <1>2 DEF Filters
  <2> QED BY <2>3, <2>4, <2>5
<1>5. T = Nat
  <2>1. T \in SUBSET Nat
        OBVIOUS
  <2> HIDE DEF T
  <2> QED BY <2>1, <1>3, <1>4, NumberInduction
<1>6. g[Len(seq)] = f[Len(seq)]
  <2>1. Len(seq) \in T /\ Len(seq) <= Len(seq)
        BY <1>1, <1>5
  <2> QED BY <2>1
<1>7. g[Len(seq) + 1] = IF e \in S THEN Append(g[Len(seq)], e) ELSE g[Len(seq)]
  <2>1. Len(seq) + 1 \in 1..Len(more) /\ (Len(seq) + 1) - 1 = Len(seq)
        BY <1>1
  <2>2. g[Len(seq) + 1] = IF more[Len(seq) + 1] \in S
                          THEN Append(g[Len(seq) + 1 - 1], more[Len(seq) + 1])
                          ELSE g[Len(seq) + 1 - 1]
        BY <2>1, <1>2 DEF Filters
  <2> QED BY <2>1, <2>2, <1>1
<1>8. Kept(seq, S) = f[Len(seq)] /\ Kept(more, S) = g[Len(seq) + 1]
      BY <1>1 DEF Kept, f, g
<1> QED BY <1>6, <1>7, <1>8 DEF more

LEMMA KeptEmpty == ASSUME NEW S PROVE Kept(<< >>, S) = << >>
<1>1. << >> \in Seq({}) /\ Len(<< >>) = 0
      OBVIOUS
<1>2. Filters(KeptUpTo(<< >>, S), << >>, S)
      BY <1>1, KeptStep
<1> QED BY <1>1, <1>2 DEF Filters, Kept


-----------------------------------------------------------------------------
(* The mqtt client *)

MqttSpec == MqttInit /\ [][MqttNext]_mqttVars

AckRequests == {Ack(c, b) : c \in Commands, b \in BOOLEAN}
Request == AckRequests \cup [kind : {"subscribe"}]
           \cup [kind : {"data"}, from : Publishers, topic : AppTopics]

MqttWorkers == [step : {"loop", "subscribing", "sleeping"}]
               \cup [step : {"handing over"}, command : Commands]
Listeners == [step : {"start", "subscribing", "waiting"}]
             \cup [step : {"acking"}, ack : AckRequests]

(* The listener asks once for its subscription, and waits until the worker  *)
(* has queued it.                                                           *)
SubscribesOnce ==
  /\ workerQueue \in {0, 1}
  /\ workerQueue = 1 \/ mqttWorker.step = "subscribing" => listener.step = "subscribing"
  /\ mqttWorker.step = "subscribing" => workerQueue = 0

MqttTypes ==
  /\ mqttWorker \in MqttWorkers /\ listener \in Listeners
  /\ requests \in Seq(Request) /\ arrived \in Seq(Request)
  /\ commandQueue \in Seq(Commands) /\ received \in Seq(Commands)
  /\ handled \in Seq(AckRequests)

HeldCommand == IF mqttWorker.step = "handing over" THEN <<mqttWorker.command>> ELSE << >>
PendingAck == IF listener.step = "acking" THEN <<listener.ack>> ELSE << >>
HandledCommands == [i \in DOMAIN handled |-> handled[i].command]

MqttInv ==
  /\ MqttTypes /\ SubscribesOnce
  /\ received = HandledCommands \o commandQueue \o HeldCommand
  /\ handled = Acks(arrived \o requests) \o PendingAck

LEMMA AcksAppend ==
  ASSUME NEW queue \in Seq(Request), NEW r \in Request
  PROVE  Acks(Append(queue, r)) = IF r \in AckRequests THEN Append(Acks(queue), r)
                                  ELSE Acks(queue)
  BY KeptAppend DEF Acks, AckRequests

LEMMA AcksType ==
  ASSUME NEW queue \in Seq(Request)
  PROVE  Acks(queue) \in Seq(AckRequests)
<1>1. Acks(queue) \in Seq(Request \cap AckRequests)
      BY KeptType DEF Acks, AckRequests
<1>2. Request \cap AckRequests = AckRequests
      BY DEF Request
<1> QED BY <1>1, <1>2

LEMMA AckFields ==
  /\ \A r \in AckRequests : r.kind = "ack" /\ r.command \in Commands
  /\ \A r : r.kind # "ack" => r \notin AckRequests
  BY DEF AckRequests, Ack

LEMMA OneAtEnd ==
  ASSUME NEW S, NEW s \in Seq(S), NEW e \in S
  PROVE  /\ s \o <<e>> = Append(s, e) /\ s \o << >> = s
         /\ Append(s, e) \in Seq(S) /\ <<e>> \in Seq(S)
  OBVIOUS

LEMMA OneMore ==
  ASSUME NEW S, NEW s \in Seq(S), NEW t \in Seq(S), NEW e \in S
  PROVE  /\ s \o Append(t, e) = Append(s \o t, e)
         /\ s \o t \in Seq(S)
  OBVIOUS

LEMMA HeadMoves ==
  ASSUME NEW S, NEW s \in Seq(S), NEW t \in Seq(S), t # << >>
  PROVE  Append(s, Head(t)) \o Tail(t) = s \o t
<1>1. /\ Head(t) \in S /\ Tail(t) \in Seq(S) /\ Len(Tail(t)) = Len(t) - 1
      /\ \A i \in 1..Len(Tail(t)) : Tail(t)[i] = t[i+1]
      BY HeadTailProperties
<1>2. Head(t) = t[1] /\ Len(t) \in Nat /\ Len(t) >= 1 /\ Len(s) \in Nat
      OBVIOUS
<1> DEFINE u == Append(s, Head(t))
           tail == Tail(t)
<1>3. u \in Seq(S) /\ Len(u) = Len(s) + 1 /\ u[Len(s) + 1] = t[1]
      /\ \A i \in 1..Len(s) : u[i] = s[i]
      BY <1>1, <1>2
<1> HIDE DEF u, tail
<1>4. /\ u \o tail \in Seq(S) /\ Len(u \o tail) = Len(s) + Len(t)
      /\ \A i \in 1..Len(s)+Len(t) :
           (u \o tail)[i] = IF i <= Len(u) THEN u[i] ELSE tail[i - Len(u)]
      BY <1>1, <1>2, <1>3 DEF tail
<1>5. /\ s \o t \in Seq(S) /\ Len(s \o t) = Len(s) + Len(t)
      /\ \A i \in 1..Len(s)+Len(t) :
           (s \o t)[i] = IF i <= Len(s) THEN s[i] ELSE t[i - Len(s)]
      BY <1>2
<1>6. ASSUME NEW i \in 1..Len(s)+Len(t) PROVE (u \o tail)[i] = (s \o t)[i]
  <2>1. CASE i <= Len(s)
    <3>1. i \in 1..Len(s) /\ i <= Len(u)
          BY <2>1, <1>2, <1>3
    <3> QED BY <3>1, <2>1, <1>3, <1>4, <1>5
  <2>2. CASE i = Len(s) + 1
    <3>1. i <= Len(u) /\ ~(i <= Len(s)) /\ i - Len(s) = 1
          BY <2>2, <1>2, <1>3
    <3> QED BY <3>1, <2>2, <1>3, <1>4, <1>5
  <2>3. CASE i > Len(s) + 1
    <3>1. /\ ~(i <= Len(u)) /\ ~(i <= Len(s)) /\ i - Len(u) \in 1..Len(tail)
          /\ (i - Len(u)) + 1 = i - Len(s)
          BY <2>3, <1>1, <1>2, <1>3 DEF tail
    <3> QED BY <3>1, <1>1, <1>4, <1>5 DEF tail
  <2>4. i <= Len(s) \/ i = Len(s) + 1 \/ i > Len(s) + 1
    <3>1. \A k \in Nat, l \in Nat : k <= l \/ k = l + 1 \/ k > l + 1
          OBVIOUS
    <3>2. i \in Nat
          BY <1>2
    <3> QED BY <3>1, <3>2, <1>2
  <2> QED BY <2>1, <2>2, <2>3, <2>4
<1> QED BY <1>4, <1>5, <1>6, SeqEqual DEF u, tail


LEMMA MqttPendingType ==
  ASSUME MqttTypes
  PROVE  /\ HeldCommand \in Seq(Commands) /\ PendingAck \in Seq(AckRequests)
         /\ HandledCommands \in Seq(Commands) /\ arrived \o requests \in Seq(Request)
<1>1. mqttWorker.step = "handing over" => mqttWorker.command \in Commands
      BY DEF MqttTypes, MqttWorkers
<1>2. listener.step = "acking" => listener.ack \in AckRequests
      BY DEF MqttTypes, Listeners
<1>3. handled \in Seq(AckRequests)
      BY DEF MqttTypes
<1>4. \A i \in DOMAIN handled : handled[i].command \in Commands
  <2> TAKE i \in DOMAIN handled
  <2>1. handled[i] \in AckRequests
        BY <1>3
  <2> QED BY <2>1, AckFields
<1>5. HandledCommands \in Seq(Commands)
  <2>1. DOMAIN handled = 1..Len(handled) /\ Len(handled) \in Nat
        BY <1>3
  <2> QED BY <2>1, <1>4 DEF HandledCommands
<1>6. HeldCommand \in Seq(Commands)
  <2>1. CASE mqttWorker.step = "handing over"
    <3>1. \A e \in Commands : <<e>> \in Seq(Commands)
          OBVIOUS
    <3> QED BY <2>1, <3>1, <1>1 DEF HeldCommand
  <2>2. CASE mqttWorker.step # "handing over"
    <3>1. HeldCommand = << >>
          BY <2>2 DEF HeldCommand
    <3> QED BY <3>1
  <2> QED BY <2>1, <2>2
<1>7. PendingAck \in Seq(AckRequests)
  <2>1. CASE listener.step = "acking"
    <3>1. \A e \in AckRequests : <<e>> \in Seq(AckRequests)
          OBVIOUS
    <3> QED BY <2>1, <3>1, <1>2 DEF PendingAck
  <2>2. CASE listener.step # "acking"
    <3>1. PendingAck = << >>
          BY <2>2 DEF PendingAck
    <3> QED BY <3>1
  <2> QED BY <2>1, <2>2
<1> QED BY <1>5, <1>6, <1>7 DEF MqttTypes

LEMMA CommandIsHandled ==
  ASSUME MqttInv, HandleCommand
  PROVE  MqttInv'
<1> PICK form \in Forms, found \in BOOLEAN :
      LET ack == Ack(Head(commandQueue), Allowed(form) /\ found) IN
      /\ listener' = [step |-> "acking", ack |-> ack]
      /\ handled' = Append(handled, ack)
      BY DEF HandleCommand
<1> DEFINE command == Head(commandQueue)
           ack == Ack(command, Allowed(form) /\ found)
<1>0. /\ listener.step = "waiting" /\ commandQueue # << >>
      /\ commandQueue' = Tail(commandQueue)
      /\ UNCHANGED <<mqttWorker, workerQueue, requests, arrived, received>>
      BY DEF HandleCommand
<1>1. MqttTypes /\ SubscribesOnce /\ received = HandledCommands \o commandQueue \o HeldCommand
      /\ handled = Acks(arrived \o requests) \o PendingAck
      BY DEF MqttInv
<1>2. /\ commandQueue \in Seq(Commands) /\ handled \in Seq(AckRequests)
      /\ HeldCommand \in Seq(Commands) /\ HandledCommands \in Seq(Commands)
      /\ arrived \o requests \in Seq(Request)
      BY <1>1, MqttPendingType DEF MqttTypes
<1>3. command \in Commands /\ Tail(commandQueue) \in Seq(Commands)
      BY <1>0, <1>2, HeadTailProperties
<1>4. (Allowed(form) /\ found) \in BOOLEAN
      BY DEF Allowed
<1>5. ack \in AckRequests /\ ack.command = command
  <2> HIDE DEF command
  <2>1. \A b \in BOOLEAN : Ack(command, b) \in AckRequests /\ Ack(command, b).command = command
        BY <1>3 DEF AckRequests, Ack
  <2> QED BY <2>1, <1>4, Zenon
<1>6. listener' = [step |-> "acking", ack |-> ack] /\ handled' = Append(handled, ack)
      OBVIOUS
<1> HIDE DEF ack, command
<1>7. listener' \in Listeners /\ listener'.step = "acking" /\ listener'.ack = ack
      BY <1>5, <1>6 DEF Listeners
<1>8. MqttTypes'
      BY <1>0, <1>1, <1>2, <1>3, <1>5, <1>6, <1>7 DEF MqttTypes
<1>9. SubscribesOnce'
      BY <1>0, <1>1 DEF SubscribesOnce
<1>10. HandledCommands' = Append(HandledCommands, command)
  <2>1. /\ Len(handled) \in Nat /\ DOMAIN handled = 1..Len(handled)
        /\ Len(handled') = Len(handled) + 1 /\ DOMAIN handled' = 1..Len(handled)+1
        /\ handled'[Len(handled)+1] = ack
        /\ \A i \in 1..Len(handled) : handled'[i] = handled[i]
        BY <1>2, <1>5, <1>6
  <2>2. HandledCommands = [i \in 1..Len(handled) |-> handled[i].command]
        BY <2>1 DEF HandledCommands
  <2>3. HandledCommands' = [i \in 1..Len(handled)+1 |-> handled'[i].command]
        BY <2>1 DEF HandledCommands
  <2>4. Len(HandledCommands) = Len(handled)
        BY <2>1, <2>2
  <2>5. HandledCommands' \in Seq(Commands) /\ Len(HandledCommands') = Len(handled) + 1
    <3>1. handled' \in Seq(AckRequests)
          BY <1>2, <1>5, <1>6
    <3>2. ASSUME NEW i \in 1..Len(handled)+1 PROVE handled'[i].command \in Commands
      <4>1. handled'[i] \in AckRequests
            BY <2>1, <3>1
      <4> QED BY <4>1, AckFields
    <3>3. Len(handled) + 1 \in Nat
          BY <2>1
    <3> QED BY <2>1, <2>3, <3>2, <3>3
  <2> DEFINE more == Append(HandledCommands, command)
  <2>6. more \in Seq(Commands) /\ Len(more) = Len(handled) + 1
        /\ more[Len(handled)+1] = command
        /\ \A i \in 1..Len(handled) : more[i] = HandledCommands[i]
        BY <1>2, <1>3, <2>4
  <2> HIDE DEF more
  <2>7. ASSUME NEW i \in 1..Len(handled)+1 PROVE HandledCommands'[i] = more[i]
    <3>1. CASE i = Len(handled) + 1
          BY <3>1, <2>1, <2>3, <2>6, <1>5
    <3>2. CASE i # Len(handled) + 1
      <4>1. i \in 1..Len(handled)
            BY <3>2, <2>1
      <4> QED BY <4>1, <2>1, <2>2, <2>3, <2>6
    <3> QED BY <3>1, <3>2
  <2>8. HandledCommands' = more
        BY <2>5, <2>6, <2>7, SeqEqual
  <2> QED BY <2>8 DEF more
<1>11. received' = HandledCommands' \o commandQueue' \o HeldCommand'
  <2>1. HeldCommand' = HeldCommand
        BY <1>0 DEF HeldCommand
  <2>2. Append(HandledCommands, command) \o Tail(commandQueue) = HandledCommands \o commandQueue
        BY <1>0, <1>2, HeadMoves DEF command
  <2> QED BY <2>1, <2>2, <1>0, <1>1, <1>10
<1>12. handled' = Acks(arrived' \o requests') \o PendingAck'
  <2>1. PendingAck' = <<ack>>
        BY <1>7 DEF PendingAck
  <2>2. PendingAck = << >>
        BY <1>0 DEF PendingAck
  <2>3. Acks(arrived \o requests) \in Seq(AckRequests)
        BY <1>2, AcksType
  <2>4. handled = Acks(arrived \o requests)
        BY <2>2, <2>3, <1>1
  <2>5. handled \o <<ack>> = Append(handled, ack)
        BY <1>2, <1>5, OneAtEnd
  <2> QED BY <2>1, <2>4, <2>5, <1>0, <1>6
<1> QED BY <1>8, <1>9, <1>11, <1>12 DEF MqttInv

LEMMA AckIsPublished ==
  ASSUME MqttInv, PublishCommandAck
  PROVE  MqttInv'
<1> DEFINE ack == listener.ack
<1>0. /\ listener.step = "acking" /\ requests' = Append(requests, ack)
      /\ listener' = [step |-> "waiting"]
      /\ UNCHANGED <<mqttWorker, workerQueue, commandQueue, arrived, received, handled>>
      BY DEF PublishCommandAck, Put
<1>1. MqttTypes /\ SubscribesOnce /\ received = HandledCommands \o commandQueue \o HeldCommand
      /\ handled = Acks(arrived \o requests) \o PendingAck
      BY DEF MqttInv
<1>2. ack \in AckRequests /\ ack \in Request
      BY <1>0, <1>1 DEF MqttTypes, Listeners, Request
<1>3. requests \in Seq(Request) /\ arrived \in Seq(Request) /\ arrived \o requests \in Seq(Request)
      BY <1>1 DEF MqttTypes
<1>4. listener' \in Listeners /\ listener'.step = "waiting"
      BY <1>0 DEF Listeners
<1>p. PendingAck = <<ack>>
      BY <1>0 DEF PendingAck
<1> HIDE DEF ack
<1>5. requests' \in Seq(Request)
      BY <1>0, <1>2, <1>3
<1>6. MqttTypes'
      BY <1>0, <1>1, <1>4, <1>5 DEF MqttTypes
<1>7. SubscribesOnce'
      BY <1>0, <1>1 DEF SubscribesOnce
<1>8. received' = HandledCommands' \o commandQueue' \o HeldCommand'
      BY <1>0, <1>1 DEF HandledCommands, HeldCommand
<1>9. handled' = Acks(arrived' \o requests') \o PendingAck'
  <2>1. PendingAck' = << >>
        BY <1>4 DEF PendingAck
  <2>2. arrived' \o requests' = Append(arrived \o requests, ack)
        BY <1>0, <1>2, <1>3, OneMore
  <2>3. Acks(arrived \o requests) \in Seq(AckRequests)
        BY <1>3, AcksType
  <2>4. Acks(Append(arrived \o requests, ack)) = Append(Acks(arrived \o requests), ack)
        BY <1>2, <1>3, AcksAppend
  <2>5. handled = Append(Acks(arrived \o requests), ack)
        BY <2>3, <1>1, <1>2, <1>p, OneAtEnd
  <2>6. Append(Acks(arrived \o requests), ack) \in Seq(AckRequests)
        BY <2>3, <1>2
  <2> DEFINE q == Append(Acks(arrived \o requests), ack)
  <2>7. q \o << >> = q
    <3> HIDE DEF q
    <3> QED BY <2>6 DEF q
  <2> QED BY <2>1, <2>2, <2>4, <2>5, <2>7, <1>0
<1> QED BY <1>6, <1>7, <1>8, <1>9 DEF MqttInv

(* A request that is no acknowledgement changes no acknowledgement.         *)
LEMMA RequestIsQueued ==
  ASSUME MqttInv, NEW r \in Request, r.kind # "ack", requests' = Append(requests, r),
         MqttTypes', UNCHANGED arrived
  PROVE  Acks(arrived' \o requests') = Acks(arrived \o requests)
<1>1. requests \in Seq(Request) /\ arrived \in Seq(Request) /\ arrived \o requests \in Seq(Request)
      BY DEF MqttInv, MqttTypes
<1>2. arrived' \o requests' = Append(arrived \o requests, r)
      BY <1>1, OneMore
<1>3. r \notin AckRequests
      BY AckFields
<1> QED BY <1>1, <1>2, <1>3, AcksAppend

LEMMA PollSent ==
  ASSUME MqttInv, PollSends
  PROVE  MqttInv'
<1>0. /\ requests # << >> /\ requests' = Tail(requests)
      /\ arrived' = Append(arrived, Head(requests))
      /\ UNCHANGED <<mqttWorker, workerQueue, commandQueue, listener, received, handled>>
      BY DEF PollSends
<1>1. MqttTypes /\ SubscribesOnce /\ received = HandledCommands \o commandQueue \o HeldCommand
      /\ handled = Acks(arrived \o requests) \o PendingAck
      BY DEF MqttInv
<1>2. requests \in Seq(Request) /\ arrived \in Seq(Request)
      BY <1>1 DEF MqttTypes
<1>3. requests' \in Seq(Request) /\ arrived' \in Seq(Request)
      BY <1>0, <1>2, HeadTailProperties
<1>4. arrived' \o requests' = arrived \o requests
      BY <1>0, <1>2, HeadMoves
<1>5. MqttTypes'
      BY <1>0, <1>1, <1>3 DEF MqttTypes
<1>6. SubscribesOnce'
      BY <1>0, <1>1 DEF SubscribesOnce
<1>7. received' = HandledCommands' \o commandQueue' \o HeldCommand'
      BY <1>0, <1>1 DEF HandledCommands, HeldCommand
<1>8. handled' = Acks(arrived' \o requests') \o PendingAck'
      BY <1>0, <1>1, <1>4 DEF PendingAck
<1> QED BY <1>5, <1>6, <1>7, <1>8 DEF MqttInv

LEMMA CommandArrives ==
  ASSUME MqttInv, NEW c \in Commands, mqttWorker = Loop,
         mqttWorker' = [step |-> "handing over", command |-> c],
         received' = Append(received, c),
         UNCHANGED <<workerQueue, requests, commandQueue, listener, arrived, handled>>
  PROVE  MqttInv'
<1>1. MqttTypes /\ SubscribesOnce /\ received = HandledCommands \o commandQueue \o HeldCommand
      /\ handled = Acks(arrived \o requests) \o PendingAck
      BY DEF MqttInv
<1>2. /\ commandQueue \in Seq(Commands) /\ received \in Seq(Commands)
      /\ HandledCommands \in Seq(Commands)
      BY <1>1, MqttPendingType DEF MqttTypes
<1>3. /\ mqttWorker' \in MqttWorkers /\ mqttWorker'.step = "handing over"
      /\ mqttWorker'.command = c /\ mqttWorker.step = "loop"
      BY DEF MqttWorkers, Loop
<1>4. received' \in Seq(Commands)
  <2>1. Append(received, c) \in Seq(Commands)
        BY <1>2, OneAtEnd
  <2> QED BY <2>1
<1>5. MqttTypes'
      BY <1>1, <1>3, <1>4 DEF MqttTypes
<1>6. SubscribesOnce'
      BY <1>1, <1>3 DEF SubscribesOnce
<1>7. received' = HandledCommands' \o commandQueue' \o HeldCommand'
  <2>1. HeldCommand = << >> /\ HeldCommand' = <<c>> /\ HandledCommands' = HandledCommands
        BY <1>3 DEF HeldCommand, HandledCommands
  <2>2. HandledCommands \o commandQueue \in Seq(Commands)
        BY <1>2, OneMore
  <2> DEFINE q == HandledCommands \o commandQueue
  <2>3. received = q
    <3> HIDE DEF q
    <3>1. q \o << >> = q
      <4>1. q \in Seq(Commands)
            BY <2>2 DEF q
      <4> QED BY <4>1, OneAtEnd
    <3> QED BY <3>1, <2>1, <1>1 DEF q
  <2>4. q \o <<c>> = Append(q, c)
    <3>1. q \in Seq(Commands)
          BY <2>2
    <3> HIDE DEF q
    <3> QED BY <3>1, OneAtEnd
  <2> QED BY <2>1, <2>3, <2>4
<1>8. handled' = Acks(arrived' \o requests') \o PendingAck'
      BY <1>1 DEF PendingAck
<1> QED BY <1>5, <1>6, <1>7, <1>8 DEF MqttInv

LEMMA CommandIsHandedOver ==
  ASSUME MqttInv, HandOver
  PROVE  MqttInv'
<1> DEFINE c == mqttWorker.command
<1>0. /\ mqttWorker.step = "handing over" /\ commandQueue' = Append(commandQueue, c)
      /\ mqttWorker' = Loop
      /\ UNCHANGED <<workerQueue, requests, listener, arrived, received, handled>>
      BY DEF HandOver, HandedOver
<1>1. MqttTypes /\ SubscribesOnce /\ received = HandledCommands \o commandQueue \o HeldCommand
      /\ handled = Acks(arrived \o requests) \o PendingAck
      BY DEF MqttInv
<1>2. /\ commandQueue \in Seq(Commands) /\ HandledCommands \in Seq(Commands)
      /\ c \in Commands
  <2>1. c \in Commands
        BY <1>0, <1>1 DEF MqttTypes, MqttWorkers
  <2> QED BY <2>1, <1>1, MqttPendingType DEF MqttTypes
<1>3. HeldCommand = <<c>>
      BY <1>0 DEF HeldCommand
<1>4. mqttWorker' \in MqttWorkers /\ mqttWorker'.step = "loop"
      BY <1>0 DEF MqttWorkers, Loop
<1> HIDE DEF c
<1>5. commandQueue' \in Seq(Commands)
  <2>1. Append(commandQueue, c) \in Seq(Commands)
        BY <1>2, OneAtEnd
  <2> QED BY <2>1, <1>0
<1>6. MqttTypes'
      BY <1>0, <1>1, <1>4, <1>5 DEF MqttTypes
<1>7. SubscribesOnce'
      BY <1>0, <1>1, <1>4 DEF SubscribesOnce
<1>8. received' = HandledCommands' \o commandQueue' \o HeldCommand'
  <2>1. HeldCommand' = << >> /\ HandledCommands' = HandledCommands
        BY <1>0, <1>4 DEF HeldCommand, HandledCommands
  <2> DEFINE q == HandledCommands \o commandQueue
             r == HandledCommands \o Append(commandQueue, c)
  <2>2. q \in Seq(Commands) /\ r = Append(q, c) /\ r \in Seq(Commands)
        BY <1>2, OneMore
  <2>3. q \o <<c>> = Append(q, c) /\ r \o << >> = r
    <3> HIDE DEF q, r
    <3> QED BY <2>2, <1>2, OneAtEnd
  <2> QED BY <2>1, <2>2, <2>3, <1>0, <1>1, <1>3
<1>9. handled' = Acks(arrived' \o requests') \o PendingAck'
      BY <1>0, <1>1 DEF PendingAck
<1> QED BY <1>6, <1>7, <1>8, <1>9 DEF MqttInv

(* The steps of the worker and the listener that move neither a command nor *)
(* an acknowledgement                                                       *)
LEMMA NothingMoves ==
  ASSUME MqttInv, MqttTypes', SubscribesOnce',
         UNCHANGED <<commandQueue, arrived, received, handled>>,
         mqttWorker.step # "handing over", mqttWorker'.step # "handing over",
         \/ UNCHANGED listener
         \/ listener.step # "acking" /\ listener'.step # "acking",
         \/ UNCHANGED requests
         \/ \E r \in Request : r.kind # "ack" /\ requests' = Append(requests, r)
  PROVE  MqttInv'
<1>1. MqttTypes /\ SubscribesOnce /\ received = HandledCommands \o commandQueue \o HeldCommand
      /\ handled = Acks(arrived \o requests) \o PendingAck
      BY DEF MqttInv
<1>2. HeldCommand' = HeldCommand /\ HandledCommands' = HandledCommands
      BY DEF HeldCommand, HandledCommands
<1>3. PendingAck' = PendingAck
      BY DEF PendingAck
<1>4. Acks(arrived' \o requests') = Acks(arrived \o requests)
      BY RequestIsQueued
<1> QED BY <1>1, <1>2, <1>3, <1>4 DEF MqttInv


LEMMA SubscriptionSteps ==
  ASSUME MqttInv, SubscribeCommands \/ TakeSubscription \/ Subscribe
  PROVE  MqttInv'
<1>1. MqttTypes /\ SubscribesOnce
      BY DEF MqttInv
<1>2. Loop \in MqttWorkers /\ Loop.step = "loop"
      BY DEF MqttWorkers, Loop
<1>3. CASE SubscribeCommands
  <2>1. /\ listener.step = "start" /\ workerQueue' = workerQueue + 1
        /\ listener' = [step |-> "subscribing"]
        /\ UNCHANGED <<mqttWorker, requests, commandQueue, arrived, received, handled>>
        BY <1>3 DEF SubscribeCommands
  <2>2. listener' \in Listeners /\ listener'.step = "subscribing"
        BY <2>1 DEF Listeners
  <2>3. MqttTypes'
        BY <2>1, <2>2, <1>1 DEF MqttTypes
  <2>4. SubscribesOnce' /\ mqttWorker.step # "subscribing"
        BY <2>1, <2>2, <1>1 DEF SubscribesOnce
  <2>5. CASE mqttWorker.step = "handing over"
    <3>1. received = HandledCommands \o commandQueue \o HeldCommand
          /\ handled = Acks(arrived \o requests) \o PendingAck
          BY DEF MqttInv
    <3>2. /\ HandledCommands' = HandledCommands /\ HeldCommand' = HeldCommand
          /\ PendingAck' = PendingAck
          BY <2>1, <2>2 DEF HandledCommands, HeldCommand, PendingAck
    <3> QED BY <3>1, <3>2, <2>1, <2>3, <2>4 DEF MqttInv
  <2>6. CASE mqttWorker.step # "handing over"
        BY <2>1, <2>2, <2>3, <2>4, <2>6, NothingMoves
  <2> QED BY <2>5, <2>6
<1>4. CASE TakeSubscription
  <2>1. /\ mqttWorker = Loop /\ workerQueue > 0 /\ workerQueue' = workerQueue - 1
        /\ mqttWorker' = [step |-> "subscribing"]
        /\ UNCHANGED <<listener, requests, commandQueue, arrived, received, handled>>
        BY <1>4 DEF TakeSubscription
  <2>2. mqttWorker' \in MqttWorkers /\ mqttWorker'.step = "subscribing"
        BY <2>1 DEF MqttWorkers
  <2>3. MqttTypes'
        BY <2>1, <2>2, <1>1 DEF MqttTypes
  <2>4. SubscribesOnce'
    <3>1. workerQueue = 1
          BY <2>1, <1>1 DEF SubscribesOnce
    <3> QED BY <3>1, <2>1, <2>2, <1>1 DEF SubscribesOnce
  <2> QED BY <1>2, <2>1, <2>2, <2>3, <2>4, NothingMoves
<1>5. CASE Subscribe
  <2> DEFINE r == [kind |-> "subscribe"]
  <2>1. /\ mqttWorker.step = "subscribing" /\ requests' = Append(requests, r)
        /\ mqttWorker' = Loop /\ listener' = [step |-> "waiting"]
        /\ UNCHANGED <<workerQueue, commandQueue, arrived, received, handled>>
        BY <1>5 DEF Subscribe, Put
  <2>2. listener' \in Listeners /\ listener'.step = "waiting"
        BY <2>1 DEF Listeners
  <2>3. r \in Request /\ r.kind # "ack"
        BY DEF Request
  <2> HIDE DEF r
  <2>4. requests' \in Seq(Request)
    <3>1. requests \in Seq(Request)
          BY <1>1 DEF MqttTypes
    <3>2. Append(requests, r) \in Seq(Request)
          BY <3>1, <2>3, OneAtEnd
    <3> QED BY <3>2, <2>1
  <2>5. MqttTypes'
        BY <2>1, <2>2, <2>4, <1>1, <1>2 DEF MqttTypes
  <2>6. listener.step = "subscribing" /\ workerQueue = 0
        BY <2>1, <1>1 DEF SubscribesOnce
  <2>7. SubscribesOnce'
        BY <2>1, <2>6, <1>2 DEF SubscribesOnce
  <2> QED BY <1>2, <2>1, <2>2, <2>3, <2>5, <2>6, <2>7, NothingMoves
<1> QED BY <1>3, <1>4, <1>5

LEMMA DataIsPublished ==
  ASSUME MqttInv, NEW p \in Publishers, Publish(p)
  PROVE  MqttInv'
<1> PICK topic \in AppTopics :
      requests' = Append(requests, [kind |-> "data", from |-> p, topic |-> topic])
      BY DEF Publish, Put
<1> DEFINE r == [kind |-> "data", from |-> p, topic |-> topic]
<1>0. /\ requests' = Append(requests, r)
      /\ UNCHANGED <<mqttWorker, workerQueue, commandQueue, listener, arrived, received, handled>>
      BY DEF Publish
<1>1. r \in Request /\ r.kind # "ack"
      BY DEF Request
<1> HIDE DEF r
<1>2. MqttTypes /\ SubscribesOnce /\ received = HandledCommands \o commandQueue \o HeldCommand
      /\ handled = Acks(arrived \o requests) \o PendingAck
      BY DEF MqttInv
<1>3. requests' \in Seq(Request)
  <2>1. requests \in Seq(Request)
        BY <1>2 DEF MqttTypes
  <2>2. Append(requests, r) \in Seq(Request)
        BY <2>1, <1>1, OneAtEnd
  <2> QED BY <2>2, <1>0
<1>4. MqttTypes'
      BY <1>0, <1>2, <1>3 DEF MqttTypes
<1>5. SubscribesOnce'
      BY <1>0, <1>2 DEF SubscribesOnce
<1>6. Acks(arrived' \o requests') = Acks(arrived \o requests)
      BY <1>0, <1>1, <1>4, RequestIsQueued
<1>7. /\ HandledCommands' = HandledCommands /\ HeldCommand' = HeldCommand
      /\ PendingAck' = PendingAck
      BY <1>0 DEF HandledCommands, HeldCommand, PendingAck
<1> QED BY <1>0, <1>2, <1>4, <1>5, <1>6, <1>7 DEF MqttInv

LEMMA MqttInduction ==
  ASSUME MqttInv, [MqttNext]_mqttVars
  PROVE  MqttInv'
<1>0. MqttTypes /\ SubscribesOnce /\ received = HandledCommands \o commandQueue \o HeldCommand
      /\ handled = Acks(arrived \o requests) \o PendingAck
      BY DEF MqttInv
<1>1. CASE UNCHANGED <<mqttWorker, workerQueue, requests, commandQueue, listener,
                       arrived, received, handled>>
  <2>1. MqttTypes' /\ SubscribesOnce'
        BY <1>0, <1>1 DEF MqttTypes, SubscribesOnce
  <2>2. /\ HandledCommands' = HandledCommands /\ HeldCommand' = HeldCommand
        /\ PendingAck' = PendingAck
        BY <1>1 DEF HandledCommands, HeldCommand, PendingAck
  <2> QED BY <1>0, <1>1, <2>1, <2>2 DEF MqttInv
<1>2. CASE UNCHANGED mqttVars
      BY <1>1, <1>2 DEF mqttVars
<1>3. CASE SubscribeCommands \/ TakeSubscription \/ Subscribe
      BY <1>3, SubscriptionSteps
<1>4. CASE HandleCommand
      BY <1>4, CommandIsHandled
<1>5. CASE PublishCommandAck
      BY <1>5, AckIsPublished
<1>6. CASE PollSends
      BY <1>6, PollSent
<1>7. CASE HandOver
      BY <1>7, CommandIsHandedOver
<1>8. CASE PollFails \/ WakeUp
  <2>1. /\ mqttWorker'.step \in {"loop", "sleeping"} /\ mqttWorker' \in MqttWorkers
        /\ mqttWorker.step # "handing over"
        /\ UNCHANGED <<workerQueue, requests, commandQueue, listener, arrived, received, handled>>
    <3>1. ASSUME NEW w, w \in {Loop, [step |-> "sleeping"]}
          PROVE  w.step \in {"loop", "sleeping"} /\ w \in MqttWorkers /\ w.step # "handing over"
      <4>1. w = [step |-> "loop"] \/ w = [step |-> "sleeping"]
            BY <3>1 DEF Loop
      <4>2. w.step \in {"loop", "sleeping"} /\ w \in [step : {"loop", "subscribing", "sleeping"}]
        <5>1. CASE w = [step |-> "loop"]
              BY <5>1
        <5>2. CASE w = [step |-> "sleeping"]
              BY <5>2
        <5> QED BY <4>1, <5>1, <5>2
      <4> QED BY <4>2 DEF MqttWorkers
    <3>2. CASE PollFails
      <4>1. /\ mqttWorker = Loop /\ mqttWorker' = [step |-> "sleeping"]
            /\ UNCHANGED <<workerQueue, requests, commandQueue, listener, arrived, received,
                           handled>>
            BY <3>2 DEF PollFails
      <4> QED BY <4>1, <3>1
    <3>3. CASE WakeUp
      <4>1. /\ mqttWorker.step = "sleeping" /\ mqttWorker' = Loop
            /\ UNCHANGED <<workerQueue, requests, commandQueue, listener, arrived, received,
                           handled>>
            BY <3>3 DEF WakeUp
      <4> QED BY <4>1, <3>1
    <3> QED BY <1>8, <3>2, <3>3
  <2>2. MqttTypes' /\ SubscribesOnce'
        BY <1>0, <2>1 DEF MqttTypes, SubscribesOnce
  <2> QED BY <2>1, <2>2, NothingMoves
<1>9. CASE PollConnects
      BY <1>1, <1>9 DEF PollConnects
<1>10. ASSUME NEW p \in Publishers, Publish(p) PROVE MqttInv'
       BY <1>10, DataIsPublished
<1>11. ASSUME NEW c \in Commands, PollReceives(c) PROVE MqttInv'
  <2>1. CASE UNCHANGED <<received, mqttWorker>>
        BY <1>1, <1>11, <2>1 DEF PollReceives
  <2>2. CASE received' = Append(received, c)
             /\ mqttWorker' = [step |-> "handing over", command |-> c]
        BY <1>11, <2>2, CommandArrives DEF PollReceives
  <2> QED BY <1>11, <2>1, <2>2 DEF PollReceives
<1>12. ASSUME NEW c \in Commands, CommandUndelivered(c) PROVE MqttInv'
       BY <1>1, <1>12 DEF CommandUndelivered
<1> QED BY <1>2, <1>3, <1>4, <1>5, <1>6, <1>7, <1>8, <1>9, <1>10, <1>11, <1>12 DEF MqttNext

(* Commands and acknowledgements are all in the channels or past them.       *)
LEMMA MqttInvariant == MqttSpec => []MqttInv
<1>1. MqttInit => MqttInv
  <2>1. SUFFICES ASSUME MqttInit PROVE MqttInv
        OBVIOUS
  <2>2. /\ mqttWorker = Loop /\ workerQueue = 0 /\ listener = [step |-> "start"]
        /\ requests = << >> /\ commandQueue = << >> /\ arrived = << >>
        /\ received = << >> /\ handled = << >>
        BY <2>1 DEF MqttInit
  <2>3. MqttTypes /\ SubscribesOnce
        BY <2>2 DEF MqttTypes, SubscribesOnce, MqttWorkers, Listeners, Loop
  <2>4. HeldCommand = << >> /\ PendingAck = << >> /\ HandledCommands = << >>
        BY <2>2 DEF HeldCommand, PendingAck, HandledCommands, Loop
  <2>5. Acks(<< >> \o << >>) = << >> /\ << >> \o << >> = << >>
    <3>1. << >> \o << >> = << >>
          OBVIOUS
    <3> QED BY <3>1, KeptEmpty DEF Acks
  <2> QED BY <2>2, <2>3, <2>4, <2>5 DEF MqttInv
<1> QED BY <1>1, MqttInduction, PTL DEF MqttSpec

(* Whatever is published meanwhile and however often the connection is      *)
(* lost, with channels of any size: every command that reached the handler  *)
(* is handled once, in order, and acknowledged after that, once and in      *)
(* order.                                                                    *)
THEOREM CommandsAreAlwaysHandled == MqttSpec => []CommandsAreHandled
<1>1. MqttInv => CommandsAreHandled
      BY DEF MqttInv, CommandsAreHandled, HeldCommand, PendingAck, HandledCommands
<1> QED BY <1>1, MqttInvariant, PTL



-----------------------------------------------------------------------------
(* The telemetry profiles *)

(* What differs in a sequence differs in what a filter keeps of it.         *)
LEMMA KeptInjective ==
  ASSUME NEW X, NEW seq \in Seq(X), NEW S,
         \A i, j \in 1..Len(seq) : seq[i] = seq[j] => i = j
  PROVE  \A i, j \in 1..Len(Kept(seq, S)) : Kept(seq, S)[i] = Kept(seq, S)[j] => i = j
<1> DEFINE f == KeptUpTo(seq, S)
           Distinct(s) == \A i, j \in 1..Len(s) : s[i] = s[j] => i = j
           Among(s, k) == \A i \in 1..Len(s) : \E l \in 1..k : s[i] = seq[l]
           T == {k \in Nat : k <= Len(seq) => Distinct(f[k]) /\ Among(f[k], k)}
<1>1. Len(seq) \in Nat /\ \A k \in 1..Len(seq) : seq[k] \in X
      OBVIOUS
<1>2. Filters(f, seq, S) /\ f \in [0..Len(seq) -> Seq(X \cap S)]
      BY KeptStep
<1> HIDE DEF f
<1>3. 0 \in T
  <2>1. f[0] = << >>
        BY <1>2 DEF Filters
  <2>2. Distinct(<< >>) /\ Among(<< >>, 0)
        OBVIOUS
  <2> HIDE DEF Distinct, Among
  <2> QED BY <2>1, <2>2
<1>4. ASSUME NEW k \in T PROVE k + 1 \in T
  <2>1. SUFFICES ASSUME k + 1 <= Len(seq)
                 PROVE  Distinct(f[k+1]) /\ Among(f[k+1], k + 1)
        OBVIOUS
  <2>2. k \in Nat /\ k + 1 \in 1..Len(seq) /\ (k + 1) - 1 = k /\ k \in 0..Len(seq)
        BY <2>1, <1>1
  <2>3. Distinct(f[k]) /\ Among(f[k], k)
        BY <2>1, <2>2
  <2>4. f[k] \in Seq(X) /\ seq[k+1] \in X
    <3>1. f[k] \in Seq(X \cap S)
          BY <2>2, <1>2
    <3> QED BY <3>1, <2>2, <1>1
  <2>5. f[k + 1] = IF seq[k+1] \in S THEN Append(f[k], seq[k+1]) ELSE f[k]
        BY <2>2, <1>2 DEF Filters
  <2> DEFINE t == f[k]
             e == seq[k+1]
  <2>6. \A i \in 1..Len(t) : t[i] # e
    <3> TAKE i \in 1..Len(t)
    <3>1. PICK l \in 1..k : t[i] = seq[l]
          BY <2>3
    <3>2. l \in 1..Len(seq) /\ l # k + 1
          BY <2>2
    <3> QED BY <3>1, <3>2, <2>2
  <2>7. Among(t, k + 1)
    <3> TAKE i \in 1..Len(t)
    <3>1. PICK l \in 1..k : t[i] = seq[l]
          BY <2>3
    <3>2. l \in 1..k+1
          BY <2>2
    <3> QED BY <3>1, <3>2
  <2>8. /\ Len(t) \in Nat /\ Len(Append(t, e)) = Len(t) + 1
        /\ \A i \in 1..Len(t) : Append(t, e)[i] = t[i]
        /\ Append(t, e)[Len(t) + 1] = e
        BY <2>4
  <2>9. Distinct(Append(t, e))
    <3> DEFINE u == Append(t, e)
    <3> HIDE DEF t, e
    <3>1. \A i \in 1..Len(u) : i \in 1..Len(t) \/ i = Len(t) + 1
          BY <2>8
    <3> HIDE DEF u
    <3>2. SUFFICES ASSUME NEW i \in 1..Len(u), NEW j \in 1..Len(u), u[i] = u[j] PROVE i = j
          BY DEF u
    <3>3. CASE i \in 1..Len(t) /\ j \in 1..Len(t)
          BY <3>2, <3>3, <2>8, <2>3 DEF u, t
    <3>4. CASE i \in 1..Len(t) /\ j = Len(t) + 1
          BY <3>2, <3>4, <2>8, <2>6 DEF u
    <3>5. CASE i = Len(t) + 1 /\ j \in 1..Len(t)
          BY <3>2, <3>5, <2>8, <2>6 DEF u
    <3> QED BY <3>1, <3>3, <3>4, <3>5
  <2>10. Among(Append(t, e), k + 1)
    <3> DEFINE u == Append(t, e)
    <3>1. \A i \in 1..Len(u) : i \in 1..Len(t) \/ i = Len(t) + 1
          BY <2>8
    <3> TAKE i \in 1..Len(u)
    <3>2. CASE i \in 1..Len(t)
      <4>1. u[i] = t[i]
            BY <3>2, <2>8
      <4> QED BY <4>1, <3>2, <2>7
    <3>3. CASE i = Len(t) + 1
      <4>1. u[i] = seq[k+1] /\ k + 1 \in 1..k+1
            BY <3>3, <2>8, <2>2
      <4>2. \E l \in 1..k+1 : u[i] = seq[l]
        <5> HIDE DEF u
        <5> QED BY <4>1
      <4> QED BY <4>2
    <3> QED BY <3>1, <3>2, <3>3
  <2> HIDE DEF Distinct, Among
  <2> QED BY <2>3, <2>5, <2>7, <2>9, <2>10
<1>5. T = Nat
  <2>1. T \in SUBSET Nat
        OBVIOUS
  <2> HIDE DEF T
  <2> QED BY <2>1, <1>3, <1>4, NumberInduction
<1>6. Distinct(f[Len(seq)])
  <2>1. Len(seq) \in T /\ Len(seq) <= Len(seq)
        BY <1>1, <1>5
  <2> HIDE DEF Distinct, Among
  <2> QED BY <2>1
<1>7. Kept(seq, S) = f[Len(seq)]
      BY DEF Kept, f
<1> QED BY <1>6, <1>7

(* Where a time lies on a grid of intervals *)
LEMMA GridPosition ==
  ASSUME NEW m \in Nat, m > 0, NEW k \in Nat, NEW t \in Nat
  PROVE  /\ t \div m \in Nat
         /\ t < k * m => t \div m < k
         /\ t >= k * m => t \div m >= k
         /\ t >= k * m => t < (k + ((t - k * m) \div m + 1)) * m
<1>1. \A u \in Nat : u \div m \in Nat /\ (u \div m) * m <= u /\ u < (u \div m) * m + m
      OBVIOUS
<1> DEFINE q == t \div m
<1>2. q \in Nat /\ q * m <= t /\ t < q * m + m
      BY <1>1
<1> HIDE DEF q
<1>3. t < k * m => q < k
      BY <1>2
<1>4. t >= k * m => q >= k
      BY <1>2
<1>5. ASSUME t >= k * m PROVE t < (k + ((t - k * m) \div m + 1)) * m
  <2> DEFINE u == t - k * m
  <2>1. k * m \in Nat
        OBVIOUS
  <2>2. u \in Nat
        BY <1>5, <2>1
  <2> DEFINE j == u \div m
  <2>3. j \in Nat /\ u < j * m + m
        BY <1>1, <2>2
  <2> HIDE DEF j
  <2>4. t < k * m + (j * m + m)
    <3>1. t = k * m + u
          BY <2>1
    <3>2. j * m \in Nat
          BY <2>3
    <3> HIDE DEF u
    <3> QED BY <3>1, <3>2, <2>1, <2>2, <2>3
  <2>5. (k + (j + 1)) * m = k * m + (j * m + m)
        BY <2>3
  <2> QED BY <2>4, <2>5 DEF j, u
<1> QED BY <1>2, <1>3, <1>4, <1>5 DEF q


(* From a time of the grid that has come to the next one that has not: no   *)
(* earlier time before the first lies in the same interval as the present.  *)
LEMMA GridStep ==
  ASSUME NEW start \in Nat, NEW m \in Nat, m > 0, NEW k \in Nat, NEW t \in Nat,
         t >= start + k * m
  PROVE  LET after == AdvanceDueTime(start + k * m, m, t) IN
         /\ \E l \in Nat : after = start + l * m
         /\ after \in Nat /\ t < after
         /\ \A u \in Nat : u >= start /\ u < start + k * m =>
              (u - start) \div m # (t - start) \div m
<1> DEFINE next == start + k * m
           j == (t - next) \div m
<1>1. k * m \in Nat
      OBVIOUS
<1>2. /\ t - start \in Nat /\ t - start >= k * m
      /\ t - next \in Nat /\ (t - start) - k * m = t - next
      BY <1>1
<1>3. j \in Nat /\ (t - start) \div m >= k /\ (t - start) \div m \in Nat
  <2>1. \A u \in Nat : u \div m \in Nat /\ (u >= k * m => u \div m >= k)
        BY GridPosition
  <2> QED BY <2>1, <1>2
<1>4. t - start < (k + (j + 1)) * m
  <2>1. t - start < (k + (((t - start) - k * m) \div m + 1)) * m
    <3>1. \A u \in Nat : u >= k * m => u < (k + ((u - k * m) \div m + 1)) * m
          BY GridPosition
    <3> QED BY <3>1, <1>2
  <2> QED BY <2>1, <1>2
<1>5. AdvanceDueTime(next, m, t) = next + (j + 1) * m
      BY DEF AdvanceDueTime
<1> HIDE DEF j
<1>6. next + (j + 1) * m = start + (k + (j + 1)) * m
  <2>1. (k + (j + 1)) * m = k * m + (j + 1) * m
        BY <1>3
  <2>2. (j + 1) * m \in Nat
        BY <1>3
  <2> QED BY <2>1, <2>2, <1>1
<1>7. k + (j + 1) \in Nat /\ (k + (j + 1)) * m \in Nat
      BY <1>3
<1>8. \A u \in Nat : u >= start /\ u < start + k * m =>
        (u - start) \div m # (t - start) \div m
  <2> SUFFICES ASSUME NEW u \in Nat, u >= start, u < start + k * m
               PROVE  (u - start) \div m # (t - start) \div m
      OBVIOUS
  <2>1. u - start \in Nat /\ u - start < k * m
        BY <1>1
  <2>2. (u - start) \div m \in Nat /\ (u - start) \div m < k
    <3>1. \A v \in Nat : v \div m \in Nat /\ (v < k * m => v \div m < k)
          BY GridPosition
    <3> QED BY <3>1, <2>1
  <2> QED BY <2>2, <1>3
<1>9. t < start + (k + (j + 1)) * m
      BY <1>4, <1>7, <1>2
<1> DEFINE l == k + (j + 1)
           after == AdvanceDueTime(start + k * m, m, t)
<1>10. after = start + l * m /\ l \in Nat /\ l * m \in Nat /\ t < start + l * m
       BY <1>5, <1>6, <1>7, <1>9
<1> HIDE DEF l, after
<1>11. \E n \in Nat : after = start + n * m
       BY <1>10
<1>12. after \in Nat /\ t < after
       BY <1>10
<1> QED BY <1>8, <1>11, <1>12 DEF after

ProfileSpec == ProfileInit /\ [][ProfileNext]_profileVars

RequestLists == {list \in ProfileLists \cup {FirstProfiles} : ValidProfiles(list)}
Profiles == UNION {ToSet(list) : list \in RequestLists}

LEMMA ProfileFields ==
  /\ FirstProfiles \in RequestLists
  /\ \A list \in RequestLists : list \in Seq(Profiles)
  /\ \A list \in RequestLists : \A i, j \in 1..Len(list) : list[i] = list[j] => i = j
  /\ \A p \in Profiles : p.interval \in Nat /\ p.interval > 0
<1>1. FirstProfiles \in RequestLists
      BY TelemetryAssumption DEF RequestLists
<1>2. ASSUME NEW list \in RequestLists
      PROVE  /\ list \in Seq(Profiles)
             /\ \A i, j \in 1..Len(list) : list[i] = list[j] => i = j
             /\ \A p \in ToSet(list) : p.interval \in Nat /\ p.interval > 0
  <2>1. list \in Seq(ToSet(list)) /\ ValidProfiles(list)
        /\ \A i \in DOMAIN list : list[i].interval \in Nat
        BY TelemetryAssumption DEF RequestLists
  <2>2. ToSet(list) \subseteq Profiles
        BY DEF Profiles
  <2>3. list \in Seq(Profiles)
        BY <2>1, <2>2
  <2>4. DOMAIN list = 1..Len(list)
        BY <2>1
  <2>5. \A i, j \in 1..Len(list) : list[i] = list[j] => i = j
        BY <2>1, <2>4 DEF ValidProfiles
  <2>6. \A i \in DOMAIN list : list[i].interval > 0
        BY <2>1 DEF ValidProfiles
  <2> QED BY <2>1, <2>3, <2>5, <2>6 DEF ToSet
<1>3. \A p \in Profiles : \E list \in RequestLists : p \in ToSet(list)
      BY DEF Profiles
<1> QED BY <1>1, <1>2, <1>3

Entries == [profile : Profiles, next : Nat]
OneEach(entries) ==
  \A i, j \in DOMAIN entries : entries[i].profile = entries[j].profile => i = j
ProfilesOf(entries) == [i \in DOMAIN entries |-> entries[i].profile]

(* A scheduler has an entry for each enabled profile, due at once.          *)
LEMMA SchedulerIsBuilt ==
  ASSUME NEW list \in RequestLists, NEW start \in Nat
  PROVE  /\ Scheduled(list, start) \in Seq(Entries) /\ OneEach(Scheduled(list, start))
         /\ ProfilesOf(Scheduled(list, start)) = EnabledProfiles(list)
         /\ \A i \in DOMAIN Scheduled(list, start) : Scheduled(list, start)[i].next = start
<1> DEFINE enabled == EnabledProfiles(list)
           entries == [i \in DOMAIN enabled |-> [profile |-> enabled[i], next |-> start]]
<1>1. list \in Seq(Profiles) /\ \A i, j \in 1..Len(list) : list[i] = list[j] => i = j
      BY ProfileFields
<1>2. enabled \in Seq(Profiles)
  <2> DEFINE S == {p \in ToSet(list) : p.enabled}
  <2>1. Kept(list, S) \in Seq(Profiles \cap S)
        BY <1>1, KeptType
  <2> HIDE DEF S
  <2>2. Kept(list, S) \in Seq(Profiles)
        BY <2>1
  <2> QED BY <2>2 DEF EnabledProfiles, S
<1>3. \A i, j \in 1..Len(enabled) : enabled[i] = enabled[j] => i = j
      BY <1>1, KeptInjective DEF EnabledProfiles
<1>4. Scheduled(list, start) = entries
      BY DEF Scheduled
<1> HIDE DEF enabled
<1>5. DOMAIN enabled = 1..Len(enabled) /\ DOMAIN entries = 1..Len(enabled)
      BY <1>2
<1>6. \A i \in 1..Len(enabled) : entries[i].profile = enabled[i] /\ entries[i].next = start
      BY <1>5
<1>7. entries \in Seq(Entries)
  <2>1. \A i \in 1..Len(enabled) : [profile |-> enabled[i], next |-> start] \in Entries
        BY <1>2 DEF Entries
  <2>2. entries = [i \in 1..Len(enabled) |-> [profile |-> enabled[i], next |-> start]]
        BY <1>5
  <2>3. Len(enabled) \in Nat
        BY <1>2
  <2> HIDE DEF entries, Entries
  <2> QED BY <2>1, <2>2, <2>3
<1>8. enabled = [i \in 1..Len(enabled) |-> enabled[i]]
      BY <1>2
<1> HIDE DEF entries
<1>9. ProfilesOf(entries) = enabled
      BY <1>5, <1>6, <1>8 DEF ProfilesOf
<1>10. OneEach(entries)
       BY <1>3, <1>5, <1>6 DEF OneEach
<1> QED BY <1>4, <1>5, <1>6, <1>7, <1>9, <1>10 DEF enabled


Calls == [step : {NoRequest}] \cup [step : {"persist", "store", "count"}, list : RequestLists]
         \cup [step : {"send"}, list : RequestLists, version : Nat]

ProfileTypes ==
  /\ file \in RequestLists /\ announced.profiles \in RequestLists
  /\ version \in Nat /\ sends \in Nat /\ seen \in Nat /\ seen <= sends
  /\ now \in Nat /\ builtAt \in Nat /\ builtAt <= now
  /\ request \in [ProfileClients -> Calls]

(* The file, the memory and the channel when no request runs, and at each   *)
(* step of one that runs alone                                              *)
ProfilesSettled ==
  /\ inMemory = announced.profiles /\ version = announced.version
  /\ Configured = inMemory \/ file = inMemory

Underway(r) ==
  \/ r.step = "persist" /\ ProfilesSettled
  \/ /\ r.step = "store" /\ file = r.list
     /\ inMemory = announced.profiles /\ version = announced.version
  \/ /\ r.step = "count" /\ file = r.list /\ inMemory = r.list
     /\ version = announced.version
  \/ r.step = "send" /\ file = r.list /\ inMemory = r.list /\ version = r.version

RequestsAreSafe == ~mixed =>
  \/ ProfilesSettled /\ \A c \in ProfileClients : request[c] = None
  \/ \E c \in ProfileClients :
       Underway(request[c]) /\ \A d \in ProfileClients \ {c} : request[d] = None

LEMMA CallFields ==
  /\ None \in Calls /\ None.step = NoRequest
  /\ \A r \in Calls : r.step = "send" => r.list \in RequestLists /\ r.version \in Nat
  /\ \A r \in Calls : r.step \in {"persist", "store", "count"} =>
       r = [step |-> r.step, list |-> r.list] /\ r.list \in RequestLists
  /\ NoRequest \notin {"persist", "store", "count", "send"}
<1>1. None \in Calls /\ None.step = NoRequest
      BY DEF None, Calls
<1>2. NoRequest \notin {"persist", "store", "count", "send"}
      BY TelemetryAssumption
<1>3. ASSUME NEW r \in Calls
      PROVE  /\ r.step = "send" => r.list \in RequestLists /\ r.version \in Nat
             /\ r.step \in {"persist", "store", "count"} =>
                  r = [step |-> r.step, list |-> r.list] /\ r.list \in RequestLists
  <2>1. CASE r \in [step : {NoRequest}]
        BY <1>2, <2>1
  <2>2. CASE r \in [step : {"persist", "store", "count"}, list : RequestLists]
        BY <2>2
  <2>3. CASE r \in [step : {"send"}, list : RequestLists, version : Nat]
        BY <2>3
  <2> QED BY <2>1, <2>2, <2>3 DEF Calls
<1> QED BY <1>1, <1>2, <1>3

(* A request that runs while no other did is the one the others wait for.   *)
LEMMA LoneRequest ==
  ASSUME ProfileTypes, RequestsAreSafe, ~mixed, NEW c \in ProfileClients,
         request[c].step \in {"persist", "store", "count", "send"}
  PROVE  Underway(request[c]) /\ \A d \in ProfileClients \ {c} : request[d] = None
<1>1. request[c] # None
      BY CallFields
<1> QED BY <1>1 DEF RequestsAreSafe

LEMMA RequestStarts ==
  ASSUME ProfileTypes, RequestsAreSafe, NEW c \in ProfileClients, CallReplace(c)
  PROVE  ProfileTypes' /\ RequestsAreSafe'
<1>1. PICK list \in ProfileLists :
        /\ request[c] = None /\ ValidProfiles(list)
        /\ request' = [request EXCEPT ![c] = [step |-> "persist", list |-> list]]
        /\ mixed' = (mixed \/ \E d \in ProfileClients : request[d] # None)
        /\ UNCHANGED <<file, inMemory, version, announced, sends, seen, scheduler, publisher,
                       now, bundles, builtAt>>
      BY DEF CallReplace
<1> DEFINE r == [step |-> "persist", list |-> list]
<1>2. r \in Calls /\ r.step = "persist"
  <2>1. list \in RequestLists
        BY <1>1 DEF RequestLists
  <2> QED BY <2>1 DEF Calls
<1> HIDE DEF r
<1>3. /\ request' = [request EXCEPT ![c] = r]
      /\ UNCHANGED <<file, inMemory, version, announced, sends, seen, now, builtAt>>
      BY <1>1 DEF r
<1>4. ProfileTypes'
  <2>1. request' \in [ProfileClients -> Calls]
        BY <1>2, <1>3 DEF ProfileTypes
  <2> QED BY <2>1, <1>3 DEF ProfileTypes
<1>5. ASSUME ~mixed' PROVE ~mixed /\ \A d \in ProfileClients : request[d] = None
      BY <1>1, <1>5, Zenon
<1>6. RequestsAreSafe'
  <2>1. SUFFICES ASSUME ~mixed'
                 PROVE  \E d \in ProfileClients :
                          /\ Underway(request[d])'
                          /\ \A e \in ProfileClients \ {d} : request'[e] = None
        BY DEF RequestsAreSafe, None
  <2>2. ~mixed /\ \A d \in ProfileClients : request[d] = None
        BY <1>5, <2>1
  <2>3. ProfilesSettled
    <3>1. \A d \in ProfileClients : ~Underway(request[d])
          BY <2>2, CallFields DEF Underway
    <3> QED BY <2>2, <3>1 DEF RequestsAreSafe
  <2>4. ProfilesSettled'
        BY <2>3, <1>3 DEF ProfilesSettled, Configured
  <2>5. request'[c] = r /\ \A e \in ProfileClients \ {c} : request'[e] = None
        BY <1>3, <2>2 DEF ProfileTypes
  <2>6. Underway(request[c])'
        BY <2>4, <2>5, <1>2 DEF Underway
  <2> QED BY <2>5, <2>6
<1> QED BY <1>4, <1>6


(* What a step of a request leaves to prove: its own types, and that it is  *)
(* underway or over when it runs alone.                                     *)
LEMMA RequestMoves ==
  ASSUME ProfileTypes, RequestsAreSafe, NEW c \in ProfileClients, NEW r \in Calls,
         request[c].step \in {"persist", "store", "count", "send"},
         request' = [request EXCEPT ![c] = r], mixed' = mixed,
         file' \in RequestLists, announced'.profiles \in RequestLists, version' \in Nat,
         sends' \in Nat, sends <= sends', UNCHANGED <<seen, now, builtAt>>,
         Underway(request[c]) => IF r = None THEN ProfilesSettled' ELSE Underway(request[c])'
  PROVE  ProfileTypes' /\ RequestsAreSafe'
<1>1. request' \in [ProfileClients -> Calls] /\ request'[c] = r
      /\ \A d \in ProfileClients \ {c} : request'[d] = request[d]
      BY DEF ProfileTypes
<1>2. seen <= sends'
      BY DEF ProfileTypes
<1>3. ProfileTypes'
      BY <1>1, <1>2 DEF ProfileTypes
<1>4. ASSUME ~mixed'
      PROVE  \/ ProfilesSettled' /\ \A d \in ProfileClients : request'[d] = None
             \/ /\ Underway(request[c])'
                /\ \A d \in ProfileClients \ {c} : request'[d] = None
  <2>1. ~mixed
        BY <1>4
  <2>2. Underway(request[c]) /\ \A d \in ProfileClients \ {c} : request[d] = None
        BY <2>1, LoneRequest
  <2>3. \A d \in ProfileClients \ {c} : request'[d] = None
        BY <2>2, <1>1
  <2>4. CASE r = None
        BY <2>2, <2>3, <2>4, <1>1
  <2>5. CASE r # None
        BY <2>2, <2>3, <2>5
  <2> QED BY <2>4, <2>5
<1>5. RequestsAreSafe'
  <2>1. SUFFICES ASSUME ~mixed'
                 PROVE  \/ ProfilesSettled' /\ \A d \in ProfileClients : request'[d] = None
                        \/ \E e \in ProfileClients :
                             /\ Underway(request[e])'
                             /\ \A d \in ProfileClients \ {e} : request'[d] = None
        BY DEF RequestsAreSafe, None
  <2> QED BY <2>1, <1>4
<1> QED BY <1>3, <1>5

LEMMA RequestProceeds ==
  ASSUME ProfileTypes, RequestsAreSafe, NEW c \in ProfileClients,
         PersistProfiles(c) \/ StoreProfiles(c) \/ CountVersion(c) \/ SendProfiles(c)
  PROVE  ProfileTypes' /\ RequestsAreSafe'
<1> DEFINE q == request[c]
<1>0. /\ q \in Calls /\ request \in [ProfileClients -> Calls]
      /\ file \in RequestLists /\ announced.profiles \in RequestLists
      /\ version \in Nat /\ sends \in Nat
      BY DEF ProfileTypes
<1>1. /\ None \in Calls /\ None.step = NoRequest
      /\ NoRequest \notin {"persist", "store", "count", "send"}
      BY CallFields
<1>2. CASE PersistProfiles(c)
  <2>1. /\ q.step = "persist" /\ mixed' = mixed
        /\ UNCHANGED <<inMemory, version, announced, sends, seen, now, builtAt>>
        /\ \/ file' = q.list /\ request' = [request EXCEPT ![c].step = "store"]
           \/ request' = [request EXCEPT ![c] = None] /\ UNCHANGED file
        BY <1>2 DEF PersistProfiles, RequestAt, RequestTo
  <2>2. q = [step |-> "persist", list |-> q.list] /\ q.list \in RequestLists
        BY <2>1, <1>0, CallFields
  <2>3. Underway(q) => ProfilesSettled
        BY <2>1 DEF Underway
  <2>4. CASE file' = q.list /\ request' = [request EXCEPT ![c].step = "store"]
    <3> DEFINE r == [step |-> "store", list |-> q.list]
    <3>1. [q EXCEPT !.step = "store"] = r
          BY <2>2
    <3>2. request' = [request EXCEPT ![c] = r]
          BY <2>4, <3>1
    <3>3. r \in Calls /\ r.step = "store" /\ r.list = q.list
          BY <2>2 DEF Calls
    <3> HIDE DEF r
    <3>4. r # None /\ request'[c] = r
          BY <3>2, <3>3, <1>0, <1>1
    <3>5. Underway(q) => Underway(request[c])'
          BY <2>1, <2>3, <2>4, <3>3, <3>4 DEF Underway, ProfilesSettled
    <3>6. Underway(request[c]) => IF r = None THEN ProfilesSettled' ELSE Underway(request[c])'
          BY <3>4, <3>5
    <3>7. file' \in RequestLists /\ announced'.profiles \in RequestLists /\ version' \in Nat
          /\ sends' \in Nat /\ sends <= sends'
          BY <2>1, <2>2, <2>4, <1>0
    <3>8. request[c].step \in {"persist", "store", "count", "send"}
          BY <2>1
    <3> HIDE DEF q
    <3> QED BY <2>1, <3>2, <3>3, <3>6, <3>7, <3>8, RequestMoves
  <2>5. CASE request' = [request EXCEPT ![c] = None] /\ UNCHANGED file
    <3>1. ProfilesSettled => ProfilesSettled'
          BY <2>1, <2>5 DEF ProfilesSettled, Configured
    <3>2. Underway(request[c]) => IF None = None THEN ProfilesSettled' ELSE Underway(request[c])'
          BY <2>3, <3>1
    <3>3. file' \in RequestLists /\ announced'.profiles \in RequestLists /\ version' \in Nat
          /\ sends' \in Nat /\ sends <= sends'
          BY <2>1, <2>5, <1>0
    <3>4. request[c].step \in {"persist", "store", "count", "send"}
          BY <2>1
    <3> HIDE DEF q
    <3> QED BY <2>1, <2>5, <3>2, <3>3, <3>4, <1>1, RequestMoves
  <2> QED BY <2>1, <2>4, <2>5
<1>3. CASE StoreProfiles(c)
  <2>1. /\ q.step = "store" /\ mixed' = mixed
        /\ inMemory' = q.list /\ request' = [request EXCEPT ![c].step = "count"]
        /\ UNCHANGED <<file, version, announced, sends, seen, now, builtAt>>
        BY <1>3 DEF StoreProfiles, RequestAt, RequestTo
  <2>2. q = [step |-> "store", list |-> q.list] /\ q.list \in RequestLists
        BY <2>1, <1>0, CallFields
  <2>3. Underway(q) => file = q.list /\ version = announced.version
        BY <2>1 DEF Underway
  <2> DEFINE r == [step |-> "count", list |-> q.list]
  <2>4. request' = [request EXCEPT ![c] = r]
    <3>1. [q EXCEPT !.step = "count"] = r
          BY <2>2
    <3> QED BY <2>1, <3>1
  <2>5. r \in Calls /\ r.step = "count" /\ r.list = q.list
        BY <2>2 DEF Calls
  <2> HIDE DEF r
  <2>6. r # None /\ request'[c] = r
        BY <2>4, <2>5, <1>0, <1>1
  <2>7. Underway(q) => Underway(request[c])'
        BY <2>1, <2>3, <2>5, <2>6 DEF Underway
  <2>8. Underway(request[c]) => IF r = None THEN ProfilesSettled' ELSE Underway(request[c])'
        BY <2>6, <2>7
  <2>9. file' \in RequestLists /\ announced'.profiles \in RequestLists /\ version' \in Nat
        /\ sends' \in Nat /\ sends <= sends'
        BY <2>1, <1>0
  <2>10. request[c].step \in {"persist", "store", "count", "send"}
         BY <2>1
  <2> HIDE DEF q
  <2> QED BY <2>1, <2>4, <2>5, <2>8, <2>9, <2>10, RequestMoves
<1>4. CASE CountVersion(c)
  <2>1. /\ q.step = "count" /\ mixed' = mixed
        /\ version' = version + 1
        /\ request' = [request EXCEPT
                         ![c] = [step |-> "send", list |-> q.list, version |-> version + 1]]
        /\ UNCHANGED <<file, inMemory, announced, sends, seen, now, builtAt>>
        BY <1>4, <1>0 DEF CountVersion, RequestAt
  <2>2. q.list \in RequestLists
        BY <2>1, <1>0, CallFields
  <2>3. Underway(q) => file = q.list /\ inMemory = q.list
        BY <2>1 DEF Underway
  <2> DEFINE r == [step |-> "send", list |-> q.list, version |-> version + 1]
  <2>4. request' = [request EXCEPT ![c] = r]
        BY <2>1
  <2>5. r \in Calls /\ r.step = "send" /\ r.list = q.list /\ r.version = version'
        BY <2>1, <2>2, <1>0 DEF Calls
  <2> HIDE DEF r
  <2>6. r # None /\ request'[c] = r
        BY <2>4, <2>5, <1>0, <1>1
  <2>7. Underway(q) => Underway(request[c])'
        BY <2>1, <2>3, <2>5, <2>6 DEF Underway
  <2>8. Underway(request[c]) => IF r = None THEN ProfilesSettled' ELSE Underway(request[c])'
        BY <2>6, <2>7
  <2>9. file' \in RequestLists /\ announced'.profiles \in RequestLists /\ version' \in Nat
        /\ sends' \in Nat /\ sends <= sends'
        BY <2>1, <1>0
  <2>10. request[c].step \in {"persist", "store", "count", "send"}
         BY <2>1
  <2> HIDE DEF q
  <2> QED BY <2>1, <2>4, <2>5, <2>8, <2>9, <2>10, RequestMoves
<1>5. CASE SendProfiles(c)
  <2>1. /\ q.step = "send" /\ mixed' = mixed
        /\ announced' = [version |-> q.version, profiles |-> q.list]
        /\ sends' = sends + 1 /\ request' = [request EXCEPT ![c] = None]
        /\ UNCHANGED <<file, inMemory, version, seen, now, builtAt>>
        BY <1>5 DEF SendProfiles, RequestAt
  <2>2. q.list \in RequestLists
        BY <2>1, <1>0, CallFields
  <2>3. Underway(q) => file = q.list /\ inMemory = q.list /\ version = q.version
        BY <2>1 DEF Underway
  <2>4. announced'.profiles = q.list /\ announced'.version = q.version
        BY <2>1
  <2>5. Underway(q) => ProfilesSettled'
        BY <2>1, <2>3, <2>4 DEF ProfilesSettled
  <2>6. Underway(request[c]) => IF None = None THEN ProfilesSettled' ELSE Underway(request[c])'
        BY <2>5
  <2>7. file' \in RequestLists /\ announced'.profiles \in RequestLists /\ version' \in Nat
        /\ sends' \in Nat /\ sends <= sends'
        BY <2>1, <2>2, <2>4, <1>0
  <2>8. request[c].step \in {"persist", "store", "count", "send"}
        BY <2>1
  <2> HIDE DEF q
  <2> QED BY <2>1, <2>6, <2>7, <2>8, <1>1, RequestMoves
<1> QED BY <1>2, <1>3, <1>4, <1>5


(* The scheduler, what the publisher collects, and the bundles it has made: *)
(* every profile has one entry, on the grid that started when the scheduler *)
(* was built, and each of its bundles came before the entry's next time.    *)
EntriesFit ==
  /\ scheduler \in Seq(Entries) /\ OneEach(scheduler)
  /\ seen = sends => ProfilesOf(scheduler) = EnabledProfiles(announced.profiles)
  /\ \A i \in DOMAIN scheduler :
       \E k \in Nat : scheduler[i].next = builtAt + k * scheduler[i].profile.interval

PublisherFits ==
  /\ publisher = [step |-> publisher.step, due |-> publisher.due, at |-> publisher.at,
                  out |-> publisher.out]
  /\ publisher.step = "collecting" =>
       /\ publisher.at \in Nat /\ publisher.due \subseteq DOMAIN scheduler
       /\ \A i \in publisher.due : scheduler[i].next <= publisher.at

Interval(b) == (b.at - builtAt) \div b.profile.interval

BundlesFit ==
  /\ \A b \in bundles :
       /\ b.at \in Nat /\ b.at >= builtAt /\ b.sections = b.profile.includes
       /\ \E i \in DOMAIN scheduler :
            b.profile = scheduler[i].profile /\ b.at < scheduler[i].next
  /\ \A b, d \in bundles : d # b /\ d.profile = b.profile => Interval(d) # Interval(b)

ProfileInv ==
  /\ ProfileTypes /\ RequestsAreSafe
  /\ EntriesFit /\ PublisherFits /\ BundlesFit

LEMMA SchedulerStays ==
  ASSUME ProfileTypes, EntriesFit, PublisherFits, BundlesFit,
         UNCHANGED <<scheduler, publisher, bundles, builtAt, seen>>,
         \/ UNCHANGED <<sends, announced>>
         \/ sends' = sends + 1
  PROVE  EntriesFit' /\ PublisherFits' /\ BundlesFit'
<1>1. seen' = sends' => /\ seen = sends /\ announced' = announced
      BY DEF ProfileTypes
<1>2. EntriesFit'
      BY <1>1 DEF EntriesFit
<1>3. PublisherFits'
      BY DEF PublisherFits
<1>4. BundlesFit'
      BY DEF BundlesFit, Interval
<1> QED BY <1>2, <1>3, <1>4

(* A new scheduler starts a grid of its own, without bundles.               *)
LEMMA SchedulerStarts ==
  ASSUME NEW list \in RequestLists, builtAt' \in Nat,
         scheduler' = Scheduled(list, builtAt'), bundles' = {}, announced'.profiles = list
  PROVE  EntriesFit' /\ BundlesFit'
<1>1. /\ scheduler' \in Seq(Entries) /\ OneEach(scheduler')
      /\ ProfilesOf(scheduler') = EnabledProfiles(list)
      /\ \A i \in DOMAIN scheduler' : scheduler'[i].next = builtAt'
      BY SchedulerIsBuilt
<1>2. ASSUME NEW i \in DOMAIN scheduler'
      PROVE  \E k \in Nat : scheduler'[i].next = builtAt' + k * scheduler'[i].profile.interval
  <2>1. scheduler'[i] \in Entries
        BY <1>1
  <2>2. scheduler'[i].profile.interval \in Nat
        BY <2>1, ProfileFields DEF Entries
  <2>3. scheduler'[i].next = builtAt' + 0 * scheduler'[i].profile.interval
        BY <2>2, <1>1
  <2> QED BY <2>3
<1>3. EntriesFit'
      BY <1>1, <1>2 DEF EntriesFit
<1>4. BundlesFit'
      BY DEF BundlesFit
<1> QED BY <1>3, <1>4

LEMMA DueIsCollected ==
  ASSUME ProfileInv, CollectDueBundles
  PROVE  EntriesFit' /\ PublisherFits' /\ BundlesFit'
<1> DEFINE due == publisher.due
           t == publisher.at
           Next(i) == IF i \in due
                      THEN AdvanceDueTime(scheduler[i].next, scheduler[i].profile.interval, t)
                      ELSE scheduler[i].next
           Made(i) == [profile |-> scheduler[i].profile, version |-> announced.version, at |-> t,
                      sections |-> Collected(due) \cap scheduler[i].profile.includes]
<1>0. /\ scheduler \in Seq(Entries) /\ OneEach(scheduler) /\ builtAt \in Nat
      /\ \A i \in DOMAIN scheduler :
           \E k \in Nat : scheduler[i].next = builtAt + k * scheduler[i].profile.interval
      BY DEF ProfileInv, EntriesFit, ProfileTypes
<1>1. /\ publisher.step = "collecting" /\ seen' = seen
      /\ scheduler' = [i \in DOMAIN scheduler |->
           IF i \in due THEN [scheduler[i] EXCEPT !.next =
                                AdvanceDueTime(@, scheduler[i].profile.interval, t)]
           ELSE scheduler[i]]
      /\ UNCHANGED <<announced, sends, builtAt>>
      BY DEF CollectDueBundles, ReadVersion
<1>2. bundles' = bundles \cup {Made(i) : i \in due}
  <2>1. \A i \in due : [Bundle(scheduler[i].profile, Collected(due), announced.version)
                          EXCEPT !.at = t] = Made(i)
        BY DEF Bundle
  <2>2. bundles' = bundles \cup
          {[[j \in due |-> Bundle(scheduler[j].profile, Collected(due), announced.version)][i]
              EXCEPT !.at = t] : i \in due}
        BY DEF CollectDueBundles
  <2>3. bundles' = bundles \cup
          {[Bundle(scheduler[i].profile, Collected(due), announced.version)
              EXCEPT !.at = t] : i \in due}
        BY <2>2
  <2> HIDE DEF Made, due, t
  <2> QED BY <2>1, <2>3
<1>3. t \in Nat /\ due \subseteq DOMAIN scheduler /\ \A i \in due : scheduler[i].next <= t
      BY <1>1 DEF ProfileInv, PublisherFits
<1>4. publisher' = [publisher EXCEPT !.step = "publishing", !.out = SetToSeq(due)]
      BY DEF CollectDueBundles
<1> HIDE DEF due, t
<1>5. PublisherFits'
  <2> DEFINE out == SetToSeq(due)
  <2>1. publisher' = [publisher EXCEPT !.step = "publishing", !.out = out]
        BY <1>4
  <2>2. publisher = [step |-> publisher.step, due |-> publisher.due, at |-> publisher.at,
                     out |-> publisher.out]
        BY DEF ProfileInv, PublisherFits
  <2> HIDE DEF out
  <2>3. publisher' = [step |-> "publishing", due |-> publisher.due, at |-> publisher.at,
                      out |-> out]
        BY <2>1, <2>2
  <2> QED BY <2>3 DEF PublisherFits
<1>6. \A i \in DOMAIN scheduler : /\ scheduler[i] \in Entries
                                  /\ scheduler[i].profile \in Profiles /\ scheduler[i].next \in Nat
                                  /\ scheduler[i].profile.interval \in Nat
                                  /\ scheduler[i].profile.interval > 0
  <2>1. \A i \in DOMAIN scheduler : scheduler[i] \in Entries
        BY <1>0
  <2>2. \A w \in Entries : w.profile \in Profiles /\ w.next \in Nat
        BY DEF Entries
  <2> QED BY <2>1, <2>2, ProfileFields
<1>7. \A i \in due :
        /\ Next(i) \in Nat /\ t < Next(i) /\ t >= builtAt
        /\ \E l \in Nat : Next(i) = builtAt + l * scheduler[i].profile.interval
        /\ \A u \in Nat : u >= builtAt /\ u < scheduler[i].next =>
             (u - builtAt) \div scheduler[i].profile.interval
               # (t - builtAt) \div scheduler[i].profile.interval
  <2> TAKE i \in due
  <2> DEFINE m == scheduler[i].profile.interval
  <2>0. i \in DOMAIN scheduler /\ scheduler[i].next <= t /\ scheduler[i].next \in Nat
        /\ m \in Nat /\ m > 0
        BY <1>3, <1>6
  <2>1. PICK k \in Nat : scheduler[i].next = builtAt + k * m
        BY <2>0, <1>0
  <2>2. Next(i) = AdvanceDueTime(builtAt + k * m, m, t)
        BY <2>1
  <2> HIDE DEF m, Next
  <2>3. t >= builtAt + k * m
        BY <2>0, <2>1, <1>3
  <2>4. /\ \E l \in Nat : Next(i) = builtAt + l * m
        /\ Next(i) \in Nat /\ t < Next(i)
        /\ \A u \in Nat : u >= builtAt /\ u < builtAt + k * m =>
             (u - builtAt) \div m # (t - builtAt) \div m
    <3> DEFINE after == AdvanceDueTime(builtAt + k * m, m, t)
    <3>1. m \in Nat /\ m > 0 /\ t \in Nat /\ builtAt \in Nat
          BY <2>0, <1>0, <1>3
    <3>2. /\ \E l \in Nat : after = builtAt + l * m
          /\ after \in Nat /\ t < after
          /\ \A u \in Nat : u >= builtAt /\ u < builtAt + k * m =>
               (u - builtAt) \div m # (t - builtAt) \div m
          BY <3>1, <2>3, GridStep, Zenon
    <3> HIDE DEF after
    <3>3. Next(i) = after
          BY <2>2 DEF after
    <3> QED BY <3>2, <3>3
  <2>5. t >= builtAt
    <3>1. k * m \in Nat
          BY <2>0
    <3> QED BY <3>1, <2>3, <1>0, <1>3
  <2> QED BY <2>1, <2>4, <2>5 DEF m
<1>8. /\ scheduler' = [i \in DOMAIN scheduler |->
                         [profile |-> scheduler[i].profile, next |-> Next(i)]]
      /\ \A i \in DOMAIN scheduler : Next(i) \in Nat
  <2>1. ASSUME NEW i \in DOMAIN scheduler
        PROVE  /\ (IF i \in due THEN [scheduler[i] EXCEPT !.next =
                                AdvanceDueTime(@, scheduler[i].profile.interval, t)]
                   ELSE scheduler[i])
                  = [profile |-> scheduler[i].profile, next |-> Next(i)]
               /\ Next(i) \in Nat
    <3>1. scheduler[i] = [profile |-> scheduler[i].profile, next |-> scheduler[i].next]
          BY <1>6 DEF Entries
    <3>2. scheduler[i].next \in Nat
          BY <1>6
    <3>3. CASE i \in due
      <4> DEFINE after == AdvanceDueTime(scheduler[i].next, scheduler[i].profile.interval, t)
      <4>1. Next(i) = after /\ Next(i) \in Nat
            BY <3>3, <1>7
      <4> HIDE DEF after, Next
      <4>2. [scheduler[i] EXCEPT !.next = after]
              = [profile |-> scheduler[i].profile, next |-> after]
            BY <3>1
      <4> QED BY <4>1, <4>2, <3>3 DEF after
    <3>4. CASE i \notin due
          BY <3>1, <3>2, <3>4
    <3> QED BY <3>3, <3>4
  <2> HIDE DEF Next
  <2> QED BY <2>1, <1>1
<1>9. /\ DOMAIN scheduler' = DOMAIN scheduler
      /\ \A i \in DOMAIN scheduler : /\ scheduler'[i].profile = scheduler[i].profile
                                     /\ scheduler'[i].next = Next(i)
  <2> HIDE DEF Next
  <2> QED BY <1>8
<1>10. EntriesFit'
  <2>1. scheduler' \in Seq(Entries)
    <3>1. \A i \in DOMAIN scheduler : [profile |-> scheduler[i].profile, next |-> Next(i)] \in Entries
          BY <1>6, <1>8 DEF Entries
    <3>2. DOMAIN scheduler = 1..Len(scheduler) /\ Len(scheduler) \in Nat
          BY <1>0
    <3> DEFINE E(i) == [profile |-> scheduler[i].profile, next |-> Next(i)]
    <3>3. scheduler' = [i \in 1..Len(scheduler) |-> E(i)]
          BY <1>8, <3>2
    <3>4. \A i \in 1..Len(scheduler) : E(i) \in Entries
          BY <3>1, <3>2
    <3> HIDE DEF E
    <3> QED BY <3>2, <3>3, <3>4
  <2>2. OneEach(scheduler')
        BY <1>0, <1>9 DEF OneEach
  <2>3. ProfilesOf(scheduler') = ProfilesOf(scheduler)
        BY <1>9 DEF ProfilesOf
  <2>4. seen' = sends' => ProfilesOf(scheduler') = EnabledProfiles(announced'.profiles)
        BY <2>3, <1>1 DEF ProfileInv, EntriesFit
  <2>5. \A i \in DOMAIN scheduler' :
          \E l \in Nat : scheduler'[i].next = builtAt' + l * scheduler'[i].profile.interval
    <3> TAKE i \in DOMAIN scheduler'
    <3>1. /\ i \in DOMAIN scheduler /\ scheduler'[i].profile = scheduler[i].profile
          /\ scheduler'[i].next = Next(i) /\ builtAt' = builtAt
          BY <1>1, <1>9
    <3>2. \E l \in Nat : Next(i) = builtAt + l * scheduler[i].profile.interval
      <4>1. CASE i \in due
            BY <4>1, <1>7
      <4>2. CASE i \notin due
            BY <4>2, <3>1, <1>0
      <4> QED BY <4>1, <4>2
    <3> HIDE DEF Next
    <3> QED BY <3>1, <3>2
  <2> QED BY <2>1, <2>2, <2>4, <2>5 DEF EntriesFit
<1>11. \A i \in due : /\ Made(i).profile = scheduler[i].profile /\ Made(i).at = t
                       /\ Made(i).sections = scheduler[i].profile.includes
  <2> TAKE i \in due
  <2>1. Collected(due) \cap scheduler[i].profile.includes = scheduler[i].profile.includes
        BY DEF Collected
  <2> QED BY <2>1
<1>12. ASSUME NEW i \in due, NEW b \in bundles, b.profile = scheduler[i].profile
       PROVE  /\ Interval(b) # (t - builtAt) \div scheduler[i].profile.interval
  <2>1. b.at \in Nat /\ b.at >= builtAt
        BY DEF ProfileInv, BundlesFit
  <2>2. PICK j \in DOMAIN scheduler : b.profile = scheduler[j].profile /\ b.at < scheduler[j].next
        BY DEF ProfileInv, BundlesFit
  <2>3. j = i
        BY <2>2, <1>0, <1>3, <1>12 DEF OneEach
  <2>4. b.at < scheduler[i].next
        BY <2>2, <2>3
  <2>5. (b.at - builtAt) \div scheduler[i].profile.interval
          # (t - builtAt) \div scheduler[i].profile.interval
        BY <2>1, <2>4, <1>7
  <2> QED BY <2>5, <1>12 DEF Interval
<1> HIDE DEF Made, Next
<1>13. ASSUME NEW i \in due, NEW b, b = Made(i)
       PROVE  Interval(b) = (t - builtAt) \div scheduler[i].profile.interval
       BY <1>13, <1>11 DEF Interval
<1>14. /\ \A b \in bundles' : b \in bundles \/ \E i \in due : b = Made(i)
       /\ builtAt' = builtAt
       BY <1>1, <1>2
<1>15. ASSUME NEW b \in bundles'
       PROVE  /\ b.at \in Nat /\ b.at >= builtAt' /\ b.sections = b.profile.includes
              /\ \E i \in DOMAIN scheduler' :
                   b.profile = scheduler'[i].profile /\ b.at < scheduler'[i].next
  <2>1. CASE b \in bundles
    <3>1. b.at \in Nat /\ b.at >= builtAt' /\ b.sections = b.profile.includes
          BY <2>1, <1>14 DEF ProfileInv, BundlesFit
    <3>2. PICK i \in DOMAIN scheduler : b.profile = scheduler[i].profile /\ b.at < scheduler[i].next
          BY <2>1 DEF ProfileInv, BundlesFit
    <3>3. b.at < Next(i)
      <4>1. CASE i \in due
        <5>1. scheduler[i].next <= t /\ t < Next(i) /\ Next(i) \in Nat
              /\ scheduler[i].next \in Nat
              BY <4>1, <1>3, <1>6, <1>7
        <5> QED BY <5>1, <3>1, <3>2, <1>3
      <4>2. CASE i \notin due
            BY <4>2, <3>2 DEF Next
      <4> QED BY <4>1, <4>2
    <3>4. i \in DOMAIN scheduler' /\ b.profile = scheduler'[i].profile
          /\ b.at < scheduler'[i].next
          BY <3>2, <3>3, <1>9
    <3> QED BY <3>1, <3>4
  <2>2. ASSUME NEW i \in due, b = Made(i)
        PROVE  /\ b.at \in Nat /\ b.at >= builtAt' /\ b.sections = b.profile.includes
               /\ \E j \in DOMAIN scheduler' :
                    b.profile = scheduler'[j].profile /\ b.at < scheduler'[j].next
    <3>1. b.profile = scheduler[i].profile /\ b.at = t
          /\ b.sections = scheduler[i].profile.includes
          BY <2>2, <1>11
    <3>2. t \in Nat /\ t >= builtAt /\ t < Next(i) /\ i \in DOMAIN scheduler
          BY <1>3, <1>7
    <3>3. i \in DOMAIN scheduler' /\ b.profile = scheduler'[i].profile
          /\ b.at < scheduler'[i].next
          BY <3>1, <3>2, <1>9
    <3> QED BY <3>1, <3>2, <3>3, <1>14
  <2> QED BY <2>1, <2>2, <1>14
<1>16. ASSUME NEW b \in bundles', NEW d \in bundles', d # b, d.profile = b.profile
       PROVE  Interval(d)' # Interval(b)'
  <2>1. Interval(d)' = Interval(d) /\ Interval(b)' = Interval(b)
        BY <1>14 DEF Interval
  <2>2. CASE b \in bundles /\ d \in bundles
        BY <2>1, <2>2, <1>16 DEF ProfileInv, BundlesFit
  <2>3. ASSUME NEW i \in due, b = Made(i), d \in bundles PROVE Interval(d) # Interval(b)
    <3>1. b.profile = scheduler[i].profile
          BY <2>3, <1>11
    <3>2. Interval(b) = (t - builtAt) \div scheduler[i].profile.interval
          BY <2>3, <1>13
    <3>3. d.profile = scheduler[i].profile
          BY <3>1, <1>16
    <3> QED BY <2>3, <3>2, <3>3, <1>12
  <2>4. ASSUME NEW i \in due, d = Made(i), b \in bundles PROVE Interval(d) # Interval(b)
    <3>1. d.profile = scheduler[i].profile
          BY <2>4, <1>11
    <3>2. Interval(d) = (t - builtAt) \div scheduler[i].profile.interval
          BY <2>4, <1>13
    <3>3. b.profile = scheduler[i].profile
          BY <3>1, <1>16
    <3> QED BY <2>4, <3>2, <3>3, <1>12
  <2>5. ASSUME NEW i \in due, NEW j \in due, b = Made(i), d = Made(j) PROVE FALSE
    <3>1. b.profile = scheduler[i].profile /\ d.profile = scheduler[j].profile
          BY <2>5, <1>11
    <3>2. i = j
          BY <3>1, <1>0, <1>3, <1>16 DEF OneEach
    <3> QED BY <2>5, <3>2, <1>16
  <2> QED BY <2>1, <2>2, <2>3, <2>4, <2>5, <1>14
<1>17. BundlesFit'
       BY <1>15, <1>16 DEF BundlesFit
<1> QED BY <1>5, <1>10, <1>17


LEMMA ProfileInduction ==
  ASSUME ProfileInv, [ProfileNext]_profileVars
  PROVE  ProfileInv'
<1>0. ProfileTypes /\ RequestsAreSafe /\ EntriesFit /\ PublisherFits /\ BundlesFit
      BY DEF ProfileInv
<1>1. CASE UNCHANGED <<file, inMemory, version, announced, sends, request, mixed>>
           /\ seen' \in Nat /\ seen' <= sends /\ now' \in Nat /\ builtAt' \in Nat
           /\ builtAt' <= now' /\ EntriesFit' /\ PublisherFits' /\ BundlesFit'
  <2>1. ProfileTypes'
        BY <1>0, <1>1 DEF ProfileTypes
  <2>2. RequestsAreSafe'
        BY <1>0, <1>1 DEF RequestsAreSafe, ProfilesSettled, Underway, Configured
  <2> QED BY <1>1, <2>1, <2>2 DEF ProfileInv
<1>2. ASSUME UNCHANGED <<scheduler, publisher, bundles, builtAt, seen, sends, announced>>
      PROVE  EntriesFit' /\ PublisherFits' /\ BundlesFit'
      BY <1>0, <1>2, SchedulerStays
<1>3. seen \in Nat /\ seen <= sends /\ now \in Nat /\ builtAt \in Nat /\ builtAt <= now
      /\ sends \in Nat /\ announced.profiles \in RequestLists
      BY <1>0 DEF ProfileTypes
<1>4. CASE UNCHANGED profileVars
  <2>1. UNCHANGED <<file, inMemory, version, announced, sends, seen, scheduler, publisher,
                    request, now, mixed, bundles, builtAt>>
        BY <1>4 DEF profileVars
  <2> QED BY <2>1, <1>1, <1>2, <1>3
<1>5. CASE TelemetryClock
  <2>1. /\ now' = now + 1
        /\ UNCHANGED <<file, inMemory, version, announced, sends, seen, scheduler, publisher,
                       request, mixed, bundles, builtAt>>
        BY <1>5 DEF TelemetryClock
  <2> QED BY <2>1, <1>1, <1>2, <1>3
<1>6. CASE Rebuild
  <2>1. /\ seen' = sends /\ scheduler' = Scheduled(announced.profiles, now)
        /\ bundles' = {} /\ builtAt' = now /\ publisher.step = "waiting"
        /\ UNCHANGED <<file, inMemory, version, announced, sends, publisher, request, now, mixed>>
        BY <1>6 DEF Rebuild
  <2>2. EntriesFit' /\ BundlesFit'
    <3>1. /\ announced.profiles \in RequestLists /\ builtAt' \in Nat
          /\ scheduler' = Scheduled(announced.profiles, builtAt')
          /\ announced'.profiles = announced.profiles
          BY <2>1, <1>3
    <3> QED BY <3>1, <2>1, SchedulerStarts
  <2>3. PublisherFits'
        BY <2>1, <1>0 DEF PublisherFits
  <2> QED BY <2>1, <2>2, <2>3, <1>1, <1>3
<1>7. CASE StartCollecting
  <2>1. /\ publisher' = [publisher EXCEPT !.step = "collecting", !.due = Due(now), !.at = now]
        /\ UNCHANGED <<file, inMemory, version, announced, sends, seen, scheduler, request,
                       now, mixed, bundles, builtAt>>
        BY <1>7 DEF StartCollecting
  <2>2. EntriesFit' /\ BundlesFit'
    <3>1. EntriesFit'
          BY <2>1, <1>0 DEF EntriesFit
    <3>2. BundlesFit'
          BY <2>1, <1>0 DEF BundlesFit, Interval
    <3> QED BY <3>1, <3>2
  <2>3. PublisherFits'
    <3> DEFINE due == Due(now)
    <3>1. publisher' = [step |-> "collecting", due |-> due, at |-> now, out |-> publisher.out]
      <4>1. publisher = [step |-> publisher.step, due |-> publisher.due, at |-> publisher.at,
                         out |-> publisher.out]
            BY <1>0 DEF PublisherFits
      <4> HIDE DEF due
      <4>2. publisher' = [publisher EXCEPT !.step = "collecting", !.due = due, !.at = now]
            BY <2>1 DEF due
      <4> QED BY <4>1, <4>2
    <3>2. due \subseteq DOMAIN scheduler /\ \A i \in due : scheduler[i].next <= now
          BY DEF Due
    <3> HIDE DEF due
    <3> QED BY <3>1, <3>2, <2>1, <1>3 DEF PublisherFits
  <2> QED BY <2>1, <2>2, <2>3, <1>1, <1>3
<1>8. CASE CollectDueBundles
  <2>1. /\ seen' = seen
        /\ UNCHANGED <<file, inMemory, version, announced, sends, request, now, mixed, builtAt>>
        BY <1>8 DEF CollectDueBundles, ReadVersion
  <2>2. EntriesFit' /\ PublisherFits' /\ BundlesFit'
        BY <1>8, DueIsCollected
  <2> QED BY <2>1, <2>2, <1>1, <1>3
<1>9. CASE PublishBundle
  <2>1. /\ publisher.step = "publishing"
        /\ publisher' = IF publisher.out = << >> THEN Waiting
                        ELSE [publisher EXCEPT !.out = Tail(@)]
        /\ UNCHANGED <<file, inMemory, version, announced, sends, seen, scheduler, request,
                       now, mixed, bundles, builtAt>>
        BY <1>9 DEF PublishBundle
  <2>2. EntriesFit' /\ BundlesFit'
    <3>1. EntriesFit'
          BY <2>1, <1>0 DEF EntriesFit
    <3>2. BundlesFit'
          BY <2>1, <1>0 DEF BundlesFit, Interval
    <3> QED BY <3>1, <3>2
  <2>3. PublisherFits'
    <3>1. CASE publisher' = Waiting
          BY <3>1 DEF PublisherFits, Waiting
    <3>2. CASE publisher' = [publisher EXCEPT !.out = Tail(@)]
      <4> DEFINE rest == Tail(publisher.out)
      <4>1. publisher = [step |-> publisher.step, due |-> publisher.due, at |-> publisher.at,
                         out |-> publisher.out]
            BY <1>0 DEF PublisherFits
      <4>2. publisher' = [publisher EXCEPT !.out = rest]
            BY <3>2
      <4> HIDE DEF rest
      <4>3. publisher' = [step |-> "publishing", due |-> publisher.due, at |-> publisher.at,
                          out |-> rest]
            BY <4>1, <4>2, <2>1
      <4> QED BY <4>3 DEF PublisherFits
    <3> QED BY <3>1, <3>2, <2>1
  <2> QED BY <2>1, <2>2, <2>3, <1>1, <1>3
<1>10. CASE RestartTelemetry
  <2>1. /\ inMemory' = Configured /\ version' = 1
        /\ announced' = [version |-> 1, profiles |-> Configured] /\ sends' = 0 /\ seen' = 0
        /\ scheduler' = Scheduled(Configured, 0) /\ publisher' = Waiting
        /\ now' = 0 /\ bundles' = {} /\ builtAt' = 0
        /\ request' = [c \in ProfileClients |-> None]
        /\ UNCHANGED file
        BY <1>10 DEF RestartTelemetry
  <2>2. Configured \in RequestLists
        BY <1>0, ProfileFields DEF Configured, ProfileTypes
  <2>3. announced'.profiles = Configured /\ announced'.version = 1 /\ Configured' = Configured
        BY <2>1 DEF Configured
  <2>4. EntriesFit' /\ BundlesFit'
    <3>1. builtAt' \in Nat /\ scheduler' = Scheduled(Configured, builtAt')
          BY <2>1
    <3> HIDE DEF Configured
    <3> QED BY <3>1, <2>1, <2>2, <2>3, SchedulerStarts
  <2>5. PublisherFits'
        BY <2>1 DEF PublisherFits, Waiting
  <2>6. ProfileTypes'
    <3>1. request' \in [ProfileClients -> Calls]
          BY <2>1, CallFields
    <3> QED BY <3>1, <2>1, <2>2, <2>3, <1>0 DEF ProfileTypes
  <2>7. RequestsAreSafe'
    <3>1. ProfilesSettled'
          BY <2>1, <2>3 DEF ProfilesSettled
    <3>2. \A c \in ProfileClients : request'[c] = None
          BY <2>1
    <3> QED BY <3>1, <3>2 DEF RequestsAreSafe, None
  <2> QED BY <2>4, <2>5, <2>6, <2>7 DEF ProfileInv
<1>11. ASSUME NEW c \in ProfileClients, CallReplace(c) PROVE ProfileInv'
  <2>1. ProfileTypes' /\ RequestsAreSafe'
        BY <1>0, <1>11, RequestStarts
  <2>2. UNCHANGED <<scheduler, publisher, bundles, builtAt, seen, sends, announced>>
        BY <1>11 DEF CallReplace
  <2> QED BY <2>1, <2>2, <1>2 DEF ProfileInv
<1>12. ASSUME NEW c \in ProfileClients,
              PersistProfiles(c) \/ StoreProfiles(c) \/ CountVersion(c) \/ SendProfiles(c)
       PROVE  ProfileInv'
  <2>1. ProfileTypes' /\ RequestsAreSafe'
        BY <1>0, <1>12, RequestProceeds
  <2>2. /\ UNCHANGED <<scheduler, publisher, bundles, builtAt, seen>>
        /\ UNCHANGED <<sends, announced>> \/ sends' = sends + 1
        BY <1>12 DEF PersistProfiles, StoreProfiles, CountVersion, SendProfiles
  <2> QED BY <2>1, <2>2, <1>0, SchedulerStays DEF ProfileInv
<1> QED BY <1>4, <1>5, <1>6, <1>7, <1>8, <1>9, <1>10, <1>11, <1>12 DEF ProfileNext

(* Requests, the publisher and its bundles fit the announced profiles.       *)
LEMMA ProfileInvariant == ProfileSpec => []ProfileInv
<1>1. ProfileInit => ProfileInv
  <2> SUFFICES ASSUME ProfileInit PROVE ProfileInv
      OBVIOUS
  <2>1. /\ file = FirstProfiles /\ inMemory = Configured /\ version = 1
        /\ announced = [version |-> 1, profiles |-> Configured] /\ sends = 0 /\ seen = 0
        /\ scheduler = Scheduled(Configured, 0) /\ publisher = Waiting
        /\ now = 0 /\ bundles = {} /\ builtAt = 0
        /\ request = [c \in ProfileClients |-> None]
        BY DEF ProfileInit
  <2>2. Configured \in RequestLists /\ file \in RequestLists
        BY <2>1, ProfileFields DEF Configured
  <2>3. announced.profiles = Configured /\ announced.version = 1
        BY <2>1
  <2>4. EntriesFit /\ BundlesFit
    <3> HIDE DEF Configured
    <3>1. /\ scheduler \in Seq(Entries) /\ OneEach(scheduler)
          /\ ProfilesOf(scheduler) = EnabledProfiles(Configured)
          /\ \A i \in DOMAIN scheduler : scheduler[i].next = 0
          BY <2>1, <2>2, SchedulerIsBuilt
    <3>2. ASSUME NEW i \in DOMAIN scheduler
          PROVE  \E k \in Nat : scheduler[i].next = builtAt + k * scheduler[i].profile.interval
      <4>1. scheduler[i].profile.interval \in Nat
        <5>1. scheduler[i] \in Entries
              BY <3>1
        <5> QED BY <5>1, ProfileFields DEF Entries
      <4>2. scheduler[i].next = builtAt + 0 * scheduler[i].profile.interval
            BY <4>1, <3>1, <2>1
      <4> QED BY <4>2
    <3>3. EntriesFit
          BY <3>1, <3>2, <2>3 DEF EntriesFit
    <3>4. BundlesFit
          BY <2>1 DEF BundlesFit
    <3> QED BY <3>3, <3>4
  <2>5. PublisherFits
        BY <2>1 DEF PublisherFits, Waiting
  <2>6. ProfileTypes
    <3>1. request \in [ProfileClients -> Calls]
          BY <2>1, CallFields
    <3> HIDE DEF Configured
    <3> QED BY <3>1, <2>1, <2>2, <2>3 DEF ProfileTypes
  <2>7. RequestsAreSafe
    <3>1. ProfilesSettled
          BY <2>1, <2>3 DEF ProfilesSettled
    <3> QED BY <3>1, <2>1 DEF RequestsAreSafe
  <2> QED BY <2>4, <2>5, <2>6, <2>7 DEF ProfileInv
<1> QED BY <1>1, ProfileInduction, PTL DEF ProfileSpec

(* For any lists of profiles, clients and times: when no request runs and   *)
(* none ran beside another, the file, the memory and the channel agree; a   *)
(* scheduler that is not of the announced profiles is about to be rebuilt;  *)
(* and a profile has at most one bundle in each of its intervals, whole.    *)
THEOREM ProfilesAlwaysTakeEffect == ProfileSpec => []ProfilesTakeEffect
<1>1. ProfileInv => ProfilesTakeEffect
  <2> SUFFICES ASSUME ProfileInv PROVE ProfilesTakeEffect
      OBVIOUS
  <2>1. (~mixed /\ \A c \in ProfileClients : request[c] = None) => ProfilesSettled
    <3>1. \A c \in ProfileClients : request[c] = None => ~Underway(request[c])
          BY CallFields DEF Underway
    <3> QED BY <3>1 DEF ProfileInv, RequestsAreSafe
  <2>2. seen = sends =>
          [i \in DOMAIN scheduler |-> scheduler[i].profile] = EnabledProfiles(announced.profiles)
        BY DEF ProfileInv, EntriesFit, ProfilesOf
  <2>3. \A b \in bundles :
          /\ b.sections = b.profile.includes
          /\ \A d \in bundles \ {b} : d.profile = b.profile =>
               (d.at - builtAt) \div b.profile.interval
                 # (b.at - builtAt) \div b.profile.interval
    <3> TAKE b \in bundles
    <3>1. b.sections = b.profile.includes
          BY DEF ProfileInv, BundlesFit
    <3>2. ASSUME NEW d \in bundles \ {b}, d.profile = b.profile
          PROVE  (d.at - builtAt) \div b.profile.interval
                   # (b.at - builtAt) \div b.profile.interval
      <4>1. Interval(d) # Interval(b)
            BY <3>2 DEF ProfileInv, BundlesFit
      <4> QED BY <4>1, <3>2 DEF Interval
    <3> QED BY <3>1, <3>2
  <2> QED BY <2>1, <2>2, <2>3 DEF ProfilesTakeEffect, ProfilesSettled
<1> QED BY <1>1, ProfileInvariant, PTL


-----------------------------------------------------------------------------
(* The batch plan *)

PlanSpec == PlanInit /\ [][PlanNext]_plan

Joins(f, seqs) == f[0] = << >> /\ \A k \in 1..Len(seqs) : f[k] = f[k-1] \o seqs[k]

(* The recursion of FlattenSeq has a value for every length.                *)
LEMMA FlattenIs ==
  ASSUME NEW X, NEW seqs \in Seq(Seq(X))
  PROVE  \E f \in [0..Len(seqs) -> Seq(X)] :
           Joins(f, seqs) /\ FlattenSeq(seqs) = f[Len(seqs)]
<1> DEFINE Y == Seq(X)
           n == Len(seqs)
           step == [k \in Nat |-> [b \in Y |-> IF k \in 1..n THEN b \o seqs[k] ELSE b]]
           Goal(h) == h = [i \in 1..n |-> IF i = 1 THEN seqs[i] ELSE h[i-1] \o seqs[i]]
<1>1. n \in Nat /\ (\A k \in 1..n : seqs[k] \in Y) /\ << >> \in Y
      OBVIOUS
<1>2. \A s, t \in Y : s \o t \in Y
      OBVIOUS
<1>3. \A s \in Y : << >> \o s = s
      OBVIOUS
<1> HIDE DEF Y, n
<1>4. step \in [Nat -> [Y -> Y]]
      BY <1>1, <1>2
<1>5. \A k \in 1..n, b \in Y : step[k][b] = b \o seqs[k]
  <2> TAKE k \in 1..n, b \in Y
  <2>1. k \in Nat
        BY <1>1
  <2>2. step[k] = [c \in Y |-> IF k \in 1..n THEN c \o seqs[k] ELSE c]
        BY <2>1
  <2> HIDE DEF step
  <2> QED BY <2>2
<1> HIDE DEF step
<1>6. PICK f \in [0..n -> Y] : Recurs(f, << >>, step, n)
      BY <1>1, <1>4, Recursion
<1>7. f[0] = << >> /\ \A k \in 1..n : f[k] = f[k-1] \o seqs[k]
  <2>1. f[0] = << >> /\ \A k \in 1..n : f[k] = step[k][f[k-1]]
        BY <1>6 DEF Recurs
  <2>2. \A k \in 1..n : f[k-1] \in Y
    <3>1. \A k \in 1..n : k - 1 \in 0..n
          BY <1>1
    <3> QED BY <3>1
  <2> QED BY <2>1, <2>2, <1>5
<1>8. Joins(f, seqs)
      BY <1>7 DEF Joins, n
<1>9. CASE n = 0
  <2>1. seqs = << >>
        BY <1>9 DEF n
  <2>2. FlattenSeq(seqs) = << >>
        BY <2>1, <1>9 DEF FlattenSeq, n
  <2> QED BY <2>2, <1>7, <1>8, <1>9 DEF n, Y
<1>10. CASE n # 0
  <2> DEFINE g == [i \in 1..n |-> f[i]]
             h == CHOOSE h : Goal(h)
  <2>1. Goal(g)
    <3>1. ASSUME NEW i \in 1..n
          PROVE  f[i] = IF i = 1 THEN seqs[i] ELSE g[i-1] \o seqs[i]
      <4>1. CASE i = 1
        <5>1. f[1] = << >> \o seqs[1] /\ seqs[1] \in Y
          <6>1. 1 \in 1..n /\ 1 - 1 = 0
                BY <1>1, <4>1
          <6>2. f[1] = f[1-1] \o seqs[1]
                BY <6>1, <1>7
          <6> QED BY <6>1, <6>2, <1>1, <1>7
        <5> QED BY <5>1, <4>1, <1>3
      <4>2. CASE i # 1
        <5>1. i - 1 \in 1..n
              BY <4>2, <1>1
        <5>2. g[i-1] = f[i-1]
              BY <5>1
        <5> HIDE DEF g
        <5> QED BY <4>2, <5>2, <1>7
      <4> QED BY <4>1, <4>2
    <3> DEFINE E(i) == IF i = 1 THEN seqs[i] ELSE g[i-1] \o seqs[i]
    <3>2. \A i \in 1..n : f[i] = E(i)
          BY <3>1
    <3>3. g = [i \in 1..n |-> f[i]]
          OBVIOUS
    <3> HIDE DEF g, E
    <3>4. g = [i \in 1..n |-> E(i)]
          BY <3>2, <3>3
    <3> QED BY <3>4 DEF E
  <2>2. Goal(h)
    <3> HIDE DEF Goal, g
    <3> QED BY <2>1
  <2>3. FlattenSeq(seqs) = h[n]
        BY <1>10 DEF FlattenSeq, n
  <2> HIDE DEF h, g
  <2>4. \A i \in 1..n : h[i] = IF i = 1 THEN seqs[i] ELSE h[i-1] \o seqs[i]
    <3> DEFINE E(i) == IF i = 1 THEN seqs[i] ELSE h[i-1] \o seqs[i]
    <3>1. h = [i \in 1..n |-> E(i)]
          BY <2>2
    <3> HIDE DEF E, Goal
    <3>2. \A i \in 1..n : h[i] = E(i)
          BY <3>1
    <3> QED BY <3>2 DEF E
  <2> DEFINE T == {k \in Nat : k + 1 <= n => h[k + 1] = f[k + 1]}
  <2>5. 0 \in T
    <3>1. 1 \in 1..n /\ 0 + 1 = 1 /\ 1 - 1 = 0
          BY <1>1, <1>10
    <3>2. h[1] = seqs[1] /\ seqs[1] \in Y
          BY <2>4, <3>1, <1>1
    <3>3. f[1] = << >> \o seqs[1]
          BY <3>1, <1>7
    <3> QED BY <3>1, <3>2, <3>3, <1>3
  <2>6. ASSUME NEW k \in T PROVE k + 1 \in T
    <3>1. SUFFICES ASSUME (k + 1) + 1 <= n PROVE h[(k + 1) + 1] = f[(k + 1) + 1]
          OBVIOUS
    <3> DEFINE i == (k + 1) + 1
    <3>2. k \in Nat /\ i \in 1..n /\ i # 1 /\ i - 1 = k + 1 /\ k + 1 <= n
          BY <3>1, <1>1
    <3>3. h[k + 1] = f[k + 1]
          BY <3>2
    <3>4. h[i] = h[i-1] \o seqs[i]
          BY <3>2, <2>4
    <3>5. f[i] = f[i-1] \o seqs[i]
          BY <3>2, <1>7
    <3> QED BY <3>2, <3>3, <3>4, <3>5
  <2>7. T = Nat
    <3>1. T \in SUBSET Nat
          OBVIOUS
    <3> HIDE DEF T
    <3> QED BY <3>1, <2>5, <2>6, NumberInduction
  <2>8. h[n] = f[n]
    <3>1. n - 1 \in T /\ (n - 1) + 1 = n
      <4>1. n - 1 \in Nat /\ (n - 1) + 1 = n
            BY <1>1, <1>10
      <4> QED BY <4>1, <2>7
    <3>2. h[(n - 1) + 1] = f[(n - 1) + 1]
      <4>1. (n - 1) + 1 <= n
            BY <3>1, <1>1
      <4> QED BY <3>1, <4>1
    <3> QED BY <3>1, <3>2
  <2> QED BY <2>3, <2>8, <1>8 DEF n, Y
<1> QED BY <1>9, <1>10

(* What is appended comes last.                                             *)
LEMMA FlattenAppend ==
  ASSUME NEW X, NEW seqs \in Seq(Seq(X)), NEW s \in Seq(X)
  PROVE  FlattenSeq(Append(seqs, s)) = FlattenSeq(seqs) \o s
<1> DEFINE n == Len(seqs)
           more == Append(seqs, s)
<1>1. /\ n \in Nat /\ more \in Seq(Seq(X)) /\ Len(more) = n + 1
      /\ (\A k \in 1..n : more[k] = seqs[k]) /\ more[n + 1] = s
      OBVIOUS
<1> HIDE DEF more
<1>2. PICK f \in [0..n -> Seq(X)] : Joins(f, seqs) /\ FlattenSeq(seqs) = f[n]
      BY FlattenIs
<1>3. PICK g \in [0..Len(more) -> Seq(X)] : Joins(g, more) /\ FlattenSeq(more) = g[Len(more)]
      BY <1>1, FlattenIs
<1>4. f[0] = << >> /\ \A k \in 1..n : f[k] = f[k-1] \o seqs[k]
      BY <1>2 DEF Joins
<1>5. g[0] = << >> /\ \A k \in 1..n+1 : g[k] = g[k-1] \o more[k]
      BY <1>3, <1>1 DEF Joins
<1> HIDE DEF n
<1> DEFINE T == {k \in Nat : k <= n => g[k] = f[k]}
<1>6. 0 \in T
      BY <1>4, <1>5
<1>7. ASSUME NEW k \in T PROVE k + 1 \in T
  <2>1. SUFFICES ASSUME k + 1 <= n PROVE g[k + 1] = f[k + 1]
        OBVIOUS
  <2>2. k \in Nat /\ k + 1 \in 1..n /\ k + 1 \in 1..n+1 /\ (k + 1) - 1 = k /\ k <= n
        BY <2>1, <1>1
  <2>3. g[k] = f[k]
        BY <2>2
  <2>4. g[k + 1] = g[k] \o more[k + 1] /\ f[k + 1] = f[k] \o seqs[k + 1]
        BY <2>2, <1>4, <1>5
  <2> QED BY <2>2, <2>3, <2>4, <1>1
<1>8. T = Nat
  <2>1. T \in SUBSET Nat
        OBVIOUS
  <2> HIDE DEF T
  <2> QED BY <2>1, <1>6, <1>7, NumberInduction
<1>9. g[n] = f[n]
  <2>1. n \in T /\ n <= n
    <3> HIDE DEF T
    <3> QED BY <1>1, <1>8
  <2> QED BY <2>1
<1>10. g[n + 1] = g[n] \o s
  <2>1. n + 1 \in 1..n+1 /\ (n + 1) - 1 = n
        BY <1>1
  <2> QED BY <2>1, <1>1, <1>5
<1> QED BY <1>1, <1>2, <1>3, <1>9, <1>10 DEF more


UpTo(k) == [i \in 1..k |-> i]

LEMMA OneMoreItem ==
  ASSUME NEW k \in Nat
  PROVE  /\ UpTo(k) \in Seq(Nat) /\ Len(UpTo(k)) = k
         /\ UpTo(k) \o <<k + 1>> = UpTo(k + 1)
<1>1. UpTo(k) \in Seq(Nat) /\ Len(UpTo(k)) = k /\ \A i \in 1..k : UpTo(k)[i] = i
      BY DEF UpTo
<1>2. UpTo(k + 1) \in Seq(Nat) /\ Len(UpTo(k + 1)) = k + 1
      /\ \A i \in 1..k+1 : UpTo(k + 1)[i] = i
      BY DEF UpTo
<1> DEFINE s == UpTo(k) \o <<k + 1>>
<1>3. s \in Seq(Nat) /\ Len(s) = k + 1 /\ (\A i \in 1..k : s[i] = i) /\ s[k + 1] = k + 1
      BY <1>1
<1> HIDE DEF s
<1>4. \A i \in 1..k+1 : s[i] = UpTo(k + 1)[i]
      BY <1>2, <1>3
<1>5. s = UpTo(k + 1)
      BY <1>2, <1>3, <1>4
<1> QED BY <1>1, <1>5 DEF s

(* What is cut so far: full batches, and one that is not full, which hold   *)
(* the items in order.                                                       *)
Size(size) == Max({1, size})

CutFits(acc, k, size) ==
  /\ acc = [batches |-> acc.batches, batch |-> acc.batch]
  /\ acc.batches \in Seq(Seq(Nat)) /\ acc.batch \in Seq(Nat)
  /\ \A b \in 1..Len(acc.batches) : Len(acc.batches[b]) = Size(size)
  /\ Len(acc.batch) < Size(size)
  /\ FlattenSeq(acc.batches) \o acc.batch = UpTo(k)

LEMMA SizeIs ==
  ASSUME NEW size \in Nat
  PROVE  Size(size) \in Nat /\ Size(size) >= 1 /\ Size(size) >= size
         /\ (Size(size) = 1 \/ Size(size) = size)
<1>1. \E x \in {1, size} : \A y \in {1, size} : x >= y
  <2>1. CASE size >= 1
        BY <2>1
  <2>2. CASE ~(size >= 1)
        BY <2>2
  <2> QED BY <2>1, <2>2
<1>2. Size(size) \in {1, size} /\ \A y \in {1, size} : Size(size) >= y
      BY <1>1 DEF Size, Max
<1> QED BY <1>2

LEMMA PushFits ==
  ASSUME NEW k \in Nat, NEW size \in Nat, NEW acc, CutFits(acc, k, size)
  PROVE  CutFits(Pushed(acc, k + 1, size), k + 1, size)
<1> DEFINE batch == Append(acc.batch, k + 1)
           flat == FlattenSeq(acc.batches)
           after == Pushed(acc, k + 1, size)
           full == Append(acc.batches, batch)
<1>1. /\ acc.batches \in Seq(Seq(Nat)) /\ acc.batch \in Seq(Nat)
      /\ \A b \in 1..Len(acc.batches) : Len(acc.batches[b]) = Size(size)
      /\ Len(acc.batch) < Size(size) /\ flat \o acc.batch = UpTo(k)
      BY DEF CutFits
<1>2. batch \in Seq(Nat) /\ Len(batch) = Len(acc.batch) + 1 /\ Len(acc.batch) \in Nat
      /\ batch = acc.batch \o <<k + 1>>
  <2> DEFINE e == k + 1
             s == acc.batch
  <2>1. e \in Nat /\ s \in Seq(Nat)
        BY <1>1
  <2> HIDE DEF e, s
  <2>2. Append(s, e) \in Seq(Nat) /\ Append(s, e) = s \o <<e>>
        BY <2>1, OneAtEnd
  <2>3. Len(Append(s, e)) = Len(s) + 1 /\ Len(s) \in Nat
        BY <2>1, AppendProperties
  <2> QED BY <2>2, <2>3 DEF e, s
<1>3. Size(size) \in Nat /\ Size(size) >= 1 /\ Size(size) >= size
      /\ (Size(size) = 1 \/ Size(size) = size)
      BY SizeIs
<1>4. flat \in Seq(Nat)
  <2>1. PICK f \in [0..Len(acc.batches) -> Seq(Nat)] : flat = f[Len(acc.batches)]
        BY <1>1, FlattenIs
  <2>2. Len(acc.batches) \in 0..Len(acc.batches)
        BY <1>1
  <2> QED BY <2>1, <2>2
<1> HIDE DEF flat
<1>5. flat \o batch = UpTo(k + 1)
  <2>1. flat \o batch = Append(flat \o acc.batch, k + 1)
    <3> DEFINE items == acc.batch
               item == k + 1
    <3>1. items \in Seq(Nat) /\ item \in Nat
          BY <1>1
    <3> HIDE DEF items, item
    <3>2. flat \o Append(items, item) = Append(flat \o items, item)
          BY <3>1, <1>4, OneMore
    <3> QED BY <3>2 DEF items, item
  <2>2. UpTo(k) \in Seq(Nat) /\ UpTo(k) \o <<k + 1>> = UpTo(k + 1)
        BY OneMoreItem
  <2>3. Append(UpTo(k), k + 1) = UpTo(k) \o <<k + 1>>
    <3> DEFINE items == UpTo(k)
               item == k + 1
    <3>1. items \in Seq(Nat) /\ item \in Nat
          BY <2>2
    <3> HIDE DEF items, item
    <3>2. items \o <<item>> = Append(items, item)
          BY <3>1, OneAtEnd
    <3> QED BY <3>2 DEF items, item
  <2> QED BY <2>1, <2>2, <2>3, <1>1
<1> HIDE DEF batch
<1>6. /\ full \in Seq(Seq(Nat)) /\ Len(full) = Len(acc.batches) + 1
      /\ Len(acc.batches) \in Nat
      /\ (\A b \in 1..Len(acc.batches) : full[b] = acc.batches[b])
      /\ full[Len(acc.batches) + 1] = batch
  <2>1. Len(acc.batches) \in Nat
        BY <1>1
  <2> QED BY <2>1, <1>1, <1>2, AppendProperties
<1>7. FlattenSeq(full) = flat \o batch
      BY <1>1, <1>2, FlattenAppend DEF flat
<1> HIDE DEF full
<1>8. CASE IsFull(batch, size)
  <2>1. after = [batches |-> full, batch |-> << >>]
        BY <1>8 DEF Pushed, full, batch
  <2>2. Len(batch) = Size(size)
        BY <1>1, <1>2, <1>3, <1>8 DEF IsFull
  <2>3. \A b \in 1..Len(full) : Len(full[b]) = Size(size)
    <3> TAKE b \in 1..Len(full)
    <3>1. b \in 1..Len(acc.batches) \/ b = Len(acc.batches) + 1
          BY <1>6
    <3> QED BY <3>1, <2>2, <1>1, <1>6
  <2>4. FlattenSeq(full) \o << >> = UpTo(k + 1)
    <3>1. UpTo(k + 1) \in Seq(Nat)
      <4>1. k + 1 \in Nat
            OBVIOUS
      <4> QED BY <4>1, OneMoreItem
    <3>2. UpTo(k + 1) \o << >> = UpTo(k + 1)
          BY <3>1
    <3> QED BY <3>2, <1>5, <1>7
  <2>5. << >> \in Seq(Nat) /\ Len(<< >>) < Size(size)
        BY <1>3
  <2> HIDE DEF after
  <2>6. after.batches = full /\ after.batch = << >>
        BY <2>1
  <2>7. CutFits(after, k + 1, size)
        BY <2>1, <2>3, <2>4, <2>5, <2>6, <1>6 DEF CutFits
  <2> QED BY <2>7 DEF after
<1>9. CASE ~IsFull(batch, size)
  <2>1. after = [batches |-> acc.batches, batch |-> batch]
        BY <1>9 DEF Pushed, batch
  <2>2. Len(batch) < Size(size)
        BY <1>1, <1>2, <1>3, <1>9 DEF IsFull
  <2> HIDE DEF after
  <2>3. after.batches = acc.batches /\ after.batch = batch
        BY <2>1
  <2>4. CutFits(after, k + 1, size)
        BY <2>1, <2>2, <2>3, <1>1, <1>2, <1>5 DEF CutFits, flat
  <2> QED BY <2>4 DEF after
<1> QED BY <1>8, <1>9


LEMMA CutIs ==
  ASSUME NEW n \in Nat, NEW size \in Nat
  PROVE  CutFits(CutUpTo(n, size)[n], n, size)
<1> DEFINE X == [batches : Seq(Seq(Nat)), batch : Seq(Nat)]
           start == [batches |-> << >>, batch |-> << >>]
           step == [k \in Nat |-> [acc \in X |-> Pushed(acc, k, size)]]
           Goal(h) == h = [i \in 0..n |-> IF i = 0 THEN [batches |-> << >>, batch |-> << >>]
                                          ELSE Pushed(h[i-1], i, size)]
           cut == CutUpTo(n, size)
<1>1. start \in X
      OBVIOUS
<1>2. step \in [Nat -> [X -> X]]
  <2>1. ASSUME NEW k \in Nat, NEW acc \in X PROVE Pushed(acc, k, size) \in X
    <3> DEFINE batch == Append(acc.batch, k)
    <3>1. acc.batches \in Seq(Seq(Nat)) /\ batch \in Seq(Nat)
          OBVIOUS
    <3>2. Pushed(acc, k, size) = IF IsFull(batch, size)
                                 THEN [batches |-> Append(acc.batches, batch), batch |-> << >>]
                                 ELSE [batches |-> acc.batches, batch |-> batch]
          BY DEF Pushed
    <3> HIDE DEF batch
    <3>3. Append(acc.batches, batch) \in Seq(Seq(Nat)) /\ << >> \in Seq(Nat)
          BY <3>1
    <3> QED BY <3>1, <3>2, <3>3
  <2> HIDE DEF X
  <2> QED BY <2>1
<1> HIDE DEF X, start, step
<1>3. PICK f \in [0..n -> X] : Recurs(f, start, step, n)
      BY <1>1, <1>2, Recursion
<1>4. \A k \in 1..n : f[k] = Pushed(f[k-1], k, size)
  <2>1. \A k \in 1..n : f[k] = step[k][f[k-1]] /\ f[k-1] \in X /\ k \in Nat
    <3>1. \A k \in 1..n : k - 1 \in 0..n /\ k \in Nat
          OBVIOUS
    <3> QED BY <3>1, <1>3 DEF Recurs
  <2>2. \A k \in Nat, acc \in X : step[k][acc] = Pushed(acc, k, size)
        BY DEF step
  <2> QED BY <2>1, <2>2
<1>5. f[0] = start
      BY <1>3 DEF Recurs
<1>6. Goal(f)
  <2> DEFINE E(i) == IF i = 0 THEN start ELSE Pushed(f[i-1], i, size)
  <2>1. \A i \in 0..n : f[i] = E(i)
    <3>1. \A i \in 0..n : i # 0 => i \in 1..n
          OBVIOUS
    <3> QED BY <3>1, <1>4, <1>5
  <2>2. f = [i \in 0..n |-> f[i]]
        OBVIOUS
  <2> HIDE DEF E
  <2>3. f = [i \in 0..n |-> E(i)]
        BY <2>1, <2>2
  <2> QED BY <2>3 DEF E, start
<1>7. Goal(cut)
  <2>1. cut = CHOOSE h : Goal(h)
        BY DEF CutUpTo
  <2> HIDE DEF Goal, cut
  <2> QED BY <1>6, <2>1
<1> HIDE DEF cut
<1>8. cut[0] = start /\ \A k \in 1..n : cut[k] = Pushed(cut[k-1], k, size)
  <2> DEFINE E(i) == IF i = 0 THEN start ELSE Pushed(cut[i-1], i, size)
  <2>1. cut = [i \in 0..n |-> E(i)]
        BY <1>7 DEF start
  <2> HIDE DEF E, Goal
  <2>2. \A i \in 0..n : cut[i] = E(i)
        BY <2>1
  <2>3. 0 \in 0..n /\ \A k \in 1..n : k \in 0..n /\ k # 0
        OBVIOUS
  <2> QED BY <2>2, <2>3 DEF E
<1> DEFINE T == {k \in Nat : k <= n => CutFits(cut[k], k, size)}
<1>9. 0 \in T
  <2>1. start.batches = << >> /\ start.batch = << >>
        /\ start = [batches |-> << >>, batch |-> << >>]
        BY DEF start
  <2>2. FlattenSeq(<< >>) \o << >> = UpTo(0)
    <3>1. FlattenSeq(<< >>) = << >> /\ << >> \o << >> = << >>
          BY DEF FlattenSeq
    <3>2. UpTo(0) = << >>
      <4>1. UpTo(0) \in Seq(Nat) /\ Len(UpTo(0)) = 0
            BY OneMoreItem
      <4> QED BY <4>1
    <3> QED BY <3>1, <3>2
  <2>3. Size(size) \in Nat /\ Size(size) >= 1
        BY SizeIs
  <2>4. << >> \in Seq(Seq(Nat)) /\ << >> \in Seq(Nat) /\ Len(<< >>) = 0
        OBVIOUS
  <2>5. CutFits(start, 0, size)
        BY <2>1, <2>2, <2>3, <2>4 DEF CutFits
  <2> QED BY <2>5, <1>8
<1>10. ASSUME NEW k \in T PROVE k + 1 \in T
  <2>1. SUFFICES ASSUME k + 1 <= n PROVE CutFits(cut[k + 1], k + 1, size)
        OBVIOUS
  <2>2. k \in Nat /\ k + 1 \in 1..n /\ (k + 1) - 1 = k /\ k <= n
        BY <2>1
  <2>3. CutFits(cut[k], k, size)
        BY <2>2
  <2>4. cut[k + 1] = Pushed(cut[k], k + 1, size)
        BY <2>2, <1>8
  <2>5. CutFits(Pushed(cut[k], k + 1, size), k + 1, size)
        BY <2>2, <2>3, PushFits
  <2> QED BY <2>4, <2>5
<1>11. T = Nat
  <2>1. T \in SUBSET Nat
        OBVIOUS
  <2> HIDE DEF T
  <2> QED BY <2>1, <1>9, <1>10, NumberInduction
<1>12. CutFits(cut[n], n, size)
  <2>1. n \in T /\ n <= n
    <3> HIDE DEF T
    <3> QED BY <1>11
  <2> QED BY <2>1
<1> QED BY <1>12 DEF cut

(* What PlanIsExact says of an order                                        *)
Exact(order, n, size) ==
  /\ FlattenSeq(order) = UpTo(n)
  /\ \A b \in DOMAIN order : /\ Len(order[b]) <= size
                             /\ b < Len(order) => Len(order[b]) = size

LEMMA CutIsExact ==
  ASSUME NEW n \in Nat, NEW size \in Nat
  PROVE  /\ Exact(Cut(n, size), n, Size(size))
         /\ \A b \in DOMAIN Cut(n, size) : Cut(n, size)[b] # << >>
<1> DEFINE last == CutUpTo(n, size)[n]
           order == Cut(n, size)
           full == Append(last.batches, last.batch)
<1>1. CutFits(last, n, size)
      BY CutIs
<1>2. order = IF last.batch = << >> THEN last.batches ELSE full
      BY DEF Cut
<1> HIDE DEF last, order
<1>3. /\ last.batches \in Seq(Seq(Nat)) /\ last.batch \in Seq(Nat)
      /\ \A b \in 1..Len(last.batches) : Len(last.batches[b]) = Size(size)
      /\ Len(last.batch) < Size(size)
      /\ FlattenSeq(last.batches) \o last.batch = UpTo(n)
      BY <1>1 DEF CutFits
<1>4. Size(size) \in Nat /\ Size(size) >= 1
      BY SizeIs
<1>5. Len(<< >>) = 0
      OBVIOUS
<1>6. CASE last.batch = << >>
  <2>1. order = last.batches
        BY <1>2, <1>6
  <2>2. FlattenSeq(order) = UpTo(n)
    <3>1. PICK f \in [0..Len(order) -> Seq(Nat)] : FlattenSeq(order) = f[Len(order)]
          BY <2>1, <1>3, FlattenIs
    <3>2. FlattenSeq(order) \in Seq(Nat)
      <4>1. Len(order) \in 0..Len(order)
            BY <2>1, <1>3
      <4> QED BY <3>1, <4>1
    <3> DEFINE flat == FlattenSeq(order)
    <3>3. flat \o << >> = UpTo(n)
          BY <2>1, <1>3, <1>6
    <3> HIDE DEF flat
    <3>4. flat \o << >> = flat
          BY <3>2 DEF flat
    <3> QED BY <3>3, <3>4 DEF flat
  <2>3. \A b \in DOMAIN order : Len(order[b]) = Size(size) /\ order[b] # << >>
    <3>1. DOMAIN order = 1..Len(order)
          BY <2>1, <1>3
    <3>2. \A b \in DOMAIN order : Len(order[b]) = Size(size)
          BY <3>1, <2>1, <1>3
    <3> QED BY <3>2, <1>4, <1>5
  <2> QED BY <2>2, <2>3, <1>4 DEF Exact, order
<1>7. CASE last.batch # << >>
  <2>1. order = full
        BY <1>2, <1>7
  <2>2. FlattenSeq(full) = FlattenSeq(last.batches) \o last.batch
        BY <1>3, FlattenAppend
  <2>3. /\ full \in Seq(Seq(Nat)) /\ Len(full) = Len(last.batches) + 1
        /\ Len(last.batches) \in Nat
        /\ (\A b \in 1..Len(last.batches) : full[b] = last.batches[b])
        /\ full[Len(last.batches) + 1] = last.batch /\ DOMAIN full = 1..Len(full)
        BY <1>3
  <2> HIDE DEF full
  <2>4. \A b \in DOMAIN full : /\ Len(full[b]) <= Size(size) /\ full[b] # << >>
                               /\ b < Len(full) => Len(full[b]) = Size(size)
    <3> TAKE b \in DOMAIN full
    <3>1. b \in 1..Len(last.batches) \/ b = Len(last.batches) + 1
          BY <2>3
    <3>2. CASE b \in 1..Len(last.batches)
      <4>1. Len(full[b]) = Size(size)
            BY <3>2, <2>3, <1>3
      <4> QED BY <4>1, <1>4, <1>5
    <3>3. CASE b = Len(last.batches) + 1
      <4>1. full[b] = last.batch /\ ~(b < Len(full)) /\ Len(last.batch) \in Nat
            BY <3>3, <2>3, <1>3
      <4> QED BY <4>1, <1>3, <1>4, <1>7
    <3> QED BY <3>1, <3>2, <3>3
  <2> QED BY <2>1, <2>2, <2>4, <1>3 DEF Exact, order
<1> QED BY <1>6, <1>7

LEMMA ParallelIsExact ==
  ASSUME NEW n \in Nat
  PROVE  Exact(<<UpTo(n)>>, n, n)
<1> DEFINE s == UpTo(n)
<1>1. s \in Seq(Nat) /\ Len(s) = n
      BY OneMoreItem
<1> HIDE DEF s
<1>2. << >> \in Seq(Seq(Nat)) /\ Append(<< >>, s) = <<s>> /\ << >> \o s = s
      BY <1>1
<1>3. FlattenSeq(<< >>) = << >>
      BY DEF FlattenSeq
<1>4. FlattenSeq(<<s>>) = s
      BY <1>1, <1>2, <1>3, FlattenAppend
<1>5. \A b \in DOMAIN <<s>> : Len(<<s>>[b]) = n
      BY <1>1
<1>6. Exact(<<s>>, n, n)
      BY <1>4, <1>5 DEF Exact, s
<1> QED BY <1>6 DEF s

Single(i) == <<i>>
Singles(n) == [i \in 1..n |-> Single(i)]

LEMMA OneMoreSingle ==
  ASSUME NEW k \in Nat
  PROVE  /\ Singles(k) \in Seq(Seq(Nat)) /\ Single(k + 1) \in Seq(Nat)
         /\ Singles(k + 1) = Append(Singles(k), Single(k + 1))
<1>1. \A i \in Nat : Single(i) \in Seq(Nat)
      BY DEF Single
<1>2. ASSUME NEW n \in Nat
      PROVE  /\ Singles(n) \in Seq(Seq(Nat)) /\ Len(Singles(n)) = n
             /\ \A i \in 1..n : Singles(n)[i] = Single(i)
      BY <1>1 DEF Singles
<1>3. k + 1 \in Nat
      OBVIOUS
<1> DEFINE few == Singles(k)
           more == Singles(k + 1)
           s == Append(few, Single(k + 1))
<1>4. /\ few \in Seq(Seq(Nat)) /\ Len(few) = k
      /\ \A i \in 1..k : few[i] = Single(i)
      BY <1>2
<1>5. /\ more \in Seq(Seq(Nat)) /\ Len(more) = k + 1
      /\ \A i \in 1..k+1 : more[i] = Single(i)
      BY <1>2, <1>3
<1> HIDE DEF few, more
<1>6. /\ s \in Seq(Seq(Nat)) /\ Len(s) = k + 1
      /\ (\A i \in 1..k : s[i] = few[i]) /\ s[k + 1] = Single(k + 1)
  <2>1. \A e \in Seq(Nat) :
          /\ Append(few, e) \in Seq(Seq(Nat)) /\ Len(Append(few, e)) = Len(few) + 1
          /\ \A i \in 1..Len(few) : Append(few, e)[i] = few[i]
          /\ Append(few, e)[Len(few) + 1] = e
        BY <1>4
  <2>2. Single(k + 1) \in Seq(Nat)
        BY <1>1, <1>3
  <2> QED BY <2>1, <2>2, <1>4
<1> HIDE DEF s
<1>7. \A i \in 1..k+1 : s[i] = more[i]
  <2> TAKE i \in 1..k+1
  <2>1. CASE i \in 1..k
        BY <2>1, <1>4, <1>5, <1>6
  <2>2. CASE i = k + 1
        BY <2>2, <1>5, <1>6
  <2> QED BY <2>1, <2>2
<1>8. more = s
      BY <1>5, <1>6, <1>7
<1> QED BY <1>1, <1>3, <1>4, <1>8 DEF few, more, s

LEMMA SequentialIsExact ==
  ASSUME NEW n \in Nat
  PROVE  /\ Exact(Singles(n), n, 1)
         /\ \A b \in DOMAIN Singles(n) : Singles(n)[b] # << >>
<1> DEFINE T == {k \in Nat : FlattenSeq(Singles(k)) = UpTo(k)}
<1>1. 0 \in T
  <2>1. Singles(0) = << >>
        BY DEF Singles
  <2>2. FlattenSeq(<< >>) = << >>
        BY DEF FlattenSeq
  <2>3. UpTo(0) = << >>
    <3>1. UpTo(0) \in Seq(Nat) /\ Len(UpTo(0)) = 0
          BY OneMoreItem
    <3> QED BY <3>1
  <2> QED BY <2>1, <2>2, <2>3
<1>2. ASSUME NEW k \in T PROVE k + 1 \in T
  <2>1. k \in Nat /\ k + 1 \in Nat /\ FlattenSeq(Singles(k)) = UpTo(k)
        OBVIOUS
  <2>2. /\ Singles(k) \in Seq(Seq(Nat)) /\ Single(k + 1) \in Seq(Nat)
        /\ Singles(k + 1) = Append(Singles(k), Single(k + 1))
        BY <2>1, OneMoreSingle
  <2>3. FlattenSeq(Append(Singles(k), Single(k + 1))) = FlattenSeq(Singles(k)) \o Single(k + 1)
        BY <2>2, FlattenAppend
  <2>4. UpTo(k) \o Single(k + 1) = UpTo(k + 1)
        BY <2>1, OneMoreItem DEF Single
  <2>5. FlattenSeq(Singles(k + 1)) = UpTo(k + 1)
        BY <2>1, <2>2, <2>3, <2>4
  <2> QED BY <2>1, <2>5
<1>3. FlattenSeq(Singles(n)) = UpTo(n)
  <2>1. T = Nat
    <3>1. T \in SUBSET Nat
          OBVIOUS
    <3> HIDE DEF T
    <3> QED BY <3>1, <1>1, <1>2, NumberInduction
  <2>2. n \in T
        BY <2>1
  <2> QED BY <2>2
<1>4. \A b \in DOMAIN Singles(n) : Len(Singles(n)[b]) = 1 /\ Singles(n)[b] # << >>
      BY DEF Singles, Single
<1>5. \A b \in DOMAIN Singles(n) : /\ Len(Singles(n)[b]) <= 1
                                   /\ b < Len(Singles(n)) => Len(Singles(n)[b]) = 1
  <2>1. \A x : x = 1 => x <= 1
        OBVIOUS
  <2> QED BY <2>1, <1>4
<1> QED BY <1>3, <1>4, <1>5 DEF Exact

LEMMA OrdersAreExact ==
  ASSUME NEW n \in Nat, NEW policy \in Policies
  PROVE  LET order == ExecutionOrder(n, policy)
             size == CASE policy.kind = "parallel" -> n
                       [] policy.kind = "sequential" -> 1
                       [] OTHER -> Max({1, policy.size})
         IN /\ Exact(order, n, size)
            /\ policy.kind # "parallel" => \A b \in DOMAIN order : order[b] # << >>
<1> DEFINE order == ExecutionOrder(n, policy)
           size == CASE policy.kind = "parallel" -> n
                     [] policy.kind = "sequential" -> 1
                     [] OTHER -> Max({1, policy.size})
<1>1. CASE policy.kind = "parallel"
  <2>1. order = <<UpTo(n)>> /\ size = n
        BY <1>1 DEF ExecutionOrder, UpTo
  <2> HIDE DEF order, size
  <2>2. Exact(order, n, size)
        BY <2>1, ParallelIsExact
  <2> QED BY <2>2, <1>1 DEF order, size
<1>2. CASE policy.kind = "sequential"
  <2>1. order = Singles(n) /\ size = 1
        BY <1>2 DEF ExecutionOrder, Singles, Single
  <2> HIDE DEF order, size
  <2>2. Exact(order, n, size) /\ \A b \in DOMAIN order : order[b] # << >>
        BY <2>1, SequentialIsExact
  <2> QED BY <2>2 DEF order, size
<1>3. CASE policy.kind # "parallel" /\ policy.kind # "sequential"
  <2>1. policy.size \in Nat
    <3>1. MaxBatch \in Nat
          BY PlanAssumption
    <3>2. policy \in [kind : {"limited_parallel", "batch_with_delay"}, size : 0..MaxBatch]
          BY <1>3 DEF Policies
    <3> QED BY <3>1, <3>2
  <2>2. order = Cut(n, policy.size) /\ size = Size(policy.size)
        BY <1>3 DEF ExecutionOrder, Size
  <2> HIDE DEF order, size
  <2>3. Exact(order, n, size) /\ \A b \in DOMAIN order : order[b] # << >>
        BY <2>1, <2>2, CutIsExact
  <2> QED BY <2>3 DEF order, size
<1> QED BY <1>1, <1>2, <1>3

(* Whatever devices, selectors and sizes there are: a plan has every device *)
(* of its target in exactly one batch, in order, and no batch but the last  *)
(* has another size than the policy's.                                      *)
THEOREM PlansAreExact == PlanSpec => []PlanIsExact
<1>1. PlanInit => PlanIsExact
      BY DEF PlanInit, PlanIsExact
<1>2. ASSUME PlanIsExact, [PlanNext]_plan PROVE PlanIsExact'
  <2>1. CASE UNCHANGED plan
        BY <1>2, <2>1 DEF PlanIsExact
  <2>2. CASE DropPlan
        BY <2>2 DEF DropPlan, PlanIsExact, NoPlan
  <2>3. CASE MakePlan
    <3>1. PICK text \in Texts, policy \in Policies :
            LET devices == {d \in Fleet : Selects(Parse(text), d)} IN
            plan' = [text |-> text, policy |-> policy, devices |-> devices,
                     order |-> ExecutionOrder(Cardinality(devices), policy)]
          BY <2>3 DEF MakePlan
    <3> DEFINE devices == {d \in Fleet : Selects(Parse(text), d)}
               n == Cardinality(devices)
               size == CASE policy.kind = "parallel" -> n
                         [] policy.kind = "sequential" -> 1
                         [] OTHER -> Max({1, policy.size})
    <3>2. n \in Nat
      <4>1. IsFiniteSet(devices)
            BY PlanAssumption, FS_Subset
      <4> QED BY <4>1, FS_CardinalityType
    <3>3. plan'.devices = devices /\ plan'.policy = policy
          /\ plan'.order = ExecutionOrder(n, policy)
          BY <3>1
    <3> HIDE DEF n
    <3>4. /\ Exact(plan'.order, n, size)
          /\ policy.kind # "parallel" => \A b \in DOMAIN plan'.order : plan'.order[b] # << >>
          BY <3>2, <3>3, OrdersAreExact
    <3>5. n = Cardinality(plan'.devices)
          BY <3>3 DEF n
    <3> HIDE DEF devices
    <3> QED BY <3>3, <3>4, <3>5 DEF PlanIsExact, Exact, UpTo
  <2> QED BY <1>2, <2>1, <2>2, <2>3 DEF PlanNext
<1> QED BY <1>1, <1>2, PTL DEF PlanSpec
-----------------------------------------------------------------------------
(* The types of the parts *)

SecurityTypes ==
  /\ IsFiniteSet(seenNonces) /\ asked \in Nat
  /\ Cardinality(seenNonces) <= asked /\ asked <= MaxRequests
  /\ \A d, e \in seenNonces : d.key = e.key => d = e
  /\ \A r \in allowed : r.role = "readonly" => r.action = "read"

LEMMA ReadersOnlyRead ==
  ASSUME NEW r, Authorized(r), r.role = "readonly"
  PROVE  r.action = "read"
<1>1. <<r.resource, r.action>> \in {"telemetry", "file_transfer", "configuration"} \X {"read"}
      BY DEF Authorized, Grants
<1> QED BY <1>1

LEMMA SecurityTypesStay ==
  ASSUME SecurityTypes, [SecurityNext]_securityVars
  PROVE  SecurityTypes'
<1>0. MaxRequests \in Nat
      BY SecurityAssumption
<1>1. CASE ClockTicks \/ ClockSetBack \/ UNCHANGED securityVars \/ \E r \in Requests : Deny(r)
  <2>1. UNCHANGED <<seenNonces, allowed, asked>>
        BY <1>1 DEF ClockTicks, ClockSetBack, securityVars, Deny
  <2> QED BY <2>1 DEF SecurityTypes
<1>2. ASSUME NEW r \in Requests, RefuseReplay(r) \/ Allow(r)
      PROVE  SecurityTypes'
  <2> DEFINE kept == Pruned(seenNonces)
  <2>1. kept \subseteq seenNonces
        BY DEF Pruned
  <2>2. IsFiniteSet(kept) /\ Cardinality(kept) <= Cardinality(seenNonces)
        BY <2>1, FS_Subset DEF SecurityTypes
  <2>3. Cardinality(kept) \in Nat /\ Cardinality(seenNonces) \in Nat
        BY <2>2, FS_CardinalityType DEF SecurityTypes
  <2>4. asked' = asked + 1 /\ asked < MaxRequests
        BY <1>2 DEF RefuseReplay, Allow, Ask
  <2>5. CASE RefuseReplay(r)
    <3>1. seenNonces' = kept /\ allowed' = allowed
          BY <2>5 DEF RefuseReplay
    <3> HIDE DEF kept
    <3> QED BY <1>0, <2>1, <2>2, <2>3, <2>4, <3>1 DEF SecurityTypes
  <2>6. CASE Allow(r)
    <3> DEFINE entry == [key |-> ReplayKey(r), timestamp |-> r.timestamp]
    <3>1. seenNonces' = kept \cup {entry} /\ allowed' = allowed \cup {r} /\ Authorized(r)
          BY <2>6 DEF Allow
    <3>2. \A e \in kept : e.key # entry.key
          BY <2>6 DEF Allow, Replayed
    <3> HIDE DEF kept, entry
    <3>3. entry \notin kept
          BY <3>2
    <3>4. IsFiniteSet(seenNonces') /\ Cardinality(seenNonces') = Cardinality(kept) + 1
          BY <2>2, <3>1, <3>3, FS_AddElement
    <3>5. \A d, e \in seenNonces' : d.key = e.key => d = e
          BY <2>1, <3>1, <3>2 DEF SecurityTypes
    <3>6. \A q \in allowed' : q.role = "readonly" => q.action = "read"
          BY <3>1, ReadersOnlyRead DEF SecurityTypes
    <3>7. asked' \in Nat /\ asked' <= MaxRequests /\ Cardinality(seenNonces') <= asked'
          BY <1>0, <2>2, <2>3, <2>4, <3>4 DEF SecurityTypes
    <3> QED BY <3>4, <3>5, <3>6, <3>7 DEF SecurityTypes
  <2> QED BY <1>2, <2>5, <2>6
<1> QED BY <1>1, <1>2 DEF SecurityNext

LEMMA SecurityIsTyped ==
  /\ SecurityInit => SecurityTypes
  /\ SecurityTypes => SecurityTypeOK
<1>1. MaxRequests \in Nat
      BY SecurityAssumption
<1>2. ASSUME SecurityInit PROVE SecurityTypes
  <2>1. seenNonces = {} /\ allowed = {} /\ asked = 0
        BY <1>2 DEF SecurityInit
  <2>2. IsFiniteSet(seenNonces) /\ Cardinality(seenNonces) = 0
        BY <2>1, FS_EmptySet
  <2> QED BY <1>1, <2>1, <2>2 DEF SecurityTypes
<1>3. ASSUME SecurityTypes PROVE SecurityTypeOK
  <2>1. Cardinality(seenNonces) \in Nat
        BY <1>3, FS_CardinalityType DEF SecurityTypes
  <2> QED BY <1>1, <1>3, <2>1 DEF SecurityTypes, SecurityTypeOK
<1> QED BY <1>2, <1>3

(* The script store keeps executions only of the scripts in its table, as   *)
(* the foreign key says                                                     *)
ExecutionsFit == executions \in [Scripts -> Nat] /\ \A s \in Scripts \ Held : executions[s] = 0

LEMMA ExecutionsStay ==
  ASSUME ScriptInv, ExecutionsFit, [ScriptNext]_scriptVars
  PROVE  ExecutionsFit'
<1>0. /\ scripts \in [Scripts -> ScriptRow \cup {NoScript}] /\ NoScript \notin ScriptRow
      /\ executions \in [Scripts -> Nat] /\ \A s \in Scripts \ Held : executions[s] = 0
      BY ScriptAssumption DEF ScriptInv, TablesTyped, ExecutionsFit, ScriptRow
<1>1. ASSUME executions' = executions, Held \subseteq Held'
      PROVE  ExecutionsFit'
      BY <1>0, <1>1 DEF ExecutionsFit
<1>2. ASSUME NEW s \in Scripts, NEW row \in ScriptRow, scripts' = [scripts EXCEPT ![s] = row]
      PROVE  Held \subseteq Held'
      BY <1>0, <1>2 DEF Held
<1>3. ASSUME NEW s \in Scripts, NEW row, Insert(s, row)
      PROVE  ExecutionsFit'
  <2>1. s \notin Held /\ scripts' = [scripts EXCEPT ![s] = row] /\ executions' = executions
        BY <1>3 DEF Insert
  <2>2. Held \subseteq Held'
        BY <1>0, <2>1 DEF Held
  <2> QED BY <1>1, <2>1, <2>2
<1>4. ASSUME NEW ss, Removed(ss)
      PROVE  ExecutionsFit'
  <2>1. /\ scripts' = [s \in Scripts |-> IF s \in ss THEN NoScript ELSE scripts[s]]
        /\ executions' = [s \in Scripts |-> IF s \in ss THEN 0 ELSE executions[s]]
        BY <1>4 DEF Removed
  <2>2. \A s \in Scripts \ Held' : s \in ss \/ s \notin Held
        BY <2>1 DEF Held
  <2> QED BY <1>0, <2>1, <2>2 DEF ExecutionsFit
<1>5. CASE UNCHANGED scriptVars
      BY <1>1, <1>5 DEF scriptVars, Held
<1>6. ASSUME NEW c \in ScriptClients, Get(c) \/ Edit(c) \/ Toggled(c) \/ Import(c)
      PROVE  ExecutionsFit'
  <2>1. UNCHANGED <<scripts, executions>>
        BY <1>6 DEF Get, Edit, Toggled, Import
  <2> QED BY <1>1, <2>1 DEF Held
<1>7. ASSUME NEW c \in ScriptClients, Create(c) \/ ImportNext(c)
      PROVE  ExecutionsFit'
  <2>1. CASE Create(c)
        BY <1>3, <2>1 DEF Create
  <2>2. CASE ImportNext(c)
        BY <1>1, <1>3, <2>2 DEF ImportNext, Held
  <2> QED BY <1>7, <2>1, <2>2
<1>8. ASSUME NEW c \in ScriptClients, Delete(c) \/ BulkDelete(c)
      PROVE  ExecutionsFit'
      BY <1>4, <1>8 DEF Delete, BulkDelete
<1>9. ASSUME NEW c \in ScriptClients, IncrementUsage(c) \/ Toggle(c)
      PROVE  ExecutionsFit'
  <2>1. PICK s \in Scripts :
          IF s \in Held
          THEN \/ scripts' = [scripts EXCEPT ![s].usage = @ + 1]
               \/ scripts' = [scripts EXCEPT ![s] = ToggleFavorite(@)]
          ELSE UNCHANGED scripts
        BY <1>9 DEF IncrementUsage, Toggle
  <2>2. executions' = executions
        BY <1>9 DEF IncrementUsage, Toggle
  <2>3. CASE s \in Held
    <3>1. scripts[s] \in ScriptRow
          BY <1>0, <2>3 DEF Held
    <3>2. \E row \in ScriptRow : scripts' = [scripts EXCEPT ![s] = row]
      <4>1. CASE scripts' = [scripts EXCEPT ![s] = ToggleFavorite(@)]
            BY <3>1, <4>1, RowsChange
      <4>2. CASE scripts' = [scripts EXCEPT ![s].usage = @ + 1]
        <5>1. scripts' = [scripts EXCEPT ![s] = [scripts[s] EXCEPT !.usage = @ + 1]]
              BY <4>2
        <5> QED BY <3>1, <5>1, RowsChange
      <4> QED BY <2>1, <2>3, <4>1, <4>2
    <3> QED BY <1>1, <1>2, <2>2, <3>2
  <2>4. CASE s \notin Held
        BY <1>1, <2>1, <2>2, <2>4 DEF Held
  <2> QED BY <2>3, <2>4
<1>10. ASSUME NEW c \in ScriptClients, Update(c)
       PROVE  ExecutionsFit'
  <2>1. executions' = executions /\ scriptCopy[c] # NoScript
        BY <1>10 DEF Update
  <2>2. scriptCopy[c] \in Copy
        BY <2>1 DEF ScriptInv
  <2>3. StoredRow(scriptCopy[c].row) \in ScriptRow /\ scriptCopy[c].id \in Scripts
        BY <2>2, RowsChange DEF Copy
  <2>4. \/ scripts' = scripts
        \/ scripts' = [scripts EXCEPT ![scriptCopy[c].id] = StoredRow(scriptCopy[c].row)]
        BY <1>10 DEF Update
  <2>5. Held \subseteq Held'
        BY <1>2, <2>3, <2>4 DEF Held
  <2> QED BY <1>1, <2>1, <2>5
<1>11. ASSUME NEW c \in ScriptClients, SaveExecution(c)
       PROVE  ExecutionsFit'
  <2>1. PICK s \in Scripts :
          executions' = IF s \in Held THEN [executions EXCEPT ![s] = @ + 1] ELSE executions
        BY <1>11 DEF SaveExecution
  <2>2. scripts' = scripts
        BY <1>11 DEF SaveExecution
  <2>3. Held' = Held
        BY <2>2 DEF Held
  <2> QED BY <1>0, <2>1, <2>3 DEF ExecutionsFit
<1> QED BY <1>5, <1>6, <1>7, <1>8, <1>9, <1>10, <1>11 DEF ScriptNext

LEMMA ScriptIsTyped ==
  /\ ScriptInit => ExecutionsFit
  /\ ScriptInv /\ ExecutionsFit => ScriptStoreTypeOK
<1>1. ScriptInit => ExecutionsFit
      BY DEF ScriptInit, ExecutionsFit
<1>2. ASSUME ScriptInv, ExecutionsFit PROVE ScriptStoreTypeOK
  <2>1. \A s \in Held : scripts[s] \in ScriptRow
        BY <1>2 DEF ScriptInv, TablesTyped, Held
  <2>2. ScriptStats.favorites <= ScriptStats.total
    <3>1. IsFiniteSet(Held) /\ ListScripts(TRUE) \subseteq Held
      <4>1. Held \subseteq Scripts /\ ListScripts(TRUE) \subseteq Held
            BY DEF Held, ListScripts
      <4> QED BY <4>1, ScriptAssumption, FS_Subset
    <3>2. Cardinality(ListScripts(TRUE)) <= Cardinality(Held)
          BY <3>1, FS_Subset
    <3>3. /\ ScriptStats.favorites = Cardinality(ListScripts(TRUE))
          /\ ScriptStats.total = Cardinality(Held)
          BY DEF ScriptStats
    <3> QED BY <3>2, <3>3
  <2> QED BY <1>2, <2>1, <2>2, RowFields DEF ExecutionsFit, ScriptStoreTypeOK
<1> QED BY <1>1, <1>2

(* One call of the renderer, and one plan *)
LEMMA RenderedResults ==
  ASSUME NEW body, NEW defs, NEW given
  PROVE  Rendered(body, defs, given).result \in {"template error", "invalid", "ok"}
BY DEF Rendered

LEMMA RenderingIsTyped ==
  /\ RenderInit => ScriptEngineTypeOK
  /\ ScriptEngineTypeOK /\ [RenderNext]_rendering => ScriptEngineTypeOK'
<1>1. RenderInit => ScriptEngineTypeOK
      BY DEF RenderInit, Unanswered, ScriptEngineTypeOK
<1>2. ASSUME RenderScript PROVE ScriptEngineTypeOK'
  <2>1. PICK body \in Bodies, defs \in Definitions, given \in [Names -> Values] :
          rendering' = [result |-> Rendered(body, defs, given).result,
                        body |-> body, defs |-> defs, given |-> given,
                        command |-> IF Rendered(body, defs, given).result # "ok" THEN << >>
                                    ELSE ExecutionCommand("shell",
                                           Rendered(body, defs, given).content).args]
        BY <1>2 DEF RenderScript
  <2>2. rendering'.result = Rendered(body, defs, given).result
        BY <2>1
  <2> QED BY <2>2, RenderedResults DEF ScriptEngineTypeOK
<1>3. ASSUME RenderReturns PROVE ScriptEngineTypeOK'
      BY <1>3 DEF RenderReturns, Unanswered, ScriptEngineTypeOK
<1>4. ASSUME ScriptEngineTypeOK, UNCHANGED rendering PROVE ScriptEngineTypeOK'
      BY <1>4 DEF ScriptEngineTypeOK
<1> QED BY <1>1, <1>2, <1>3, <1>4 DEF RenderNext

LEMMA PlanIsTyped ==
  /\ PlanInit => BatchPlanTypeOK
  /\ BatchPlanTypeOK /\ [PlanNext]_plan => BatchPlanTypeOK'
<1>1. NoPlan.devices = {}
      BY DEF NoPlan
<1>2. PlanInit => BatchPlanTypeOK
      BY <1>1 DEF PlanInit, BatchPlanTypeOK
<1>3. ASSUME MakePlan PROVE BatchPlanTypeOK'
  <2>1. PICK text \in Texts, policy \in Policies :
          plan' = [text |-> text, policy |-> policy,
                   devices |-> {d \in Fleet : Selects(Parse(text), d)},
                   order |-> ExecutionOrder(
                     Cardinality({d \in Fleet : Selects(Parse(text), d)}), policy)]
        BY <1>3 DEF MakePlan
  <2>2. plan'.devices = {d \in Fleet : Selects(Parse(text), d)}
        BY <2>1
  <2> QED BY <2>2 DEF BatchPlanTypeOK
<1>4. ASSUME DropPlan PROVE BatchPlanTypeOK'
      BY <1>1, <1>4 DEF DropPlan, BatchPlanTypeOK
<1>5. ASSUME BatchPlanTypeOK, UNCHANGED plan PROVE BatchPlanTypeOK'
      BY <1>5 DEF BatchPlanTypeOK
<1> QED BY <1>2, <1>3, <1>4, <1>5 DEF PlanNext

(* The history of alerts is cut after each alert, and a rule that is gone    *)
(* left no state behind                                                      *)
AlertRow == [rule : Rules, at : Nat, resolved : BOOLEAN]
Histories == {seq \in Seq(AlertRow) : Len(seq) <= MaxHistory}
AlertTypes == /\ recentAlerts \in Histories
              /\ \A r \in Rules : rules[r] = NoRule => firing[r] = Never

LEMMA OneMoreRecorded ==
  ASSUME NEW seq \in Histories, NEW row \in AlertRow
  PROVE  Dropped(Append(seq, row)) \in Histories
<1> DEFINE more == Append(seq, row)
<1>0. MaxHistory \in Nat
      BY AlertAssumption
<1>1. seq \in Seq(AlertRow) /\ Len(seq) \in Nat /\ Len(seq) <= MaxHistory
      BY DEF Histories
<1>2. more \in Seq(AlertRow) /\ Len(more) = Len(seq) + 1
      BY <1>1
<1> HIDE DEF more
<1>3. CASE Len(more) > MaxHistory
  <2>1. more # << >>
        BY <1>1, <1>2
  <2>2. Tail(more) \in Seq(AlertRow) /\ Len(Tail(more)) = Len(seq)
        BY <1>1, <1>2, <2>1
  <2>3. Dropped(more) = Tail(more)
        BY <1>3 DEF Dropped
  <2> QED BY <1>1, <2>2, <2>3 DEF Histories, more
<1>4. CASE ~(Len(more) > MaxHistory)
  <2>1. Dropped(more) = more
        BY <1>4 DEF Dropped
  <2> QED BY <1>0, <1>1, <1>2, <1>4, <2>1 DEF Histories, more
<1> QED BY <1>3, <1>4

RecordsAfter(after, alerts, order) ==
  /\ after[0] = alerts
  /\ \A k \in 1..Len(order) :
       after[k] = Dropped(Append(after[k-1],
                    [rule |-> order[k], at |-> alertTime, resolved |-> FALSE]))

LEMMA RecordedStep ==
  ASSUME NEW alerts \in Histories, NEW order \in Seq(Rules), alertTime \in Nat
  PROVE  RecordsAfter(Recorded(alerts, order), alerts, order)
<1> DEFINE More(b, r) == Dropped(Append(b, [rule |-> r, at |-> alertTime, resolved |-> FALSE]))
           step == [k \in Nat |-> [b \in Histories |->
                      IF k \in 1..Len(order) THEN More(b, order[k]) ELSE b]]
           Goal(f) == f = [k \in 0..Len(order) |->
                        IF k = 0 THEN alerts ELSE More(f[k-1], order[k])]
<1>0. Len(order) \in Nat /\ \A k \in 1..Len(order) : order[k] \in Rules
      OBVIOUS
<1>1. ASSUME NEW b \in Histories, NEW r \in Rules PROVE More(b, r) \in Histories
  <2>1. [rule |-> r, at |-> alertTime, resolved |-> FALSE] \in AlertRow
        BY DEF AlertRow
  <2> QED BY <2>1, OneMoreRecorded
<1>g. Recorded(alerts, order) = CHOOSE g : Goal(g)
      BY DEF Recorded
<1> HIDE DEF More
<1>2. step \in [Nat -> [Histories -> Histories]]
      BY <1>0, <1>1
<1>3. \A b \in Histories, k \in 1..Len(order) : step[k][b] = More(b, order[k])
      BY <1>0
<1> HIDE DEF step
<1>4. PICK f \in [0..Len(order) -> Histories] : Recurs(f, alerts, step, Len(order))
      BY <1>0, <1>2, Recursion
<1>5. f[0] = alerts /\ \A k \in 1..Len(order) : f[k] = step[k][f[k-1]]
      BY <1>4 DEF Recurs
<1>6. \A k \in 1..Len(order) : f[k] = More(f[k-1], order[k])
  <2> TAKE k \in 1..Len(order)
  <2>1. k - 1 \in 0..Len(order)
        BY <1>0
  <2>2. f[k-1] \in Histories
        BY <2>1
  <2> QED BY <2>2, <1>3, <1>5
<1>7. Goal(f)
  <2>1. \A k \in 0..Len(order) : k # 0 => k \in 1..Len(order)
        BY <1>0
  <2>2. \A k \in 0..Len(order) : f[k] = IF k = 0 THEN alerts ELSE More(f[k-1], order[k])
        BY <2>1, <1>5, <1>6
  <2>3. f = [k \in 0..Len(order) |-> f[k]]
        OBVIOUS
  <2> QED BY <2>2, <2>3
<1> DEFINE g == Recorded(alerts, order)
<1>8. Goal(g)
  <2> HIDE DEF Goal
  <2> QED BY <1>7, <1>g
<1> HIDE DEF g
<1>9. g[0] = alerts
  <2>1. 0 \in 0..Len(order)
        BY <1>0
  <2> QED BY <2>1, <1>8
<1>10. \A k \in 1..Len(order) : g[k] = More(g[k-1], order[k])
  <2> TAKE k \in 1..Len(order)
  <2>1. k \in 0..Len(order) /\ k # 0
        BY <1>0
  <2> QED BY <2>1, <1>8
<1>11. RecordsAfter(g, alerts, order)
       BY <1>9, <1>10 DEF RecordsAfter, More
<1> QED BY <1>11 DEF g

LEMMA RecordedFits ==
  ASSUME NEW alerts \in Histories, NEW order \in Seq(Rules), alertTime \in Nat
  PROVE  Recorded(alerts, order)[Len(order)] \in Histories
<1> DEFINE g == Recorded(alerts, order)
           T == {k \in Nat : k <= Len(order) => g[k] \in Histories}
<1>0. Len(order) \in Nat /\ \A k \in 1..Len(order) : order[k] \in Rules
      OBVIOUS
<1>1. RecordsAfter(g, alerts, order)
      BY RecordedStep
<1> HIDE DEF g
<1>2. 0 \in T
      BY <1>1 DEF RecordsAfter
<1>3. ASSUME NEW k \in T PROVE k + 1 \in T
  <2>1. SUFFICES ASSUME k + 1 <= Len(order) PROVE g[k + 1] \in Histories
        OBVIOUS
  <2>2. k \in Nat /\ k + 1 \in 1..Len(order) /\ (k + 1) - 1 = k /\ k <= Len(order)
        BY <2>1, <1>0
  <2>3. g[k] \in Histories
        BY <2>2
  <2>4. [rule |-> order[k+1], at |-> alertTime, resolved |-> FALSE] \in AlertRow
        BY <2>2, <1>0 DEF AlertRow
  <2>5. g[k + 1] = Dropped(Append(g[k],
                     [rule |-> order[k+1], at |-> alertTime, resolved |-> FALSE]))
        BY <2>2, <1>1 DEF RecordsAfter
  <2> QED BY <2>3, <2>4, <2>5, OneMoreRecorded
<1>4. T = Nat
  <2>1. T \in SUBSET Nat
        OBVIOUS
  <2> HIDE DEF T
  <2> QED BY <2>1, <1>2, <1>3, NumberInduction
<1>5. Len(order) \in T
      BY <1>0, <1>4
<1> QED BY <1>0, <1>5 DEF g

LEMMA KeptIsNoLonger ==
  ASSUME NEW X, NEW seq \in Seq(X), NEW S
  PROVE  Len(Kept(seq, S)) <= Len(seq)
<1> DEFINE g == KeptUpTo(seq, S)
           T == {k \in Nat : k <= Len(seq) => Len(g[k]) <= k}
<1>0. Len(seq) \in Nat /\ \A k \in 1..Len(seq) : seq[k] \in X
      OBVIOUS
<1>1. Filters(g, seq, S) /\ g \in [0..Len(seq) -> Seq(X \cap S)]
      BY KeptStep
<1> HIDE DEF g
<1>2. 0 \in T
  <2>1. g[0] = << >>
        BY <1>1 DEF Filters
  <2> QED BY <2>1
<1>3. ASSUME NEW k \in T PROVE k + 1 \in T
  <2>1. SUFFICES ASSUME k + 1 <= Len(seq) PROVE Len(g[k + 1]) <= k + 1
        OBVIOUS
  <2>2. k \in Nat /\ k + 1 \in 1..Len(seq) /\ (k + 1) - 1 = k /\ k \in 0..Len(seq)
        BY <2>1, <1>0
  <2>3. Len(g[k]) <= k /\ g[k] \in Seq(X \cap S)
        BY <2>2, <1>1
  <2>4. g[k + 1] = IF seq[k+1] \in S THEN Append(g[k], seq[k+1]) ELSE g[k]
        BY <2>2, <1>1 DEF Filters
  <2>5. Len(g[k]) \in Nat /\ Len(Append(g[k], seq[k+1])) = Len(g[k]) + 1
        BY <2>3
  <2> QED BY <2>2, <2>3, <2>4, <2>5
<1>4. T = Nat
  <2>1. T \in SUBSET Nat
        OBVIOUS
  <2> HIDE DEF T
  <2> QED BY <2>1, <1>2, <1>3, NumberInduction
<1>5. Len(seq) \in T
      BY <1>0, <1>4
<1> QED BY <1>0, <1>5 DEF Kept, g

LEMMA AlertTypesStay ==
  ASSUME AlertTables, AlertTypes, [AlertNext]_alertVars
  PROVE  AlertTypes'
<1>0. /\ recentAlerts \in Histories /\ alertTime \in Nat /\ NoRule \notin RuleForms
      /\ rules \in [Rules -> RuleForms \cup {NoRule}]
      /\ firing \in [Rules -> 0..alertTime \cup {Never}]
      /\ \A r \in Rules : rules[r] = NoRule => firing[r] = Never
      BY AlertAssumption DEF AlertTypes, AlertTables
<1>1. CASE UNCHANGED alertVars \/ AlertClock
  <2>1. UNCHANGED <<recentAlerts, rules, firing>>
        BY <1>1 DEF alertVars, AlertClock
  <2> QED BY <1>0, <2>1 DEF AlertTypes
<1>2. CASE AddRule
      BY <1>0, <1>2 DEF AddRule, AlertTypes
<1>3. CASE RemoveRule
      BY <1>0, <1>3 DEF RemoveRule, Forgotten, AlertTypes
<1>4. CASE Evaluate
  <2>1. PICK sample \in Samples :
          LET matched == {r \in Enabled : RuleMatches(rules[r], sample)}
              due == {r \in matched : CooledDown(r) /\ HeldLongEnough(r)}
          IN
          /\ firing' = [r \in Rules |-> IF r \in matched THEN Since(r)
                                        ELSE IF r \in Enabled THEN Never ELSE firing[r]]
          /\ \E order \in SetToSeqs(due) :
               recentAlerts' = Recorded(recentAlerts, order)[Len(order)]
          /\ rules' = rules
        BY <1>4 DEF Evaluate
  <2> DEFINE matched == {r \in Enabled : RuleMatches(rules[r], sample)}
             due == {r \in matched : CooledDown(r) /\ HeldLongEnough(r)}
  <2>2. /\ firing' = [r \in Rules |-> IF r \in matched THEN Since(r)
                                      ELSE IF r \in Enabled THEN Never ELSE firing[r]]
        /\ \E order \in SetToSeqs(due) :
             recentAlerts' = Recorded(recentAlerts, order)[Len(order)]
        /\ rules' = rules
        BY <2>1
  <2>3. matched \subseteq Enabled /\ due \subseteq Rules
        BY DEF Enabled
  <2> HIDE DEF matched, due
  <2>4. \A r \in Rules : rules'[r] = NoRule => firing'[r] = Never
        BY <1>0, <2>2, <2>3 DEF Enabled
  <2>5. PICK order \in SetToSeqs(due) :
          recentAlerts' = Recorded(recentAlerts, order)[Len(order)]
        BY <2>2
  <2>6. order \in Seq(Rules)
    <3>1. IsFiniteSet(due)
          BY <2>3, AlertAssumption, FS_Subset
    <3>2. Cardinality(due) \in Nat
          BY <3>1, FS_CardinalityType
    <3>3. order \in [1..Cardinality(due) -> due]
          BY DEF SetToSeqs
    <3>4. order \in [1..Cardinality(due) -> Rules]
          BY <2>3, <3>3
    <3> QED BY <3>2, <3>4
  <2> QED BY <1>0, <2>4, <2>5, <2>6, RecordedFits DEF AlertTypes
<1>5. CASE ResolveAlert
  <2>1. PICK i \in DOMAIN recentAlerts :
          recentAlerts' = [recentAlerts EXCEPT ![i].resolved = TRUE]
        BY <1>5 DEF ResolveAlert
  <2>2. recentAlerts \in Seq(AlertRow) /\ Len(recentAlerts) <= MaxHistory
        BY <1>0 DEF Histories
  <2>3. recentAlerts[i] \in AlertRow
        BY <2>2
  <2>4. [recentAlerts[i] EXCEPT !.resolved = TRUE] \in AlertRow
        BY <2>3 DEF AlertRow
  <2>5. recentAlerts' = [recentAlerts EXCEPT ![i] = [recentAlerts[i] EXCEPT !.resolved = TRUE]]
        BY <2>1
  <2>6. recentAlerts' \in Seq(AlertRow) /\ Len(recentAlerts') = Len(recentAlerts)
        BY <2>2, <2>4, <2>5
  <2>7. UNCHANGED <<rules, firing>>
        BY <1>5 DEF ResolveAlert
  <2> QED BY <1>0, <2>2, <2>6, <2>7 DEF AlertTypes, Histories
<1> QED BY <1>1, <1>2, <1>3, <1>4, <1>5 DEF AlertNext

LEMMA AlertIsTyped ==
  /\ AlertInit => AlertTypes
  /\ AlertTables /\ AlertTypes => AlertEngineTypeOK
<1>1. ASSUME AlertInit PROVE AlertTypes
  <2>1. << >> \in Histories
        BY AlertAssumption DEF Histories
  <2> QED BY <1>1, <2>1 DEF AlertInit, AlertTypes
<1>2. ASSUME AlertTables, AlertTypes PROVE AlertEngineTypeOK
  <2>1. recentAlerts \in Seq(AlertRow) /\ Len(recentAlerts) <= MaxHistory
        BY <1>2 DEF AlertTypes, Histories
  <2>2. Len(ActiveAlerts) <= Len(recentAlerts)
        BY <2>1, KeptIsNoLonger DEF ActiveAlerts
  <2>3. \A r \in Rules : {firing[r], lastFired[r]} \subseteq 0..alertTime \cup {Never}
        BY <1>2 DEF AlertTables
  <2> QED BY <1>2, <2>1, <2>2, <2>3 DEF AlertTypes, AlertEngineTypeOK
<1> QED BY <1>1, <1>2


(* The registered senders are of subscriptions that were made, each once,    *)
(* also when two calls shorten the list at once and the wrong ones go        *)
Known == {s \in Subscribers : forwarder[s] # "new"}
Lists(S) == {list \in Seq(S) : IsInjective(list)}
Upto(S, cap) == {seq \in Seq(S) : Len(seq) <= cap}
SendCall == [at : {"sending"}, topic : Topics, to : Seq(Subscribers), next : Nat \ {0},
             dead : Seq(Nat \ {0}), cuts : Nat]

ChannelsFit ==
  /\ channel \in [Subscribers -> Upto(Topics, SenderCap)]
  /\ stream \in [Subscribers -> Upto({"message"}, StreamCap)]
  /\ \A s \in Ended : channel[s] = << >>

RouterFits ==
  /\ forwarder \in [Subscribers -> {"new", "waiting", "sending", "ended"}]
  /\ registry \in Lists(Known) \cup {NoList} /\ ChannelsFit /\ cuts \in Nat
  /\ delivery = [m \in Deliveries |-> delivery[m]]
  /\ \A m \in Deliveries : delivery[m].at = "sending" => delivery[m] \in SendCall

LEMMA OneLessIsFit ==
  ASSUME NEW S, NEW cap \in Nat, NEW seq \in Upto(S, cap), seq # << >>
  PROVE  Tail(seq) \in Upto(S, cap)
<1>1. seq \in Seq(S) /\ Len(seq) <= cap /\ Len(seq) \in Nat
      BY DEF Upto
<1>2. Tail(seq) \in Seq(S) /\ Len(Tail(seq)) = Len(seq) - 1
      BY <1>1
<1> QED BY <1>1, <1>2 DEF Upto

LEMMA OneMoreIsFit ==
  ASSUME NEW S, NEW cap \in Nat, NEW seq \in Upto(S, cap), Len(seq) < cap, NEW e \in S
  PROVE  Append(seq, e) \in Upto(S, cap)
<1>1. seq \in Seq(S) /\ Len(seq) \in Nat
      BY DEF Upto
<1>2. Append(seq, e) \in Seq(S) /\ Len(Append(seq, e)) = Len(seq) + 1
      BY <1>1
<1> QED BY <1>1, <1>2 DEF Upto

LEMMA NoneIsFit ==
  ASSUME NEW S, NEW cap \in Nat
  PROVE  << >> \in Upto(S, cap)
BY DEF Upto

LEMMA SwapKeepsList ==
  ASSUME NEW S, NEW list \in Lists(S), NEW i \in Nat \ {0}, i <= Len(list)
  PROVE  SwapRemove(list, i) \in Lists(S)
<1> DEFINE r == SwapRemove(list, i)
           n == Len(list)
<1>0. /\ list \in Seq(S) /\ n \in Nat /\ i \in 1..n
      /\ \A p, q \in 1..n : list[p] = list[q] => p = q
      BY DEF Lists, IsInjective
<1>1. /\ r \in Seq(S) /\ Len(r) = n - 1
      /\ \A p \in 1..n-1 : r[p] = IF p = i THEN list[n] ELSE list[p]
      BY <1>0, SwapRemoves
<1>2. DOMAIN r = 1..n-1
      BY <1>1
<1> HIDE DEF r, n
<1>3. ASSUME NEW p \in 1..n-1, NEW q \in 1..n-1, r[p] = r[q] PROVE p = q
  <2>1. p \in 1..n /\ q \in 1..n /\ n \in 1..n /\ p # n /\ q # n
        BY <1>0
  <2>2. /\ r[p] = IF p = i THEN list[n] ELSE list[p]
        /\ r[q] = IF q = i THEN list[n] ELSE list[q]
        BY <1>1
  <2>3. /\ list[n] = list[q] => n = q
        /\ list[p] = list[n] => p = n
        /\ list[p] = list[q] => p = q
        BY <1>0, <2>1
  <2> QED BY <1>3, <2>1, <2>2, <2>3
<1> QED BY <1>1, <1>2, <1>3 DEF Lists, IsInjective, r

LEMMA CleanedIsList ==
  ASSUME NEW S, NEW list \in Lists(S), NEW dead \in Seq(Nat \ {0})
  PROVE  CleanedList(list, dead).list \in Lists(S)
<1> DEFINE n == Len(dead)
           order == RemovalOrder(dead)
           after == Removals(list, order)
           Kinds == [list : Lists(S), panics : BOOLEAN]
           Good(k) == after[k] \in Kinds
           T == {k \in Nat : k <= n => Good(k)}
<1>0. n \in Nat /\ list \in Seq(S)
      BY DEF Lists
<1>1. order \in Seq(Nat \ {0}) /\ Len(order) = n
  <2>1. order = [k \in 1..n |-> dead[(n - k) + 1]]
        BY DEF RemovalOrder, Reverse
  <2>2. \A k \in 1..n : (n - k) + 1 \in 1..n /\ (n - k) + 1 \in DOMAIN dead
        BY <1>0
  <2>3. \A k \in 1..n : dead[(n - k) + 1] \in Nat \ {0}
        BY <2>2
  <2> HIDE DEF order, n
  <2> QED BY <2>1, <2>3, <1>0
<1>2. /\ after[0] = [list |-> list, panics |-> FALSE]
      /\ \A k \in 1..n :
           after[k] = IF after[k-1].panics \/ order[k] > Len(after[k-1].list)
                      THEN [after[k-1] EXCEPT !.panics = TRUE]
                      ELSE [after[k-1] EXCEPT !.list = SwapRemove(@, order[k])]
  <2> HIDE DEF order
  <2>2. TakesOff(after, list, order)
        BY <1>0, <1>1, RemovalsStep
  <2> HIDE DEF n, after
  <2> QED BY <2>2, <1>1 DEF TakesOff
<1>c. CleanedList(list, dead) = after[n]
      BY DEF CleanedList
<1> HIDE DEF n, order, after
<1>3. 0 \in T
  <2>1. Good(0)
        BY <1>2
  <2> HIDE DEF Good
  <2> QED BY <2>1
<1>4. ASSUME NEW k \in Nat, k + 1 <= n, Good(k)
      PROVE  Good(k + 1)
  <2>1. k + 1 \in 1..n /\ (k + 1) - 1 = k
        BY <1>0, <1>4
  <2>2. after[k+1] = IF after[k].panics \/ order[k+1] > Len(after[k].list)
                     THEN [after[k] EXCEPT !.panics = TRUE]
                     ELSE [after[k] EXCEPT !.list = SwapRemove(@, order[k+1])]
        BY <2>1, <1>2
  <2>3. order[k+1] \in Nat \ {0}
        BY <1>1, <2>1
  <2>4. after[k] \in Kinds
        BY <1>4
  <2>5. CASE after[k].panics \/ order[k+1] > Len(after[k].list)
        BY <2>2, <2>4, <2>5
  <2>6. CASE ~(after[k].panics \/ order[k+1] > Len(after[k].list))
    <3>1. after[k].list \in Lists(S)
          BY <2>4
    <3>2. Len(after[k].list) \in Nat
          BY <3>1 DEF Lists
    <3>3. order[k+1] <= Len(after[k].list)
          BY <2>3, <2>6, <3>2
    <3>4. SwapRemove(after[k].list, order[k+1]) \in Lists(S)
          BY <2>3, <3>1, <3>3, SwapKeepsList
    <3> QED BY <2>2, <2>4, <2>6, <3>4
  <2> QED BY <2>5, <2>6
<1>5. T = Nat
  <2>1. \A k \in T : k + 1 \in T
    <3> HIDE DEF Good
    <3>1. SUFFICES ASSUME NEW k \in T, k + 1 <= n PROVE Good(k + 1)
          OBVIOUS
    <3>2. k \in Nat /\ k <= n
          BY <1>0, <3>1
    <3> QED BY <1>4, <3>1, <3>2
  <2>2. T \in SUBSET Nat
        OBVIOUS
  <2> HIDE DEF T
  <2> QED BY <2>1, <2>2, <1>3, NumberInduction
<1>6. Good(n)
  <2>1. n \in T
        BY <1>0, <1>5
  <2> HIDE DEF Good
  <2> QED BY <2>1, <1>0
<1> QED BY <1>6, <1>c

LEMMA ListsGrow ==
  ASSUME NEW S, NEW R, S \subseteq R, NEW list \in Lists(S)
  PROVE  list \in Lists(R)
<1>1. list \in Seq(R)
      BY DEF Lists
<1> QED BY <1>1 DEF Lists

LEMMA ListGrows ==
  ASSUME NEW S, NEW list \in Lists(S), NEW e, e \notin S
  PROVE  Append(list, e) \in Lists(S \cup {e})
<1> DEFINE more == Append(list, e)
           n == Len(list)
<1>0. /\ list \in Seq(S) /\ n \in Nat /\ list \in Seq(S \cup {e})
      /\ \A p, q \in 1..n : list[p] = list[q] => p = q
      BY DEF Lists, IsInjective
<1>1. /\ more \in Seq(S \cup {e}) /\ DOMAIN more = 1..n+1 /\ more[n + 1] = e
      /\ \A p \in 1..n : more[p] = list[p] /\ list[p] \in S
      BY <1>0
<1> HIDE DEF more, n
<1>2. ASSUME NEW p \in 1..n+1, NEW q \in 1..n+1, more[p] = more[q] PROVE p = q
  <2>1. p \in 1..n \/ p = n + 1
        BY <1>0
  <2>2. q \in 1..n \/ q = n + 1
        BY <1>0
  <2> QED BY <1>0, <1>1, <1>2, <2>1, <2>2
<1> QED BY <1>1, <1>2 DEF Lists, IsInjective, more


LEMMA SendersFit ==
  ASSUME RouterFits
  PROVE  Senders \in Lists(Known) /\ Senders \in Seq(Subscribers) /\ IsInjective(Senders)
<1>1. NoList \notin Lists(Known)
  <2>1. \A list \in Lists(Known) : list \in Seq(Subscribers)
        BY DEF Lists, Known
  <2> QED BY <2>1, RouterAssumption
<1>2. << >> \in Lists(Known)
      BY DEF Lists, IsInjective
<1>3. Senders \in Lists(Known)
      BY <1>1, <1>2 DEF RouterFits, Senders
<1>4. Senders \in Seq(Subscribers)
      BY <1>3 DEF Lists, Known
<1> QED BY <1>3, <1>4 DEF Lists

LEMMA RegistryStays ==
  ASSUME RouterFits, registry' = registry, Known \subseteq Known'
  PROVE  registry' \in Lists(Known') \cup {NoList}
BY ListsGrow DEF RouterFits

LEMMA CallsFit ==
  ASSUME RouterFits, NEW m \in Deliveries, Deliver(m) \/ SendNext(m) \/ CleanUp(m)
  PROVE  RouterFits'
<1>0. /\ forwarder \in [Subscribers -> {"new", "waiting", "sending", "ended"}]
      /\ ChannelsFit /\ cuts \in Nat /\ delivery = [k \in Deliveries |-> delivery[k]]
      /\ \A k \in Deliveries : delivery[k].at = "sending" => delivery[k] \in SendCall
      BY DEF RouterFits
<1>1. forwarder' = forwarder /\ Known' = Known /\ Ended' = Ended
      BY DEF Deliver, SendNext, CleanUp, Known, Ended
<1>2. CASE Deliver(m)
  <2>1. PICK topic \in Topics :
          delivery' = [delivery EXCEPT ![m] = [at |-> "sending", topic |-> topic,
                         to |-> Senders, next |-> 1, dead |-> << >>, cuts |-> cuts]]
        BY <1>2 DEF Deliver
  <2> DEFINE call == [at |-> "sending", topic |-> topic,
                      to |-> Senders, next |-> 1, dead |-> << >>, cuts |-> cuts]
  <2>2. call \in SendCall
        BY <1>0, SendersFit DEF SendCall
  <2>3. delivery' = [delivery EXCEPT ![m] = call]
        BY <2>1
  <2> HIDE DEF call
  <2>4. /\ delivery' = [k \in Deliveries |-> delivery'[k]]
        /\ \A k \in Deliveries : delivery'[k].at = "sending" => delivery'[k] \in SendCall
        BY <1>0, <2>2, <2>3
  <2>5. UNCHANGED <<registry, channel, stream, cuts>>
        BY <1>2 DEF Deliver
  <2>6. ChannelsFit'
        BY <1>0, <1>1, <2>5 DEF ChannelsFit
  <2> QED BY <1>0, <1>1, <2>4, <2>5, <2>6, RegistryStays DEF RouterFits
<1>3. CASE SendNext(m)
  <2> DEFINE d == delivery[m]
             s == d.to[d.next]
  <2>1. /\ d.at = "sending" /\ d.next <= Len(d.to)
        /\ \/ /\ s \in Ended
              /\ delivery' = [delivery EXCEPT ![m].next = @ + 1, ![m].dead = Append(@, d.next)]
              /\ UNCHANGED channel
           \/ /\ s \notin Ended /\ Len(channel[s]) < SenderCap
              /\ channel' = [channel EXCEPT ![s] = Append(@, d.topic)]
              /\ delivery' = [delivery EXCEPT ![m].next = @ + 1]
        /\ UNCHANGED <<registry, stream, cuts>>
        BY <1>3 DEF SendNext
  <2>2. d \in SendCall
        BY <1>0, <2>1
  <2>3. /\ d.to \in Seq(Subscribers) /\ d.next \in 1..Len(d.to) /\ d.topic \in Topics
        /\ d.dead \in Seq(Nat \ {0})
    <3> HIDE DEF d
    <3>1. /\ d.to \in Seq(Subscribers) /\ d.next \in Nat \ {0} /\ d.topic \in Topics
          /\ d.dead \in Seq(Nat \ {0})
          BY <2>2 DEF SendCall
    <3>2. Len(d.to) \in Nat /\ d.next <= Len(d.to)
          BY <2>1, <3>1
    <3> QED BY <3>1, <3>2
  <2>4. s \in Subscribers
        BY <2>3
  <2>5. delivery'[m] \in SendCall
    <3> DEFINE sent == [d EXCEPT !.next = @ + 1]
               failed == [d EXCEPT !.next = @ + 1, !.dead = Append(@, d.next)]
    <3>1. delivery'[m] = sent \/ delivery'[m] = failed
          BY <1>0, <2>1
    <3>2. sent \in SendCall
          BY SMTT(30), <2>2 DEF SendCall
    <3>3. Append(d.dead, d.next) \in Seq(Nat \ {0})
          BY <2>3
    <3>4. failed \in SendCall
      <4> DEFINE dead == Append(d.dead, d.next)
      <4>1. failed = [sent EXCEPT !.dead = dead]
            BY <2>2 DEF SendCall
      <4> HIDE DEF sent, failed, dead, d
      <4>2. dead \in Seq(Nat \ {0})
            BY <3>3 DEF dead
      <4> QED BY <3>2, <4>1, <4>2 DEF SendCall
    <3> HIDE DEF sent, failed
    <3> QED BY <3>1, <3>2, <3>4
  <2>6. /\ delivery' = [k \in Deliveries |-> delivery'[k]]
        /\ \A k \in Deliveries : delivery'[k].at = "sending" => delivery'[k] \in SendCall
    <3>1. /\ delivery' = [k \in Deliveries |-> delivery'[k]]
          /\ \A k \in Deliveries : k # m => delivery'[k] = delivery[k]
          BY <1>0, <2>1
    <3> QED BY <1>0, <2>5, <3>1
  <2>7. ChannelsFit'
    <3>1. CASE channel' = channel
          BY <1>0, <1>1, <2>1, <3>1 DEF ChannelsFit
    <3>2. CASE /\ s \notin Ended /\ Len(channel[s]) < SenderCap
               /\ channel' = [channel EXCEPT ![s] = Append(@, d.topic)]
      <4> HIDE DEF d, s
      <4>1. channel[s] \in Upto(Topics, SenderCap)
            BY <1>0, <2>4 DEF ChannelsFit
      <4>2. Append(channel[s], d.topic) \in Upto(Topics, SenderCap)
            BY <2>3, <3>2, <4>1, OneMoreIsFit, RouterAssumption
      <4> QED BY <1>0, <1>1, <2>1, <2>4, <3>2, <4>2 DEF ChannelsFit
    <3> QED BY <2>1, <3>1, <3>2
  <2> QED BY <1>0, <1>1, <2>1, <2>6, <2>7, RegistryStays DEF RouterFits
<1>4. CASE CleanUp(m)
  <2> DEFINE d == delivery[m]
             after == CleanedList(registry, d.dead)
  <2>1. /\ d.at = "sending"
        /\ delivery' = [delivery EXCEPT ![m] = [at |-> "done"]]
        /\ IF d.dead = << >> \/ registry = NoList \/ poisoned
           THEN UNCHANGED <<registry, cuts>>
           ELSE registry' = after.list /\ cuts' = cuts + 1
        /\ UNCHANGED <<channel, stream>>
        BY <1>4 DEF CleanUp
  <2>2. d.dead \in Seq(Nat \ {0})
        BY <1>0, <2>1 DEF SendCall
  <2>3. registry \in Lists(Known) \cup {NoList}
        BY DEF RouterFits
  <2>4. registry # NoList => after.list \in Lists(Known)
        BY <2>2, <2>3, CleanedIsList
  <2> HIDE DEF after
  <2>5. registry' \in Lists(Known') \cup {NoList} /\ cuts' \in Nat
        BY <1>0, <1>1, <2>1, <2>3, <2>4
  <2>6. /\ delivery' = [k \in Deliveries |-> delivery'[k]]
        /\ \A k \in Deliveries : delivery'[k].at = "sending" => delivery'[k] \in SendCall
        BY <1>0, <2>1
  <2>7. ChannelsFit'
        BY <1>0, <1>1, <2>1 DEF ChannelsFit
  <2> QED BY <1>0, <1>1, <2>5, <2>6, <2>7 DEF RouterFits
<1> QED BY <1>2, <1>3, <1>4

LEMMA ForwardersFit ==
  ASSUME RouterFits, NEW s \in Subscribers,
         Receive(s) \/ SendToClient(s) \/ SendersGone(s) \/ ClientReads(s) \/ ClientLeaves(s)
  PROVE  RouterFits'
<1>0. /\ forwarder \in [Subscribers -> {"new", "waiting", "sending", "ended"}]
      /\ registry \in Lists(Known) \cup {NoList} /\ ChannelsFit
      BY DEF RouterFits
<1>1. /\ UNCHANGED <<registry, delivery, cuts>>
      /\ \/ forwarder' = forwarder
         \/ forwarder[s] # "new" /\
            \E f \in {"waiting", "sending", "ended"} : forwarder' = [forwarder EXCEPT ![s] = f]
      BY DEF Receive, SendToClient, SendersGone, ClientReads, ClientLeaves
<1>2. /\ forwarder' \in [Subscribers -> {"new", "waiting", "sending", "ended"}]
      /\ Known \subseteq Known'
      BY <1>0, <1>1 DEF Known
<1>3. /\ channel \in [Subscribers -> Upto(Topics, SenderCap)]
      /\ stream \in [Subscribers -> Upto({"message"}, StreamCap)]
      /\ SenderCap \in Nat /\ StreamCap \in Nat
      /\ << >> \in Upto(Topics, SenderCap) /\ << >> \in Upto({"message"}, StreamCap)
      BY <1>0, RouterAssumption, NoneIsFit DEF ChannelsFit
<1>4. channel' \in [Subscribers -> Upto(Topics, SenderCap)]
  <2>1. \/ channel' = channel
        \/ channel' = [channel EXCEPT ![s] = << >>]
        \/ channel[s] # << >> /\ channel' = [channel EXCEPT ![s] = Tail(@)]
        BY DEF Receive, SendToClient, SendersGone, ClientReads, ClientLeaves
  <2>2. channel[s] # << >> => Tail(channel[s]) \in Upto(Topics, SenderCap)
        BY <1>3, OneLessIsFit
  <2> QED BY <1>3, <2>1, <2>2
<1>5. stream' \in [Subscribers -> Upto({"message"}, StreamCap)]
  <2>1. \/ stream' = stream
        \/ stream' = [stream EXCEPT ![s] = << >>]
        \/ stream[s] # << >> /\ stream' = [stream EXCEPT ![s] = Tail(@)]
        \/ Len(stream[s]) < StreamCap /\ stream' = [stream EXCEPT ![s] = Append(@, "message")]
        BY DEF Receive, SendToClient, SendersGone, ClientReads, ClientLeaves
  <2>2. stream[s] # << >> => Tail(stream[s]) \in Upto({"message"}, StreamCap)
        BY <1>3, OneLessIsFit
  <2>3. Len(stream[s]) < StreamCap => Append(stream[s], "message") \in Upto({"message"}, StreamCap)
        BY <1>3, OneMoreIsFit
  <2> QED BY <1>3, <2>1, <2>2, <2>3
<1>6. \A q \in Ended' : channel'[q] = << >>
  <2> TAKE q \in Ended'
  <2>1. q \in Subscribers /\ forwarder'[q] = "ended"
        BY DEF Ended
  <2>2. q # s => channel'[q] = << >>
    <3>1. SUFFICES ASSUME q # s PROVE channel'[q] = << >>
          OBVIOUS
    <3>2. forwarder'[q] = forwarder[q]
          BY <1>0, <1>1, <2>1, <3>1
    <3>3. channel[q] = << >>
          BY <1>0, <2>1, <3>2 DEF ChannelsFit, Ended
    <3>4. \E x : channel' = [channel EXCEPT ![s] = x] \/ channel' = channel
          BY DEF Receive, SendToClient, SendersGone, ClientReads, ClientLeaves
    <3> QED BY <1>3, <2>1, <3>1, <3>3, <3>4
  <2>3. q = s => channel'[q] = << >>
    <3>1. SUFFICES ASSUME forwarder'[s] = "ended" PROVE channel'[s] = << >>
          BY <2>1
    <3>2. CASE Receive(s)
          BY <1>0, <3>1, <3>2 DEF Receive
    <3>3. CASE SendToClient(s)
          BY <1>0, <1>3, <3>1, <3>3 DEF SendToClient
    <3>4. CASE SendersGone(s)
          BY <3>4 DEF SendersGone
    <3>5. CASE ClientReads(s) \/ ClientLeaves(s)
      <4>1. forwarder' = forwarder /\ channel' = channel
            BY <3>5 DEF ClientReads, ClientLeaves
      <4> QED BY <1>0, <3>1, <4>1 DEF ChannelsFit, Ended
    <3> QED BY <3>2, <3>3, <3>4, <3>5
  <2> QED BY <2>2, <2>3
<1>7. ChannelsFit'
      BY <1>4, <1>5, <1>6 DEF ChannelsFit
<1> QED BY <1>1, <1>2, <1>7, RegistryStays DEF RouterFits

LEMMA RouterFitsStay ==
  ASSUME RouterFits, [RouterNext]_routerVars
  PROVE  RouterFits'
<1>1. CASE UNCHANGED routerVars
      BY <1>1 DEF routerVars, RouterFits, ChannelsFit, Known, Ended
<1>2. CASE RemoveApp
  <2>1. registry' = NoList /\ cuts' = cuts + 1 /\ UNCHANGED <<channel, forwarder, stream, delivery>>
        BY <1>2 DEF RemoveApp
  <2> QED BY <2>1 DEF RouterFits, ChannelsFit, Ended
<1>3. ASSUME NEW s \in Subscribers, SubscribeData(s)
      PROVE  RouterFits'
  <2>1. /\ forwarder[s] = "new" /\ registry' = Append(Senders, s)
        /\ forwarder' = [forwarder EXCEPT ![s] = "waiting"]
        /\ UNCHANGED <<channel, stream, delivery, cuts>>
        BY <1>3 DEF SubscribeData
  <2>2. forwarder \in [Subscribers -> {"new", "waiting", "sending", "ended"}] /\ ChannelsFit
        BY DEF RouterFits
  <2>3. s \notin Known /\ Known' = Known \cup {s} /\ Ended' = Ended
        BY <2>1, <2>2 DEF Known, Ended
  <2>4. registry' \in Lists(Known')
        BY <2>1, <2>3, SendersFit, ListGrows
  <2>5. ChannelsFit'
        BY <2>1, <2>2, <2>3 DEF ChannelsFit
  <2> QED BY <2>1, <2>2, <2>4, <2>5 DEF RouterFits
<1> QED BY <1>1, <1>2, <1>3, CallsFit, ForwardersFit DEF RouterNext

LEMMA RouterIsTyped ==
  /\ RouterInit => RouterFits
  /\ RouterFits => DataRouterTypeOK
<1>1. ASSUME RouterInit PROVE RouterFits
  <2>1. << >> \in Upto(Topics, SenderCap) /\ << >> \in Upto({"message"}, StreamCap)
        BY RouterAssumption, NoneIsFit
  <2>2. /\ channel = [s \in Subscribers |-> << >>] /\ stream = [s \in Subscribers |-> << >>]
        BY <1>1 DEF RouterInit
  <2>3. Ended = {}
        BY <1>1 DEF RouterInit, Ended
  <2>4. ChannelsFit
        BY <2>1, <2>2, <2>3 DEF ChannelsFit
  <2> QED BY <1>1, <2>4 DEF RouterInit, RouterFits
<1>2. ASSUME RouterFits PROVE DataRouterTypeOK
  <2>1. ToSet(Senders) \subseteq Subscribers /\ IsInjective(Senders)
        BY <1>2, SendersFit DEF ToSet
  <2> QED BY <1>2, <2>1 DEF RouterFits, ChannelsFit, Upto, DataRouterTypeOK
<1> QED BY <1>1, <1>2


(* The two channels of the client keep to their room, and the broker knows   *)
(* the subscription only while it is connected                               *)
ClientFits ==
  /\ Len(requests) <= RequestCap /\ Len(commandQueue) <= CommandCap
  /\ subscribed => connected

LEMMA ClientStaysFit ==
  ASSUME MqttInv, ClientFits, [MqttNext]_mqttVars
  PROVE  ClientFits'
<1>0. /\ requests \in Seq(Request) /\ commandQueue \in Seq(Commands)
      /\ mqttWorker \in MqttWorkers /\ listener \in Listeners
      /\ RequestCap \in Nat /\ CommandCap \in Nat
      BY MqttAssumption DEF MqttInv, MqttTypes
<1>1. Len(requests) \in Nat /\ Len(commandQueue) \in Nat
      BY <1>0
<1>2. Len(requests') <= RequestCap
  <2>1. ASSUME NEW e, Room, requests' = Append(requests, e)
        PROVE  Len(requests') <= RequestCap
    <3>1. Len(requests') = Len(requests) + 1
          BY <1>0, <2>1
    <3> QED BY <1>0, <1>1, <2>1, <3>1 DEF Room
  <2>2. ASSUME requests # << >>, requests' = Tail(requests)
        PROVE  Len(requests') <= RequestCap
    <3>1. Len(requests') = Len(requests) - 1
          BY <1>0, <2>2
    <3> QED BY <1>0, <1>1, <3>1 DEF ClientFits
  <2>3. \/ requests' = requests
        \/ \E e : Room /\ requests' = Append(requests, e)
        \/ requests # << >> /\ requests' = Tail(requests)
        BY DEF MqttNext, mqttVars, Put, SubscribeCommands, HandleCommand, PublishCommandAck,
               TakeSubscription, Subscribe, PollSends, HandOver, PollFails, WakeUp, PollConnects,
               Publish, PollReceives, CommandUndelivered
  <2> QED BY <2>1, <2>2, <2>3 DEF ClientFits
<1>3. Len(commandQueue') <= CommandCap
  <2>1. CASE HandleCommand
    <3>1. commandQueue # << >> /\ commandQueue' = Tail(commandQueue)
          BY <2>1 DEF HandleCommand
    <3>2. Len(commandQueue') = Len(commandQueue) - 1
          BY <1>0, <3>1
    <3> QED BY <1>0, <1>1, <3>2 DEF ClientFits
  <2>2. CASE HandOver
        BY <2>2 DEF HandOver
  <2>3. ASSUME ~HandleCommand, ~HandOver PROVE commandQueue' = commandQueue
        BY <2>3 DEF MqttNext, mqttVars, SubscribeCommands, PublishCommandAck,
               TakeSubscription, Subscribe, PollSends, PollFails, WakeUp, PollConnects,
               Publish, PollReceives, CommandUndelivered
  <2> QED BY <2>1, <2>2, <2>3 DEF ClientFits
<1>4. subscribed' => connected'
  <2>1. CASE PollSends
        BY <2>1 DEF PollSends
  <2>2. CASE PollFails
        BY <2>2 DEF PollFails
  <2>3. CASE PollConnects
        BY <2>3 DEF PollConnects
  <2>4. ASSUME ~PollSends, ~PollFails, ~PollConnects
        PROVE  UNCHANGED <<connected, subscribed>>
        BY <2>4 DEF MqttNext, mqttVars, SubscribeCommands, HandleCommand, PublishCommandAck,
               TakeSubscription, Subscribe, HandOver, WakeUp,
               Publish, PollReceives, CommandUndelivered
  <2> QED BY <2>1, <2>2, <2>3, <2>4 DEF ClientFits
<1> QED BY <1>2, <1>3, <1>4 DEF ClientFits

LEMMA MqttIsTyped ==
  /\ MqttInit => ClientFits
  /\ MqttInv /\ ClientFits => MqttTypeOK
<1>1. MqttInit => ClientFits
      BY MqttAssumption DEF MqttInit, ClientFits
<1>2. MqttInv /\ ClientFits => MqttTypeOK
      BY DEF MqttInv, SubscribesOnce, ClientFits, MqttTypeOK
<1> QED BY <1>1, <1>2


(* Versions: none is announced, sent for or in a bundle that was not counted *)
TelemetryFits ==
  /\ inMemory \in RequestLists /\ announced.version \in 1..version
  /\ \A c \in ProfileClients : request[c].step = "send" => request[c].version \in 1..version
  /\ \A b \in bundles : b.version \in 1..version /\ b.sections \subseteq b.profile.includes

LEMMA ConfiguredIsList == ASSUME file \in RequestLists PROVE Configured \in RequestLists
BY ProfileFields DEF Configured

LEMMA TelemetryStaysFit ==
  ASSUME ProfileTypes, TelemetryFits, [ProfileNext]_profileVars
  PROVE  TelemetryFits'
<1>0. /\ file \in RequestLists /\ version \in Nat /\ request \in [ProfileClients -> Calls]
      /\ inMemory \in RequestLists /\ announced.version \in 1..version
      /\ \A c \in ProfileClients : request[c].step = "send" => request[c].version \in 1..version
      /\ \A b \in bundles : b.version \in 1..version /\ b.sections \subseteq b.profile.includes
      BY DEF ProfileTypes, TelemetryFits
<1>1. ASSUME UNCHANGED <<inMemory, version, announced, request>>, bundles' \subseteq bundles
      PROVE  TelemetryFits'
      BY <1>0, <1>1 DEF TelemetryFits
<1>2. CASE UNCHANGED profileVars \/ TelemetryClock \/ Rebuild \/ StartCollecting \/ PublishBundle
      BY <1>1, <1>2 DEF profileVars, TelemetryClock, Rebuild, StartCollecting, PublishBundle
<1>3. CASE CollectDueBundles
  <2> DEFINE due == publisher.due
             made == [i \in due |-> Bundle(scheduler[i].profile, Collected(due), announced.version)]
  <2>1. /\ bundles' = bundles \cup {[made[i] EXCEPT !.at = publisher.at] : i \in due}
        /\ UNCHANGED <<inMemory, version, announced, request>>
        BY <1>3 DEF CollectDueBundles
  <2>2. ASSUME NEW i \in due
        PROVE  LET b == [made[i] EXCEPT !.at = publisher.at] IN
               b.version \in 1..version /\ b.sections \subseteq b.profile.includes
    <3>1. made[i] = [profile |-> scheduler[i].profile, version |-> announced.version, at |-> now,
                     sections |-> Collected(due) \cap scheduler[i].profile.includes]
          BY DEF Bundle
    <3> DEFINE b == [made[i] EXCEPT !.at = publisher.at]
    <3>2. /\ b.version = announced.version /\ b.profile = scheduler[i].profile
          /\ b.sections = Collected(due) \cap scheduler[i].profile.includes
          BY <3>1
    <3> HIDE DEF b
    <3>3. b.version \in 1..version /\ b.sections \subseteq b.profile.includes
          BY <1>0, <3>2
    <3> QED BY <3>3 DEF b
  <2> HIDE DEF due, made
  <2>3. \A b \in bundles' : b.version \in 1..version /\ b.sections \subseteq b.profile.includes
        BY <1>0, <2>1, <2>2
  <2> QED BY <1>0, <2>1, <2>3 DEF TelemetryFits
<1>4. CASE RestartTelemetry
  <2>1. /\ inMemory' = Configured /\ version' = 1
        /\ announced' = [version |-> 1, profiles |-> Configured] /\ bundles' = {}
        /\ request' = [c \in ProfileClients |-> None]
        BY <1>4 DEF RestartTelemetry
  <2>2. \A c \in ProfileClients : request'[c].step # "send"
        BY <2>1, CallFields
  <2>3. announced'.version \in 1..version'
        BY <2>1
  <2> QED BY <1>0, <2>1, <2>2, <2>3, ConfiguredIsList DEF TelemetryFits
<1>5. ASSUME NEW c \in ProfileClients,
             UNCHANGED <<version, announced, bundles>>, inMemory' \in RequestLists,
             NEW r, r.step # "send", request' = [request EXCEPT ![c] = r]
      PROVE  TelemetryFits'
      BY <1>0, <1>5 DEF TelemetryFits
<1>6. ASSUME NEW c \in ProfileClients, CallReplace(c)
      PROVE  TelemetryFits'
  <2>1. PICK list : request' = [request EXCEPT ![c] = [step |-> "persist", list |-> list]]
        BY <1>6 DEF CallReplace
  <2>2. UNCHANGED <<version, announced, bundles, inMemory>>
        BY <1>6 DEF CallReplace
  <2>3. [step |-> "persist", list |-> list].step # "send"
        OBVIOUS
  <2> QED BY <1>0, <1>5, <2>1, <2>2, <2>3
<1>7. ASSUME NEW c \in ProfileClients, PersistProfiles(c)
      PROVE  TelemetryFits'
  <2>1. RequestTo(c, "store") \/ request' = [request EXCEPT ![c] = None]
        BY <1>7 DEF PersistProfiles
  <2>2. UNCHANGED <<version, announced, bundles, inMemory>>
        BY <1>7 DEF PersistProfiles
  <2>3. request[c] = [step |-> "persist", list |-> request[c].list]
        BY <1>0, <1>7, CallFields DEF PersistProfiles, RequestAt
  <2>4. [request[c] EXCEPT !.step = "store"].step # "send" /\ None.step # "send"
        BY <2>3, CallFields
  <2>5. CASE RequestTo(c, "store")
    <3>1. request' = [request EXCEPT ![c] = [request[c] EXCEPT !.step = "store"]]
          BY <2>5 DEF RequestTo
    <3> QED BY <1>0, <1>5, <2>2, <2>4, <3>1
  <2> QED BY <1>0, <1>5, <2>1, <2>2, <2>4, <2>5
<1>8. ASSUME NEW c \in ProfileClients, StoreProfiles(c)
      PROVE  TelemetryFits'
  <2>1. /\ RequestTo(c, "count") /\ inMemory' = request[c].list
        /\ UNCHANGED <<version, announced, bundles>>
        BY <1>8 DEF StoreProfiles
  <2>2. request[c] = [step |-> "store", list |-> request[c].list] /\ request[c].list \in RequestLists
        BY <1>0, <1>8, CallFields DEF StoreProfiles, RequestAt
  <2>3. [request[c] EXCEPT !.step = "count"].step # "send"
        BY <2>2
  <2>4. request' = [request EXCEPT ![c] = [request[c] EXCEPT !.step = "count"]]
        BY <2>1 DEF RequestTo
  <2> QED BY <1>5, <2>1, <2>2, <2>3, <2>4
<1>9. ASSUME NEW c \in ProfileClients, CountVersion(c)
      PROVE  TelemetryFits'
  <2>1. /\ version' = version + 1 /\ UNCHANGED <<inMemory, announced, bundles>>
        /\ request' = [request EXCEPT
             ![c] = [step |-> "send", list |-> request[c].list, version |-> version + 1]]
        BY <1>9 DEF CountVersion
  <2>2. 1..version \subseteq 1..version' /\ version + 1 \in 1..version'
        BY <1>0, <2>1
  <2>3. [step |-> "send", list |-> request[c].list, version |-> version + 1].version = version + 1
        OBVIOUS
  <2>4. \A d \in ProfileClients : request'[d].step = "send" => request'[d].version \in 1..version'
    <3> DEFINE r == [step |-> "send", list |-> request[c].list, version |-> version + 1]
    <3>1. r.version \in 1..version' /\ request' = [request EXCEPT ![c] = r]
          BY <2>1, <2>2
    <3> HIDE DEF r
    <3> QED BY <1>0, <2>2, <3>1
  <2>5. announced'.version \in 1..version'
        BY <1>0, <2>1, <2>2
  <2>6. \A b \in bundles' : b.version \in 1..version' /\ b.sections \subseteq b.profile.includes
        BY <1>0, <2>1, <2>2
  <2> QED BY <1>0, <2>1, <2>4, <2>5, <2>6 DEF TelemetryFits
<1>10. ASSUME NEW c \in ProfileClients, SendProfiles(c)
       PROVE  TelemetryFits'
  <2>1. /\ request[c].step = "send"
        /\ announced' = [version |-> request[c].version, profiles |-> request[c].list]
        /\ request' = [request EXCEPT ![c] = None] /\ UNCHANGED <<inMemory, version, bundles>>
        BY <1>10 DEF SendProfiles, RequestAt
  <2>2. announced'.version \in 1..version
        BY <1>0, <2>1
  <2>3. \A d \in ProfileClients : request'[d].step = "send" => request'[d].version \in 1..version
        BY <1>0, <2>1, CallFields
  <2> QED BY <1>0, <2>1, <2>2, <2>3 DEF TelemetryFits
<1> QED BY <1>2, <1>3, <1>4, <1>6, <1>7, <1>8, <1>9, <1>10 DEF ProfileNext

LEMMA TelemetryIsTyped ==
  /\ ProfileInit => TelemetryFits
  /\ ProfileTypes /\ TelemetryFits => TelemetryTypeOK
<1>1. ASSUME ProfileInit PROVE TelemetryFits
  <2>1. /\ inMemory = Configured /\ file = FirstProfiles /\ version = 1
        /\ announced = [version |-> 1, profiles |-> Configured] /\ bundles = {}
        /\ request = [c \in ProfileClients |-> None]
        BY <1>1 DEF ProfileInit
  <2>2. \A c \in ProfileClients : request[c].step # "send"
        BY <2>1, CallFields
  <2>3. announced.version \in 1..version
        BY <2>1
  <2> QED BY <2>1, <2>2, <2>3, ConfiguredIsList, ProfileFields DEF TelemetryFits
<1>2. ASSUME ProfileTypes, TelemetryFits PROVE TelemetryTypeOK
  <2>1. ValidProfiles(file) /\ ValidProfiles(inMemory)
        BY <1>2 DEF ProfileTypes, TelemetryFits, RequestLists
  <2>2. announced.version <= version
        BY <1>2 DEF ProfileTypes, TelemetryFits
  <2>3. /\ seen <= sends
        /\ \A b \in bundles : b.version \in 1..version /\ b.sections \subseteq b.profile.includes
        BY <1>2 DEF ProfileTypes, TelemetryFits
  <2> QED BY <2>1, <2>2, <2>3 DEF TelemetryTypeOK
<1> QED BY <1>1, <1>2


(* The monitors' statuses and the calls of the network monitor               *)
MonitorsFit ==
  /\ monitor.status \in {"running", "stopped"}
  /\ netCall \in [Collectors -> {"idle", "counted", "waits"}]

LEMMA MonitorsStayFit ==
  ASSUME MonitorsCollect, MonitorsFit,
         \/ PluginNext /\ UNCHANGED networkMonitorVars
         \/ NetworkMonitorNext /\ UNCHANGED pluginVars
         \/ UNCHANGED <<pluginVars, networkMonitorVars>>
  PROVE  MonitorsFit'
<1>0. /\ monitor.status \in {"running", "stopped"}
      /\ netCall \in [Collectors -> {"idle", "counted", "waits"}]
      BY DEF MonitorsFit
<1>1. CASE UNCHANGED monitor /\ netCall' \in [Collectors -> {"idle", "counted", "waits"}]
      BY <1>0, <1>1 DEF MonitorsFit
<1>2. CASE NetworkMonitorNext /\ UNCHANGED pluginVars
  <2>1. netCall' \in [Collectors -> {"idle", "counted", "waits"}]
        BY <1>0, <1>2 DEF NetworkMonitorNext, CollectCounters, ReadPreviousCounters
  <2> QED BY <1>1, <1>2, <2>1 DEF pluginVars
<1>3. CASE UNCHANGED <<pluginVars, networkMonitorVars>>
      BY <1>0, <1>1, <1>3 DEF pluginVars, networkMonitorVars
<1>4. ASSUME PluginNext, UNCHANGED networkMonitorVars
      PROVE  MonitorsFit'
  <2>1. UNCHANGED netCall
        BY <1>4 DEF networkMonitorVars
  <2>2. CASE \E s \in Settings : InitMonitor(s)
    <3>1. PICK s \in Settings :
            \/ monitor' = [monitor EXCEPT !.interval = 0]
            \/ monitor' = [monitor EXCEPT
                 !.interval = s.interval, !.status = "running",
                 !.top = IF s.top = NotANumber THEN @ ELSE s.top]
          BY <2>2 DEF InitMonitor
    <3>2. CASE monitor' = [monitor EXCEPT !.interval = 0]
      <4>1. monitor' = [status |-> monitor.status, interval |-> 0,
                        top |-> monitor.top, collected |-> monitor.collected]
            BY <3>2, MonitorIs
      <4> QED BY <1>0, <2>1, <4>1 DEF MonitorsFit
    <3>3. CASE monitor' = [monitor EXCEPT
                 !.interval = s.interval, !.status = "running",
                 !.top = IF s.top = NotANumber THEN @ ELSE s.top]
      <4> DEFINE top == IF s.top = NotANumber THEN monitor.top ELSE s.top
      <4>1. monitor' = [monitor EXCEPT !.interval = s.interval, !.status = "running", !.top = top]
            BY <3>3
      <4> HIDE DEF top
      <4>2. monitor' = [status |-> "running", interval |-> s.interval,
                        top |-> top, collected |-> monitor.collected]
            BY <4>1, MonitorIs
      <4> QED BY <1>0, <2>1, <4>2 DEF MonitorsFit
    <3> QED BY <3>1, <3>2, <3>3
  <2>3. CASE StartMonitor \/ StopMonitor
    <3>1. PICK status \in {"running", "stopped"} : monitor' = [monitor EXCEPT !.status = status]
          BY <2>3 DEF StartMonitor, StopMonitor
    <3>2. monitor' = [status |-> status, interval |-> monitor.interval,
                      top |-> monitor.top, collected |-> monitor.collected]
          BY <3>1, MonitorIs
    <3> QED BY <1>0, <2>1, <3>2 DEF MonitorsFit
  <2>4. ASSUME NEW c \in Collectors, RecordCollection(c)
        PROVE  MonitorsFit'
    <3>1. monitor' = [monitor EXCEPT !.collected = monitor.collected + 1]
          BY <2>4 DEF RecordCollection
    <3>2. monitor' = [status |-> monitor.status, interval |-> monitor.interval,
                      top |-> monitor.top, collected |-> monitor.collected + 1]
          BY <3>1, MonitorIs
    <3> QED BY <1>0, <2>1, <3>2 DEF MonitorsFit
  <2>5. ASSUME NEW c \in Collectors,
               CallCollect(c) \/ Refresh(c) \/ ReadSystem(c) \/ ReturnCollection(c)
        PROVE  MonitorsFit'
        BY <1>0, <1>1, <2>1, <2>5 DEF CallCollect, Refresh, ReadSystem, ReturnCollection
  <2>6. CASE SystemChanges
        BY <1>0, <1>1, <2>1, <2>6 DEF SystemChanges
  <2> QED BY <1>4, <2>2, <2>3, <2>4, <2>5, <2>6 DEF PluginNext
<1> QED BY <1>2, <1>3, <1>4

LEMMA MonitorsAreTyped ==
  /\ MonitorInit => MonitorsFit
  /\ MonitorsCollect /\ Sampled /\ MonitorsFit => MonitorTypeOK
<1>1. MonitorInit => MonitorsFit
      BY DEF MonitorInit, MonitorsFit
<1>2. ASSUME MonitorsCollect, Sampled, MonitorsFit PROVE MonitorTypeOK
  <2>1. log \in Seq(Systems) /\ held \in 1..Len(log)
        BY <1>2 DEF MonitorsCollect
  <2>2. \A i \in 1..Len(log) : log[i].processes \subseteq Process
        BY <2>1, MonitorAssumption
  <2> QED BY <1>2, <2>1, <2>2 DEF MonitorsFit, Sampled, MonitorTypeOK
<1> QED BY <1>1, <1>2


-----------------------------------------------------------------------------
(* Every part in its types, on its own and beside the others                *)

(* What the invariant of a part says and its histories add is its type.     *)
LEMMA SecurityKeepsTypes == SecuritySpec => []SecurityTypeOK
BY SecurityTypesStay, SecurityIsTyped, PTL DEF SecuritySpec

LEMMA ScriptKeepsTypes == ScriptSpec => []ScriptStoreTypeOK
<1>1. ScriptInv /\ ExecutionsFit /\ [ScriptNext]_scriptVars => ExecutionsFit'
      BY ExecutionsStay
<1> QED BY <1>1, ScriptIsTyped, ScriptInvariant, PTL DEF ScriptSpec

LEMMA RenderKeepsTypes == RenderSpec => []ScriptEngineTypeOK
BY RenderingIsTyped, PTL DEF RenderSpec

LEMMA PlanKeepsTypes == PlanSpec => []BatchPlanTypeOK
BY PlanIsTyped, PTL DEF PlanSpec

LEMMA AlertKeepsTypes == AlertSpec => []AlertEngineTypeOK
<1>1. AlertTables /\ AlertTypes /\ [AlertNext]_alertVars => AlertTypes'
      BY AlertTypesStay
<1>2. AlertInv => AlertTables
      BY DEF AlertInv
<1> QED BY <1>1, <1>2, AlertIsTyped, AlertInvariant, PTL DEF AlertSpec

LEMMA RouterKeepsTypes == RouterSpec => []DataRouterTypeOK
BY RouterFitsStay, RouterIsTyped, PTL DEF RouterSpec

LEMMA MqttKeepsTypes == MqttSpec => []MqttTypeOK
<1>1. MqttInv /\ ClientFits /\ [MqttNext]_mqttVars => ClientFits'
      BY ClientStaysFit
<1> QED BY <1>1, MqttIsTyped, MqttInvariant, PTL DEF MqttSpec

LEMMA ProfileKeepsTypes == ProfileSpec => []TelemetryTypeOK
<1>1. ProfileTypes /\ TelemetryFits /\ [ProfileNext]_profileVars => TelemetryFits'
      BY TelemetryStaysFit
<1>2. ProfileInv => ProfileTypes
      BY DEF ProfileInv
<1> QED BY <1>1, <1>2, TelemetryIsTyped, ProfileInvariant, PTL DEF ProfileSpec

LEMMA TransferKeepsTypes == TransferSpec => []TransferTypeOK
<1>1. TransferInv => TransferTypeOK
  <2> SUFFICES ASSUME TransferInv PROVE TransferTypeOK
      OBVIOUS
  <2>1. \A f \in ManagedFiles : named[f] \in Inodes \cup {NoFile}
        BY InodesAreNotNoFile DEF TransferInv, NamesFit, Inodes
  <2>2. \A i \in Inodes : content[i] \in BoundedFiles
        BY DEF TransferInv, TransferTables
  <2>3. \A u \in Uploads : upload[u].file \in Inodes \cup {NoFile}
        BY DEF TransferInv, TransferTables, UploadFits, UploadCalls
  <2>4. shared \subseteq Uploads \cup Downloads
        BY DEF TransferInv, TransferTables
  <2> QED BY <2>1, <2>2, <2>3, <2>4 DEF TransferTypeOK, BoundedFiles
<1> QED BY <1>1, TransferInvariant, PTL

LEMMA MonitorsKeepTypes == MonitorSpec => []MonitorTypeOK
<1>1. MonitorsCollect /\ MonitorsFit /\ [MonitorNext]_<<pluginVars, networkMonitorVars, samplerVars>>
      => MonitorsFit'
  <2> SUFFICES ASSUME MonitorsCollect, MonitorsFit,
                      [MonitorNext]_<<pluginVars, networkMonitorVars, samplerVars>>
               PROVE  MonitorsFit'
      OBVIOUS
  <2>1. \/ PluginNext /\ UNCHANGED networkMonitorVars
        \/ NetworkMonitorNext /\ UNCHANGED pluginVars
        \/ UNCHANGED <<pluginVars, networkMonitorVars>>
        BY DEF MonitorNext
  <2> QED BY <2>1, MonitorsStayFit
<1> QED BY <1>1, MonitorsAreTyped, MonitorInvariant, PTL DEF MonitorSpec

(* Side by side, every part takes its own steps and no other part's.        *)
LEMMA PartsStart ==
  ServicesInit => /\ part \in Parts /\ StoresInit /\ ScriptInit /\ RenderInit /\ PlanInit
                  /\ AlertInit /\ RouterInit /\ ProfileInit /\ MqttInit /\ SecurityInit
                  /\ TransferInit /\ MonitorInit
BY DEF ServicesInit, StoresInit

LEMMA PartsStep ==
  ASSUME [ServicesNext]_servicesVars
  PROVE  /\ UNCHANGED part
         /\ [StoresNext]_<<tagVars, groupVars, batchVars>>
         /\ [ScriptNext]_scriptVars /\ [RenderNext]_rendering /\ [PlanNext]_plan
         /\ [AlertNext]_alertVars /\ [RouterNext]_routerVars /\ [ProfileNext]_profileVars
         /\ [MqttNext]_mqttVars /\ [SecurityNext]_securityVars /\ [TransferNext]_transferVars
         /\ [MonitorNext]_<<pluginVars, networkMonitorVars, samplerVars>>
<1>1. CASE UNCHANGED servicesVars
      BY <1>1 DEF servicesVars
<1>2. CASE ServicesNext
  <2>1. OthersStay
        BY <1>2 DEF ServicesNext
  <2>2. /\ part # "tags" => UNCHANGED tagVars
        /\ part # "groups" => UNCHANGED groupVars
        /\ part # "batches" => UNCHANGED batchVars
        /\ part # "scripts" => UNCHANGED scriptVars
        /\ part # "rendering" => UNCHANGED rendering
        /\ part # "plan" => UNCHANGED plan
        /\ part # "alerts" => UNCHANGED alertVars
        /\ part # "router" => UNCHANGED routerVars
        BY <2>1 DEF OthersStay, Keep
  <2>3. /\ part # "profiles" => UNCHANGED profileVars
        /\ part # "mqtt" => UNCHANGED mqttVars
        /\ part # "security" => UNCHANGED securityVars
        /\ part # "files" => UNCHANGED transferVars
        /\ part # "plugins" => UNCHANGED pluginVars
        /\ part # "network" => UNCHANGED networkMonitorVars
        /\ part # "sampler" => UNCHANGED samplerVars
        BY <2>1 DEF OthersStay, Keep
  <2>4. /\ part = "tags" => TagNext
        /\ part = "groups" => GroupNext
        /\ part = "batches" => BatchNext
        /\ part = "scripts" => ScriptNext
        /\ part = "rendering" => RenderNext
        /\ part = "plan" => PlanNext
        /\ part = "alerts" => AlertNext
        /\ part = "router" => RouterNext
        /\ part = "profiles" => ProfileNext
        /\ part = "mqtt" => MqttNext
        /\ part = "security" => SecurityNext
        /\ part = "files" => TransferNext
        /\ part = "plugins" => PluginNext
        /\ part = "network" => NetworkMonitorNext
        /\ part = "sampler" => SamplerNext
        BY <1>2 DEF ServicesNext
  <2>5. [StoresNext]_<<tagVars, groupVars, batchVars>>
        BY <2>2, <2>4 DEF StoresNext
  <2>6. [MonitorNext]_<<pluginVars, networkMonitorVars, samplerVars>>
        BY <2>3, <2>4 DEF MonitorNext
  <2> QED BY <2>1, <2>2, <2>3, <2>4, <2>5, <2>6 DEF OthersStay
<1> QED BY <1>1, <1>2

LEMMA PartsBehave ==
  ServicesSpec => /\ StoresSpec /\ ScriptSpec /\ RenderSpec /\ PlanSpec /\ AlertSpec
                  /\ RouterSpec /\ ProfileSpec /\ MqttSpec /\ SecuritySpec /\ TransferSpec
                  /\ MonitorSpec
BY PartsStart, PartsStep, PTL
DEF ServicesSpec, StoresSpec, ScriptSpec, RenderSpec, PlanSpec, AlertSpec, RouterSpec,
    ProfileSpec, MqttSpec, SecuritySpec, TransferSpec, MonitorSpec

(* Whatever the parts of the agent do side by side, each keeps its          *)
(* variables in their types and its queues, histories, tables and files     *)
(* within their limits.                                                     *)
THEOREM ServicesAreTyped == ServicesSpec => []ServicesTypeOK
<1>1. ServicesInit => part \in Parts
      BY PartsStart
<1>2. part \in Parts /\ [ServicesNext]_servicesVars => (part \in Parts)'
      BY PartsStep
<1>3. ServicesSpec => [](part \in Parts)
      BY <1>1, <1>2, PTL DEF ServicesSpec
<1> QED BY <1>3, PartsBehave, StoresAreTyped, ScriptKeepsTypes, RenderKeepsTypes,
           PlanKeepsTypes, AlertKeepsTypes, RouterKeepsTypes, ProfileKeepsTypes,
           MqttKeepsTypes, SecurityKeepsTypes, TransferKeepsTypes, MonitorsKeepTypes, PTL
        DEF ServicesTypeOK


(* Side by side, each part keeps the promise it keeps on its own: caches    *)
(* agree with tables, acknowledged changes survive, renderings are          *)
(* complete, plans exact, alerts due, profiles in effect, subscribers and   *)
(* commands served, requests allowed once, transfers and samples exact.     *)
THEOREM ServicesKeepTheirPromises ==
  ServicesSpec => [](/\ StoresAgree /\ ChangesSurvive /\ RenderedIsComplete /\ PlanIsExact
                     /\ AlertsAreDue /\ ProfilesTakeEffect /\ LiveSubscribersStay
                     /\ CommandsAreHandled /\ AllowedOnce /\ TransfersAreExact
                     /\ SamplesAreExact)
BY PartsBehave, CachesAgreeWithTables, AcknowledgedChangesSurvive, RenderedIsAlwaysComplete,
   PlansAreExact, AlertsAreDueAlways, ProfilesAlwaysTakeEffect, LiveSubscribersAlwaysStay,
   CommandsAreAlwaysHandled, RequestsAreAllowedOnce, LoneTransfersAreExact,
   AnswersAreOfTheirMoment, PTL

=============================================================================
