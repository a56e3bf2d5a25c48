------------------------ MODULE UnboundManagerProofs ------------------------
(***************************************************************************)
(* What the commands of update() achieve, for every pair of tables.        *)
(***************************************************************************)
EXTENDS UnboundManager, TLAPS

\* The time that each prover has for a step
USE SMTT(30), ZenonT(30)

\* A table maps each of its domains to a list of servers that is not empty.
IsTable(table, S) == \A d \in DOMAIN table : table[d] \in Seq(S) \ {<<>>}

AllChanged(new, old) == DomainsToAdd(new, old) \cup DomainsToRemove(new, old)

\* compare_servers looks at everything that goes into a forward_add command:
\* lists it finds equal lead to the same command.
LEMMA SameCommand ==
    ASSUME NEW S, NEW a \in Seq(S) \ {<<>>}, NEW b \in Seq(S) \ {<<>>}, SameServers(a, b)
    PROVE  GetForwardAddCommand(a) = GetForwardAddCommand(b)
<1>1. DOMAIN a = DOMAIN b /\ 1 \in DOMAIN a
    BY DEF SameServers
<1>2. \A i \in DOMAIN a : /\ a[i].addr = b[i].addr
                          /\ a[i].dnssec = b[i].dnssec
                          /\ a[i].protocol = b[i].protocol
    BY DEF SameServers
<1>3. Addresses(a) = Addresses(b)
    BY <1>1, <1>2 DEF Addresses
<1> QED
    BY <1>1, <1>2, <1>3 DEF GetForwardAddCommand

\* If Unbound serves the old table, the commands of update() make it serve
\* the new one: the difference of the tables that update() computes with
\* compare_servers is large enough, whatever the two tables are.
THEOREM CommandsConverge ==
    ASSUME NEW S, NEW old, NEW new, NEW forwards,
           IsTable(old, S), IsTable(new, S), Serves(forwards, old)
    PROVE  Serves(ApplyCommands(forwards, new, old, AllChanged(new, old)), new)
<1> DEFINE after == ApplyCommands(forwards, new, old, AllChanged(new, old))
<1> SUFFICES ASSUME NEW d \in Domain
             PROVE  after[d] = IF d \in DOMAIN new THEN GetForwardAddCommand(new[d])
                                                   ELSE RemoveDomain(d)
    BY DEF Serves
<1>1. CASE d \in DomainsToAdd(new, old)
    BY <1>1 DEF ApplyCommands, AllChanged, DomainsToAdd
<1>2. CASE d \in DomainsToRemove(new, old)
    BY <1>2 DEF ApplyCommands, AllChanged, DomainsToAdd, DomainsToRemove
<1>3. CASE d \notin AllChanged(new, old)
  <2>1. after[d] = forwards[d]
    BY <1>3 DEF ApplyCommands, AllChanged
  <2>2. CASE d \in DOMAIN new
    <3>1. d \in DOMAIN old /\ SameServers(new[d], old[d])
      BY <1>3, <2>2 DEF AllChanged, DomainsToAdd
    <3>2. GetForwardAddCommand(new[d]) = GetForwardAddCommand(old[d])
      BY <2>2, <3>1, SameCommand DEF IsTable
    <3> QED
      BY <2>1, <2>2, <3>1, <3>2 DEF Serves
  <2>3. CASE d \notin DOMAIN new
    <3>1. d \notin DOMAIN old
      BY <1>3, <2>3 DEF AllChanged, DomainsToRemove
    <3> QED
      BY <2>1, <2>3, <3>1 DEF Serves
  <2> QED
    BY <2>2, <2>3
<1> QED
    BY <1>1, <1>2, <1>3 DEF AllChanged

\* The first update after Unbound was started from the file that
\* write_configuration generated for the same servers and mode: the file
\* and the commands together make Unbound serve the table, in particular
\* the zones of the file that the table does not have are none.
THEOREM FirstUpdateConverges ==
    ASSUME NEW table, NEW mode, NEW old, DOMAIN old = {}
    PROVE  LET used == UsedTable(table, mode)
               file == GenerateForwardZones(table, mode)
           IN  Serves(ApplyCommands(file, used, old, AllChanged(used, old)), used)
<1> DEFINE used == UsedTable(table, mode)
           file == GenerateForwardZones(table, mode)
           after == ApplyCommands(file, used, old, AllChanged(used, old))
<1> HIDE DEF used
<1> SUFFICES ASSUME NEW d \in Domain
             PROVE  after[d] = IF d \in DOMAIN used THEN GetForwardAddCommand(used[d])
                                                    ELSE RemoveDomain(d)
    BY DEF Serves, used
<1>1. CASE d \in DOMAIN used
    BY <1>1 DEF ApplyCommands, AllChanged, DomainsToAdd
<1>2. CASE d \notin DOMAIN used
  <2>1. file[d] = RemoveDomain(d)
    BY <1>2 DEF GenerateForwardZones, RemoveDomain, used
  <2>2. after[d] = file[d]
    BY <1>2 DEF ApplyCommands, AllChanged, DomainsToAdd, DomainsToRemove
  <2> QED
    BY <1>2, <2>1, <2>2
<1> QED
    BY <1>1, <1>2
=============================================================================
