---------------------------- MODULE MachineDetails ----------------------------
(* What get_machine_process.py makes of the answers of the chips: chips, links  *)
(* and cores that the configuration names are taken out, links that lead to a   *)
(* chip that did not answer are not used, nor are cores that are not idle.      *)
EXTENDS Chip, SequencesExt

CONSTANTS
    GlobalXY,           \* [local, root] |-> get_global_xy of the machine's version
    MaxCoresPerChip,
    IgnoreBadEthernets  \* the option ignore_bad_ethernets

Nowhere == <<-1, -1>>
None == -1

P2PTableRoutes(columns, width, height) ==
  {<<x, y>> \in (0 .. width - 1) \X (0 .. height - 1) :
     (Number(columns[x + 1], 4 * (y \div 8), 4) \div 8^(y % 8)) % 8 # 6}
ColumnBytes(height) == ((height + 7) \div 8) * 4
ColumnOffset(column) == ((256 * column) \div 8) * 4

ChipSummaryInfo(d) ==
  [n_cores |-> NumAt(d.flags, 0, 5), working_links |-> Part(d.flags, 8, 6),
   core_states |-> d.states, nearest_ethernet |-> d.nearest,
   ip_address |-> d.ip, parent_link |-> IF d.parent > 6 THEN None ELSE d.parent]

Inverse6(link) == (link + 3) % 6
WithoutLink(infos, c, link) ==
  IF c \in DOMAIN infos THEN [infos EXCEPT ![c].working_links = @ \ {link}] ELSE infos

\* An ignore names a chip of the machine, or of the board with an IP address.
LocalToGlobal(infos, ignore) ==
  LET roots == {c \in DOMAIN infos : infos[c].ip_address = ignore.ip}
      c == IF ignore.ip = 0 THEN ignore.chip
           ELSE IF roots = {} THEN Nowhere
           ELSE GlobalXY[ignore.chip, CHOOSE r \in roots : TRUE]
  IN  IF c \in DOMAIN infos THEN c ELSE Nowhere

IgnoreChip(infos, ignore) ==
  LET c == LocalToGlobal(infos, ignore)
      left == [d \in DOMAIN infos \ {c} |->
                 [infos[d] EXCEPT !.working_links =
                    {l \in @ : ~(/\ OverLink[d, l] = c
                                 /\ Inverse6(l) \in infos[c].working_links)}]]
  IN  IF c = Nowhere THEN infos ELSE left

\* Mutant of IgnoreLink: the link is only taken out at one end.
IgnoreLinkOneWay(infos, ignore) ==
  LET c == LocalToGlobal(infos, ignore) IN
  IF c = Nowhere THEN infos ELSE WithoutLink(infos, c, ignore.link)

IgnoreLink(infos, ignore) ==
  LET c == LocalToGlobal(infos, ignore) IN
  IF c = Nowhere THEN infos
  ELSE WithoutLink(WithoutLink(infos, c, ignore.link),
                   OverLink[c, ignore.link], Inverse6(ignore.link))

\* A positive core is virtual; 0 and below are physical, and the monitor stays.
VirtualP(p_to_v, p) ==
  IF p > 0 THEN p
  ELSE IF -p >= Len(p_to_v) \/ p_to_v[1 - p] \in {0, 255} THEN None ELSE p_to_v[1 - p]
\* The map of a chip that did not answer is not there: the code raises.
CanIgnoreCores(infos, maps, ignores) ==
  \A i \in DOMAIN ignores : LET c == LocalToGlobal(infos, ignores[i]) IN
    c = Nowhere \/ ignores[i].p > 0 \/ c \in DOMAIN maps
IgnoredCores(infos, maps, ignores) ==
  {<<c, p>> \in (DOMAIN infos) \X (0..17) : \E i \in DOMAIN ignores :
     /\ c = LocalToGlobal(infos, ignores[i])
     /\ p = VirtualP(IF c \in DOMAIN maps THEN maps[c] ELSE <<>>, ignores[i].p)}

MakeChip(infos, c, ignored) ==
  LET info == infos[c]
      n == IF info.n_cores < MaxCoresPerChip THEN info.n_cores ELSE MaxCoresPerChip
      down == {p \in 1 .. n - 1 : info.core_states[p + 1] # IDLE} \cup
              {p \in 0..17 : <<c, p>> \in ignored}
  IN  [cores |-> (0 .. n - 1) \ down,
       links |-> {l \in info.working_links : OverLink[c, l] \in DOMAIN infos}]

\* A chip with an IP address that is not its board's Ethernet chip.
BadEthernet(infos, c) == infos[c].ip_address # 0 /\ infos[c].nearest_ethernet # c
FillMachine(infos, ignored) ==
  [c \in {d \in DOMAIN infos : IgnoreBadEthernets \/ ~BadEthernet(infos, d)} |->
     MakeChip(infos, c, ignored)]

\* get_machine_details after the answers; `down` holds the configured ignores.
MachineFrom(infos, maps, down) ==
  LET kept == FoldLeft(IgnoreLink, FoldLeft(IgnoreChip, infos, down.chips), down.links)
  IN  FillMachine(kept, IgnoredCores(kept, maps, down.cores))
\* An ignore by IP address is reported with the root chip, which must still be there.
CanLocate(infos, ignores) ==
  \A i \in DOMAIN ignores :
    ignores[i].ip \in {0} \cup {infos[c].ip_address : c \in DOMAIN infos} =>
      ignores[i].ip = 0 \/ <<0, 0>> \in DOMAIN infos
CanMakeMachine(infos, maps, down) ==
  LET left(n) == FoldLeft(IgnoreChip, infos, SubSeq(down.chips, 1, n))
      kept == left(Len(down.chips))
  IN  /\ \A i \in DOMAIN down.chips : CanLocate(left(i - 1), <<down.chips[i]>>)
      /\ CanLocate(kept, down.links \o down.cores)
      /\ CanIgnoreCores(kept, maps, down.cores)
=============================================================================
