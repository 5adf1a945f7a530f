-------------------------------- MODULE Bringup --------------------------------
(***************************************************************************)
(* From power-on to a board on the network: setup(), Ethernet.begin(mac,   *)
(* timeout) or, for a board with an address of its own, Ethernet.begin(mac, *)
(* ip, ...), the link callback FNET calls in the timer interrupt, and      *)
(* ctrlEthernetThread, which shows the state of the link on two LEDs.      *)
(*                                                                         *)
(* The cable and the DHCP server are external, as is FNET's DHCP client,   *)
(* of which the code sees that it is enabled and that there is an address. *)
(* The LEDs are active low: LOW lights them.                               *)
(***************************************************************************)
EXTENDS Integers

CONSTANTS
    Settings,  \* how the board's switches may be set
    Modes,     \* which begin() setup() calls: "dhcp" (main.ino's) or "static"
    Faults     \* "fnet": the stack fails to start; "dhcp": its client does

ASSUME BringupAssumption ==
    /\ Settings \subseteq SUBSET {"SW1", "SW2"}
    /\ Modes \subseteq {"dhcp", "static"}
    /\ Faults \subseteq {"fnet", "dhcp"}

VARIABLES
    mode,
    cable,        \* the link is physically up
    switches,     \* which of SW1 and SW2 are on, their pins low
    setup,        \* where setup() is
    boardSN,
    mac,          \* what was added to the last byte of mac
    polling,      \* FNET runs and its timer calls it
    link_status,
    dhcp,         \* the DHCP client: off, enabled, or failed to start
    address,      \* the board's IP address: none, a lease, or its static one
    begun,        \* result of Ethernet.begin
    thread,       \* where ctrlEthernetThread is
    linkStat,     \* its local linkStat
    ledGr, ledOr  \* the pins of the LEDs

netVars    == << polling, link_status, dhcp, address >>
setupVars  == << setup, boardSN, mac, begun >>
threadVars == << thread, linkStat >>
leds       == << ledGr, ledOr >>
vars == << mode, cable, switches, setupVars, netVars, threadVars, leds >>

Levels == {"HIGH", "LOW"}

TypeOK ==
    /\ mode \in Modes
    /\ cable \in BOOLEAN
    /\ switches \in Settings
    /\ setup \in {"leds", "mac", "ethernet", "enabled", "address", "release",
                  "set", "link", "switches", "threads", "loop"}
    /\ boardSN \in 0 .. 3
    /\ mac \in 0 .. 3
    /\ polling \in BOOLEAN
    /\ link_status \in BOOLEAN
    /\ dhcp \in {"off", "on", "failed"}
    /\ address \in {"none", "lease", "static"}
    /\ begun \in BOOLEAN
    /\ thread \in {"none", "check", "green", "orange"}
    /\ linkStat \in {0, 1}
    /\ ledGr \in Levels
    /\ ledOr \in Levels

Init ==
    /\ mode \in Modes
    /\ cable \in BOOLEAN
    /\ switches \in Settings
    /\ setup = "leds"
    /\ boardSN = 0
    /\ mac = 0
    /\ polling = FALSE
    /\ link_status = FALSE
    /\ dhcp = "off"
    /\ address = "none"
    /\ begun = FALSE
    /\ thread = "none"
    /\ linkStat = 0
    /\ ledGr \in Levels
    /\ ledOr \in Levels

-----------------------------------------------------------------------------
(* setup(). *)

SetLeds ==
    /\ setup = "leds"
    /\ ledOr' = "LOW"
    /\ ledGr' = "LOW"
    /\ setup' = "mac"
    /\ UNCHANGED << mode, cable, switches, boardSN, mac, begun, netVars, threadVars >>

SetMac ==
    /\ setup = "mac"
    /\ mac' = mac + boardSN
    /\ setup' = "ethernet"
    /\ UNCHANGED << mode, cable, switches, boardSN, begun, netVars, threadVars, leds >>

\* Every Ethernet.begin starts FNET, its link callback and the timer that polls
\* it, and returns when FNET does not start.
StartFnet(next) ==
    /\ setup = "ethernet"
    /\ \/ polling' = TRUE /\ setup' = next
       \/ "fnet" \in Faults /\ polling' = FALSE /\ setup' = "switches"
    /\ UNCHANGED << mode, cable, switches, boardSN, mac, begun, link_status, dhcp,
                    address, threadVars, leds >>

BeginDhcp   == mode = "dhcp" /\ StartFnet("enabled")
BeginStatic == mode = "static" /\ StartFnet("release")

\* Ethernet.begin gives up once its timeout is over.  In the faulty variant it
\* only does while it waits for the client to be enabled.
GivesUpEarly(at) == at = "enabled"
GivesUp(at) == TRUE

\* Wait for the DHCP client to be enabled ...
WaitEnabled ==
    /\ setup = "enabled"
    /\ \/ dhcp = "on" /\ setup' = "address"
       \/ dhcp # "on" /\ GivesUp("enabled") /\ setup' = "switches"
    /\ UNCHANGED << mode, cable, switches, boardSN, mac, begun, netVars, threadVars, leds >>

\* ... and for an address, the timeout being looked at first.
WaitAddress ==
    /\ setup = "address"
    /\ \/ GivesUp("address") /\ UNCHANGED begun
       \/ address # "none" /\ begun' = TRUE
    /\ setup' = "switches"
    /\ UNCHANGED << mode, cable, switches, boardSN, mac, netVars, threadVars, leds >>

\* fnet_dhcp_cln_release, by begin() and by the link callback: an enabled
\* client gives its address back.
DhcpRelease ==
    /\ dhcp' = "off"
    /\ address' = IF dhcp = "on" THEN "none" ELSE address

\* Ethernet.begin(mac, ip, ...): release the client, set the address, and wait
\* for the link, however long that takes.
ReleaseClient ==
    /\ setup = "release"
    /\ DhcpRelease
    /\ setup' = "set"
    /\ UNCHANGED << mode, cable, switches, boardSN, mac, begun, polling,
                    link_status, threadVars, leds >>

SetAddress ==
    /\ setup = "set"
    /\ address' = "static"
    /\ setup' = "link"
    /\ UNCHANGED << mode, cable, switches, boardSN, mac, begun, polling,
                    link_status, dhcp, threadVars, leds >>

WaitLink ==
    /\ setup = "link"
    /\ link_status
    /\ setup' = "switches"
    /\ UNCHANGED << mode, cable, switches, boardSN, mac, begun, netVars, threadVars,
                    leds >>

readSettingSwitch == (IF "SW1" \in switches THEN 1 ELSE 0)
                     + (IF "SW2" \in switches THEN 2 ELSE 0)

\* server.begin() (module EthernetServer), then the switches.
ReadSwitches ==
    /\ setup = "switches"
    /\ boardSN' = readSettingSwitch
    /\ setup' = "threads"
    /\ UNCHANGED << mode, cable, switches, mac, begun, netVars, threadVars, leds >>

AddThreads ==
    /\ setup = "threads"
    /\ thread' = "check"
    /\ setup' = "loop"
    /\ UNCHANGED << mode, cable, switches, boardSN, mac, begun, netVars, linkStat, leds >>

Setup == \/ SetLeds \/ SetMac
         \/ BeginDhcp \/ WaitEnabled \/ WaitAddress
         \/ BeginStatic \/ ReleaseClient \/ SetAddress \/ WaitLink
         \/ ReadSwitches \/ AddThreads

-----------------------------------------------------------------------------
(* The interrupt: link_callback and the DHCP client. *)

\* The DHCP client is started for a link that comes up without an address; the
\* faulty variant looks for one that has an address.
StartsWithAddress == address # "none"
StartsDhcp == address = "none"

LinkUp ==
    /\ polling /\ cable /\ ~link_status
    /\ link_status' = TRUE
    /\ \/ StartsDhcp /\ dhcp' = "on"
       \/ StartsDhcp /\ "dhcp" \in Faults /\ dhcp' = "failed"
       \/ ~StartsDhcp /\ UNCHANGED dhcp
    /\ UNCHANGED << mode, cable, switches, setupVars, polling, address, threadVars, leds >>

LinkDown ==
    /\ polling /\ ~cable /\ link_status
    /\ link_status' = FALSE
    /\ DhcpRelease
    /\ UNCHANGED << mode, cable, switches, setupVars, polling, threadVars, leds >>

\* A lease replaces the address there is.
Lease ==
    /\ dhcp = "on" /\ cable /\ address # "lease"
    /\ address' = "lease"
    /\ UNCHANGED << mode, cable, switches, setupVars, polling, link_status, dhcp,
                    threadVars, leds >>

Plug ==
    /\ cable' = ~cable
    /\ UNCHANGED << mode, switches, setupVars, netVars, threadVars, leds >>

-----------------------------------------------------------------------------
(* ctrlEthernetThread. *)

\* link_status is Boolean, so that the Unknown case never occurs.
linkStatus == IF link_status THEN "LinkON" ELSE "LinkOFF"
ctrlConnection == CASE linkStatus = "LinkON" -> 1
                    [] linkStatus = "LinkOFF" -> 0

\* The faulty variant never takes over what it saw.
SeenNever(now) == linkStat
Seen(now) == now

Check ==
    /\ thread = "check"
    /\ linkStat' = Seen(ctrlConnection)
    /\ thread' = IF linkStat # ctrlConnection THEN "green" ELSE "check"
    /\ UNCHANGED << mode, cable, switches, setupVars, netVars, leds >>

ShowGreen ==
    /\ thread = "green"
    /\ ledGr' = IF linkStat = 1 THEN "LOW" ELSE "HIGH"
    /\ thread' = "orange"
    /\ UNCHANGED << mode, cable, switches, setupVars, netVars, linkStat, ledOr >>

ShowOrange ==
    /\ thread = "orange"
    /\ ledOr' = "HIGH"
    /\ thread' = "check"
    /\ UNCHANGED << mode, cable, switches, setupVars, netVars, linkStat, ledGr >>

ctrlEthernetThread == Check \/ ShowGreen \/ ShowOrange

Next ==
    \/ Setup
    \/ LinkUp \/ LinkDown \/ Lease \/ Plug
    \/ ctrlEthernetThread

Spec == Init /\ [][Next]_vars

\* setup() runs, the timer polls, a DHCP server answers, and the thread gets
\* the processor (RoundRobin of module Threads).
FairSpec ==
    /\ Spec
    /\ WF_vars(Setup)
    /\ WF_vars(LinkUp \/ LinkDown) /\ WF_vars(Lease)
    /\ WF_vars(ctrlEthernetThread)

-----------------------------------------------------------------------------
(* Properties. *)

\* setup() reaches loop() whatever the cable and the DHCP server do; with a
\* static address the link has to stay up once.
SetupFinishes ==
    mode = "dhcp" \/ []~polling \/ <>[]cable => <>(setup = "loop")

\* A link that stays up gets an address, also after losses of the link, after
\* starts of the DHCP client that failed and after Ethernet.begin gave up,
\* unless its own start of the client failed; a lease the link lost in between
\* is never kept.
LinkGetsAddress == <>[](cable /\ polling /\ dhcp # "failed") => <>[](address # "none")

\* A board that was given its address keeps it.
StaticAddressStays == [][address = "static" => address' = "static"]_vars

\* The LEDs end up showing the state the link settles in, if it was ever seen
\* up: green alone for a link, none for its loss.
LedsFollowLink ==
    /\ <>[]link_status => <>[](ledGr = "LOW" /\ ledOr = "HIGH")
    /\ <>(linkStat = 1) /\ <>[]~link_status => <>[](ledGr = "HIGH" /\ ledOr = "HIGH")

\* "not connected (led off)": while the thread takes the link to be down and
\* is not about to write the LEDs, they are off.
LedsOffWhenNotConnected ==
    thread = "check" /\ linkStat = 0 => ledGr = "HIGH" /\ ledOr = "HIGH"

\* "Set mac address": boards with different switches get different addresses.
MacCarriesBoardNumber == setup = "loop" => mac = boardSN
=============================================================================
