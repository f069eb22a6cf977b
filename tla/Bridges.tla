------------------------------ MODULE Bridges ------------------------------
(***************************************************************************)
(* Samples that carry data between a host and a device: packets between a    *)
(* radio and a host (hci_uart, hci_rpmsg, hci_spi, wpan_serial, wpanusb),    *)
(* keys and movements (hid-cdc), sound (audio).  Each is a program of its     *)
(* own; a behaviour is one of one of them.                                 *)
(***************************************************************************)
EXTENDS HciBridge, HciSpi, Wpan, HidCdc, Audio

VARIABLE program

vars == <<program, hciVars, spiVars, wpanVars, hidVars, audioVars>>

Init ==
  /\ program \in {"hci_uart", "hci_rpmsg", "hci_spi", "wpan_serial", "wpanusb", "hid_cdc", "audio"}
  /\ HciInit /\ SpiInit /\ WpanInit /\ HidInit /\ AudioInit
  /\ program = "hci_spi" \/ header_master = "junk"
  /\ program = "audio" \/ ~ (a_purges \/ a_host.patient)

Hci(step) == step /\ UNCHANGED <<program, spiVars, wpanVars, hidVars, audioVars>>
Spi(step) == step /\ UNCHANGED <<program, hciVars, wpanVars, hidVars, audioVars>>
Radio(step) == step /\ UNCHANGED <<program, hciVars, spiVars, hidVars, audioVars>>
Desk(step) == step /\ UNCHANGED <<program, hciVars, spiVars, wpanVars, audioVars>>
Sound(step) == program = "audio" /\ step /\ UNCHANGED <<program, hciVars, spiVars, wpanVars, hidVars>>

Next ==
  \/ program = "hci_uart" /\ Hci(UartNext)
  \/ program = "hci_rpmsg" /\ Hci(RpmsgNext)
  \/ program = "hci_spi" /\ Spi(SpiNext)
  \/ program = "wpan_serial" /\ Radio(SerialNext)
  \/ program = "wpanusb" /\ Radio(UsbNext)
  \/ program = "hid_cdc" /\ Desk(HidNext)
  \/ Sound(AudioNext)

(* audio: periods pass, its threads run, a host finishes the command it began. *)
Fairness ==
  /\ WF_vars(Sound(FrameTick)) /\ WF_vars(Sound(Driver)) /\ WF_vars(Sound(Tuning))
  /\ WF_vars(Sound(packet_handler)) /\ WF_vars(Sound(command_buffer.got > 0 /\ process_command))

Spec == Init /\ [][Next]_vars /\ Fairness

-----------------------------------------------------------------------------
(* For TLC: a pool of one buffer, which is often empty, and one of two, which  *)
(* has one behind another; texts that type a key twice, with and without      *)
(* shift, and characters that have no key.                                  *)
Buffers == [cmd |-> 2, acl |-> 1]
Texts == {<<97, 66>>, <<97>>, <<126, 9, 95>>}

-----------------------------------------------------------------------------
(* Properties: those of the modules, whose comments name the code.          *)

(* What passes through arrives whole and in order: packets of hci_uart and    *)
(* hci_rpmsg, keys and movements of hid-cdc.                                *)
NothingGarbled == PacketsArrive /\ HidServed

(* audio: a host that waits is answered.                                    *)
HostIsAnswered == program = "audio" => CommandsAreAnswered

(* What is asked over USB or a serial line is done and answered, once, and     *)
(* buffers find their way back: the radio of wpan, the streams of audio.      *)
RequestsServed == [](RadioServed /\ AudioAgrees) /\ HostIsAnswered
=============================================================================
