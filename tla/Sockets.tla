------------------------------ MODULE Sockets ------------------------------
(***************************************************************************)
(* The samples that work with sockets: echo_server, echo_client, mqtt_azure, *)
(* echo_async and echo_async_select, mqtt_publisher and google_iot_mqtt.     *)
(* Each is a program of its own; a behaviour is one of one of them.          *)
(***************************************************************************)
EXTENDS EchoServer, AsyncEcho, Mqtt

VARIABLE program

vars == <<program, srvVars, echoVars, azVars, asyncVars, mqttVars>>

Init ==
  /\ program \in {"echo_server", "echo_client", "mqtt_azure", "echo_async", "mqtt"}
  /\ EchoServerInit /\ EchoClientInit /\ AzureInit /\ AsyncInit /\ MqttInit
  /\ program = "echo_client" \/ rounds.iterations = 0
  /\ program = "echo_async" \/ ~ select
  /\ program = "mqtt" \/ q_kind = "publisher"

EchoServerRuns ==
  program = "echo_server" /\ EchoServerNext /\ UNCHANGED <<echoVars, azVars, asyncVars, mqttVars>>
EchoClientRuns ==
  program = "echo_client" /\ EchoClientNext /\ UNCHANGED <<srvVars, azVars, asyncVars, mqttVars>>
AzureRuns ==
  program = "mqtt_azure" /\ AzureNext /\ UNCHANGED <<srvVars, echoVars, asyncVars, mqttVars>>
AsyncEchoRuns ==
  program = "echo_async" /\ AsyncNext /\ UNCHANGED <<srvVars, echoVars, azVars, mqttVars>>
MqttRuns ==
  program = "mqtt" /\ MqttNext /\ UNCHANGED <<srvVars, echoVars, azVars, asyncVars>>

Next == (EchoServerRuns \/ EchoClientRuns \/ AzureRuns \/ AsyncEchoRuns \/ MqttRuns) /\ UNCHANGED program

Spec == Init /\ [][Next]_vars

-----------------------------------------------------------------------------
(* Properties: with those of the modules, whose comments name the code.      *)

(* On both sides of the echo: bytes come back once and in order, and what a   *)
(* session leaves behind does not reach the next one.                       *)
EchoesInOrder == ServerKeepsOrder /\ SessionsInOrder

(* In the clients of a broker: no wake-up of main is lost, what the program    *)
(* thinks of its connection and of its sockets is so, messages go out once.   *)
BrokersAgree == CloudWakesMain /\ MqttAgrees
=============================================================================
