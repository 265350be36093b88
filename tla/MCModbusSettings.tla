-------------------------- MODULE MCModbusSettings --------------------------
(* A small instance of ModbusSettings for TLC: two settings, two values.    *)
EXTENDS ModbusSettings

SetOrGet == [kind: {"set"}, setting: 1..2, value: {1}]
            \union {[kind |-> "get", setting |-> 1, value |-> 0]}
BothZero == [p \in 1..2 |-> 0]
=============================================================================
