--------------------------- MODULE MCCommandTask ---------------------------
(* Small instances of CommandTask: two of the function threads, chosen for *)
(* what the run is about, beside the system thread.                        *)
EXTENDS CommandTask

CONSTANTS adc, gpio_input, gpio_output_set, system

(* The thread that may lose its helpers, and one that re-arms its flag.    *)
ServedTasks     == {adc, gpio_output_set}
ServedSpawning  == {adc}
ServedOrder     == <<adc, gpio_output_set>>

(* Stopping: a thread with a trigger mode and the one that re-arms.        *)
StopTasks     == {gpio_input, gpio_output_set}
StopEndless   == {gpio_input}
StopSequence  == <<gpio_input, gpio_output_set>>

Rearms     == {gpio_output_set}
NoThreads  == {}
=============================================================================
