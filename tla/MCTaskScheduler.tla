---- MODULE MCTaskScheduler ----
EXTENDS TaskScheduler
RootTasks == [th \in Threads |-> IF th = 0 THEN "r0" ELSE IF th = 1 THEN "r1" ELSE "r2"]
====
