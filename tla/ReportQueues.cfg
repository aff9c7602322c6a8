\* Two listener threads, and requests that fail.
CONSTANTS
  A = A
  a1 = a1
  a2 = a2
  a3 = a3
  Listeners = {STATUS, VALUE}
  Devices = {A}
  Reports = {a1, a2, a3}
  Sender <- MCSender
  Undecodable = {a3}
  Queues = {q1, q2, q3, q4}
  Threads = {t1, t2, t3, t4}
  NoQueue = NoQueue
  NoReport = NoReport
  NoDevice = NoDevice
SPECIFICATION Spec
INVARIANTS TypeOK OneRequest
PROPERTIES QueuedIsPrinted EventuallyKnown
