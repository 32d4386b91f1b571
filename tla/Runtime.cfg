SPECIFICATION Spec
CONSTANTS
  t1 = t1
  t2 = t2
  Threads = {t1, t2}
  NoThread = NoThread
  h1 = h1
  h2 = h2
  h3 = h3
  Handlers = {h1, h2, h3}
  NoHandler = NoHandler
  MaxHandlers = 3
  Keys = {0, 1}
  f1 = f1
  f2 = f2
  Functions = {f1, f2}
  MaxOps = 5
INVARIANTS HandlersReached ThreadDataFresh RunsOnce
 
CHECK_DEADLOCK FALSE
