SPECIFICATION ServiceSpec
CONSTANT MaxSaves = 2
INVARIANTS ThreadsHaveLp NothingHeldWhileWaiting NoReloadLost
PROPERTY StopsWhenGateCloses
