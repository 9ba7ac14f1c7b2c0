----------------------- MODULE WorkspaceConfiguration -----------------------
(***************************************************************************)
(* configure_factor_kernel in backends/cuda_lu.cu: how many dense          *)
(* workspaces the up-looking kernel with workspaces reserves, from the     *)
(* size of the matrix and what the device has at that moment.              *)
(***************************************************************************)
EXTENDS Integers, FiniteSetsExt

\* kWorkspaceBlocksPerMultiprocessor
BlocksPerMultiprocessor == 2

\* A workspace is one row of doubles.
BytesPerWorker(dimension) == dimension * 8

TargetWorkers(processors) == Max({1, processors * BlocksPerMultiprocessor})

MemoryLimitedWorkers(dimension, free) ==
    Max({1, (free \div 4) \div BytesPerWorker(dimension)})

\* workspace_worker_blocks_, of which the kernel's launches take no more.
WorkerBlocks(dimension, processors, free) ==
    Min({TargetWorkers(processors), MemoryLimitedWorkers(dimension, free), dimension})
=============================================================================
