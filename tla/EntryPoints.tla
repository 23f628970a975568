---------------------------- MODULE EntryPoints ----------------------------
(***************************************************************************)
(* The execution context that the check of each driver entry point pushes  *)
(* before the call and pops after it (gtf/structs and gtf/misc_checks):    *)
(* the calls that make up LockState's EntryContexts.  Entry points that    *)
(* are not here push nothing.                                              *)
(***************************************************************************)
EXTENDS LockState, Functions

UserCall == <<BLOCKING_YES, USER_YES>>    \* in a system call of a process
KernelThread == <<BLOCKING_YES, USER_NO>>
Softirq == <<BLOCKING_NO, USER_NO>>

file_operations_rw ==
  [fn \in {"llseek", "read", "write", "aio_read", "aio_write", "readdir", "poll"} |-> UserCall]

file_operations_control ==
  [fn \in {"unlocked_ioctl", "compat_ioctl", "mmap", "open", "flush", "release", "fsync"} |-> UserCall]

file_operations_async ==
  [fn \in {"aio_fsync", "fasync", "lock", "sendpage", "get_unmapped_area"} |-> UserCall]

file_operations_lease ==
  [fn \in {"flock", "splice_write", "splice_read", "setlease", "fallocate"} |-> UserCall]

vm_operations_struct ==
  [fn \in {"open", "close", "fault", "page_mkwrite", "access"} |-> UserCall]

pci_driver ==
  [fn \in {"probe", "remove", "resume_early", "resume", "shutdown"} |-> KernelThread]

usb_driver ==
  [fn \in {"probe", "disconnect", "unlocked_ioctl", "resume", "reset_resume", "pre_reset", "post_reset"} |->
     IF fn = "unlocked_ioctl" THEN UserCall ELSE KernelThread]

bus_type ==
  [fn \in {"match", "uevent", "probe", "remove", "shutdown"} |-> KernelThread]

net_device_ops ==
  [fn \in {"open", "stop", "start_xmit"} |-> IF fn = "start_xmit" THEN Softirq ELSE KernelThread]

init_module == UserCall
cleanup_module == KernelThread

AllContexts ==
  UNION {Range(file_operations_rw), Range(file_operations_control), Range(file_operations_async),
         Range(file_operations_lease), Range(vm_operations_struct), Range(pci_driver),
         Range(usb_driver), Range(bus_type), Range(net_device_ops), {init_module, cleanup_module}}
=============================================================================
