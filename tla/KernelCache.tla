----------------------------- MODULE KernelCache ------------------------------
(* miopen::KernelCache, the compiled kernels of a handle: a map from an      *)
(* algorithm and a network config to a vector of kernels, of which most      *)
(* users have one.  m is the map, a key is whatever pair its user looks up.  *)
LOCAL INSTANCE Naturals
LOCAL INSTANCE Sequences

CONSTANT NoKernel  \* a default constructed Kernel

EmptyKernelMap == <<>>

GetKernels(m, key) == IF key \in DOMAIN m THEN m[key] ELSE <<>>

\* A variation that stores one place too far.
AddKernel_OffByOne(m, key, k, cache_index) ==
    [x \in DOMAIN m \cup {key} |->
        IF x = key THEN [n \in 1 .. cache_index + 2 |-> IF n = cache_index + 2 THEN k ELSE NoKernel]
        ELSE m[x]]

\* The vector grows to cache_index + 1 kernels, with gaps if need be.
AddKernel(m, key, k, cache_index) ==
    LET v    == GetKernels(m, key)
        size == IF Len(v) > cache_index THEN Len(v) ELSE cache_index + 1
        At(n) == IF n = cache_index + 1 THEN k
                 ELSE IF n <= Len(v) THEN v[n] ELSE NoKernel
    IN  [x \in DOMAIN m \cup {key} |-> IF x = key THEN [n \in 1 .. size |-> At(n)] ELSE m[x]]
===============================================================================
